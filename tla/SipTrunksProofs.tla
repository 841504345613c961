--------------------------- MODULE SipTrunksProofs ---------------------------
(***************************************************************************)
(* Proofs about SipTrunks, for any commands on any account: an unforced    *)
(* delete spares what depends on its object, its report names no trunk     *)
(* deleted that is there, and an update keeps what it was not asked to     *)
(* change.                                                                 *)
(***************************************************************************)
EXTENDS SipTrunks, FiniteSetTheorems, TLAPS

Row == Trunk \cup Number

-----------------------------------------------------------------------------
(* The rows of a list have the offsets 0, 1, 2, ... *)

LEMMA RowsFinite ==
    ASSUME NEW S \in SUBSET Row
    PROVE  IsFiniteSet(S) /\ Cardinality(S) \in Nat
<1>1. IsFiniteSet(Row)
    BY SipAssumption, FS_Union DEF Row
<1>. QED
    BY <1>1, FS_Subset, FS_CardinalityType

LEMMA OffsetType ==
    ASSUME NEW rows \in SUBSET Row, NEW x
    PROVE  Offset(x, rows) \in Nat
<1>1. {y \in rows : place[y] < place[x]} \in SUBSET Row
    OBVIOUS
<1>. QED
    BY <1>1, RowsFinite DEF Offset

\* A row before another has the smaller offset, even the rows of fewer.
LEMMA OffsetGrows ==
    ASSUME place \in Places, NEW rows \in SUBSET Row, NEW x \in rows, NEW y \in rows,
           place[x] < place[y]
    PROVE  Offset(x, rows) < Offset(y, rows)
<1>. DEFINE B(z) == {w \in rows : place[w] < place[z]}
<1>1. place \in [Row -> Nat]
    BY SipAssumption DEF Row
<1>2. B(x) \in SUBSET Row /\ B(y) \in SUBSET Row /\ B(x) \cup {x} \in SUBSET B(y) /\ x \notin B(x)
    BY <1>1
<1>3. /\ IsFiniteSet(B(x)) /\ Cardinality(B(x)) \in Nat
      /\ IsFiniteSet(B(y)) /\ Cardinality(B(y)) \in Nat
    BY <1>2, RowsFinite
<1>4. Cardinality(B(x) \cup {x}) = Cardinality(B(x)) + 1
    BY <1>2, <1>3, FS_AddElement
<1>5. Cardinality(B(x) \cup {x}) <= Cardinality(B(y))
    BY <1>2, <1>3, FS_Subset
<1>6. Cardinality(B(x)) < Cardinality(B(y))
    BY <1>3, <1>4, <1>5
<1>. QED
    BY <1>6 DEF Offset

LEMMA OffsetInjective ==
    ASSUME place \in Places, NEW rows \in SUBSET Row, NEW x \in rows, NEW y \in rows,
           Offset(x, rows) = Offset(y, rows)
    PROVE  x = y
<1>1. place[x] \in Nat /\ place[y] \in Nat /\ (place[x] = place[y] => x = y)
    BY SipAssumption DEF Row
<1>2. Offset(x, rows) \in Nat /\ Offset(y, rows) \in Nat
    BY OffsetType
<1>3. ~(place[x] < place[y]) /\ ~(place[y] < place[x])
    BY <1>2, OffsetGrows
<1>. QED
    BY <1>1, <1>3

LEMMA OffsetBelow ==
    ASSUME place \in Places, NEW rows \in SUBSET Row, NEW x \in rows
    PROVE  Offset(x, rows) < Cardinality(rows)
<1>. DEFINE B == {w \in rows : place[w] < place[x]}
<1>1. place[x] \in Nat
    BY SipAssumption DEF Row
<1>2. B \in SUBSET rows /\ B # rows
    BY <1>1
<1>3. IsFiniteSet(rows) /\ Cardinality(rows) \in Nat
    BY RowsFinite
<1>4. Cardinality(B) <= Cardinality(rows) /\ Cardinality(B) # Cardinality(rows)
    BY <1>2, <1>3, FS_Subset
<1>5. Cardinality(B) \in Nat
    BY <1>2, RowsFinite
<1>6. Cardinality(B) < Cardinality(rows)
    BY <1>3, <1>4, <1>5
<1>. QED
    BY <1>6 DEF Offset

\* Every offset below the number of rows is that of some row.
LEMMA EveryOffset ==
    ASSUME place \in Places, NEW rows \in SUBSET Row, NEW k \in 0 .. Cardinality(rows) - 1
    PROVE  \E x \in rows : Offset(x, rows) = k
<1>. DEFINE top == Cardinality(rows) - 1
            f == [x \in rows |-> Offset(x, rows)]
<1>1. Cardinality(rows) \in Nat /\ Cardinality(rows) > 0
    BY RowsFinite
<1>2. IsFiniteSet(0 .. top) /\ Cardinality(0 .. top) = Cardinality(rows)
    BY <1>1, FS_Interval
<1>3. \A x \in rows : f[x] \in 0 .. top
    BY <1>1, OffsetType, OffsetBelow
<1>4. \A x, y \in rows : f[x] = f[y] => x = y
    BY OffsetInjective
<1>5. f \in Injection(rows, 0 .. top)
    BY <1>3, <1>4 DEF Injection, IsInjective
<1>6. f \in Surjection(rows, 0 .. top)
    BY <1>2, <1>5, FS_Injection
<1>. QED
    BY <1>6 DEF Surjection

\* A page holds no more rows than it may.
LEMMA PageSmall ==
    ASSUME place \in Places, NEW rows \in SUBSET Row, NEW k \in Nat,
           NEW page, page = {x \in rows : Offset(x, rows) \in k .. k + PageSize - 1}
    PROVE  Cardinality(page) \in 0 .. PageSize
<1>. DEFINE f == [x \in page |-> Offset(x, rows)]
<1>1. PageSize \in Nat /\ PageSize > 0
    BY SipAssumption
<1>2. IsFiniteSet(k .. k + PageSize - 1) /\ Cardinality(k .. k + PageSize - 1) = PageSize
    BY <1>1, FS_Interval
<1>3. f \in Injection(page, k .. k + PageSize - 1)
    BY OffsetInjective DEF Injection, IsInjective
<1>4. Cardinality(page) <= PageSize
    BY <1>2, <1>3, FS_Injection
<1>5. Cardinality(page) \in Nat
    BY RowsFinite
<1>. QED
    BY <1>1, <1>4, <1>5

\* A row at or behind a page's first that is not on the page is behind it, so
\* the page is not the last.
LEMMA BehindPage ==
    ASSUME place \in Places, NEW rows \in SUBSET Row, NEW k \in Nat,
           NEW page, page = {x \in rows : Offset(x, rows) \in k .. k + PageSize - 1},
           NEW x \in rows, Offset(x, rows) >= k, x \notin page
    PROVE  /\ page # {}
           /\ k + Cardinality(page) <= Offset(x, rows)
           /\ k + Cardinality(page) < Cardinality(rows)
<1>1. PageSize \in Nat /\ PageSize > 0
    BY SipAssumption
<1>2. Offset(x, rows) \in Nat /\ Offset(x, rows) >= k + PageSize
    BY <1>1, OffsetType
<1>3. Cardinality(rows) \in Nat /\ Offset(x, rows) < Cardinality(rows)
    BY RowsFinite, OffsetBelow
<1>4. Cardinality(page) \in 0 .. PageSize
    BY PageSmall
<1>5. k \in 0 .. Cardinality(rows) - 1
    BY <1>1, <1>2, <1>3
<1>6. PICK y \in rows : Offset(y, rows) = k
    BY <1>5, EveryOffset
<1>7. y \in page
    BY <1>1, <1>6
<1>. QED
    BY <1>1, <1>2, <1>3, <1>4, <1>7

\* As long as no row before the first k leaves, the others stay behind them.
LEMMA StayBehind ==
    ASSUME place \in Places, NEW S \in SUBSET Row, NEW T \in SUBSET Row, NEW k \in Nat,
           T = S \/ \E n : T = S \cup {n} \/ T = S \ {n},
           \A n \in S : n \in T \/ Offset(n, S) >= k,
           NEW x \in S, x \in T, Offset(x, S) >= k
    PROVE  Offset(x, T) >= k
<1>. DEFINE B(z, R) == {y \in R : place[y] < place[z]}
<1>0. place \in [Row -> Nat]
    BY SipAssumption DEF Row
<1>1. Offset(x, S) \in Nat /\ Offset(x, T) \in Nat
    BY OffsetType
<1>2. CASE S \subseteq T
    <2>1. B(x, S) \in SUBSET B(x, T) /\ IsFiniteSet(B(x, T))
        BY <1>2, RowsFinite
    <2>2. Cardinality(B(x, S)) <= Cardinality(B(x, T))
        BY <2>1, FS_Subset
    <2>. QED
        BY <1>1, <2>2 DEF Offset
<1>3. CASE ~(S \subseteq T)
    <2>1. PICK n : T = S \ {n} /\ n \in S
        BY <1>3
    <2>2. Offset(n, S) >= k /\ Offset(n, S) \in Nat
        BY <2>1, OffsetType
    <2>3. CASE place[x] <= place[n]
        <3>1. B(x, T) = B(x, S)
            BY <1>0, <2>1, <2>3
        <3>. QED
            BY <3>1 DEF Offset
    <2>4. CASE ~(place[x] <= place[n])
        <3>1. B(n, S) \in SUBSET B(x, T) /\ IsFiniteSet(B(x, T))
            BY <1>0, <2>1, <2>4, RowsFinite
        <3>2. Cardinality(B(n, S)) <= Cardinality(B(x, T))
            BY <3>1, FS_Subset
        <3>. QED
            BY <1>1, <2>2, <3>2 DEF Offset
    <2>. QED
        BY <2>3, <2>4
<1>. QED
    BY <1>2, <1>3

-----------------------------------------------------------------------------
(* Types, and what each stage says of the command's job. *)

AccountType ==
    /\ uris \subseteq URI
    /\ trunks \subseteq listed /\ listed \subseteq Trunk
    /\ fields \in [Trunk -> Fields]
    /\ numbers \subseteq Number
    /\ route \in [Number -> trunks \cup {NoTrunk}]
    /\ place \in Places
    /\ others \in 0..MaxOther

CommandType ==
    /\ pc \in [Cmd -> Stages]
    /\ job \in [Cmd -> Jobs \cup {NoJob}]
    /\ offset \in [Cmd -> Nat]
    /\ found \in [Cmd -> SUBSET (Trunk \cup Number)]
    /\ stored \in [Cmd -> [dir : Direction, fallback : URI \cup {NoURI}]]
    /\ report \in [Cmd -> [Trunk -> {"none", "deleted", "kept", "unchecked"}]]
    /\ gone \in [Cmd -> SUBSET Trunk]
    /\ steady \in [Cmd -> SUBSET (Trunk \cup Number)]

OffsetsBounded ==
    \A c \in Cmd : offset[c] <= (IF pc[c] = "numbers" THEN Cardinality(Number)
                                ELSE IF pc[c] \in {"primary", "fallback"} THEN Cardinality(Trunk)
                                ELSE 0)

JobOf(c) ==
    /\ Live(c) => job[c] \in Jobs
    /\ pc[c] \in {"primary", "fallback", "readback"} => job[c].kind = "uri delete"
    /\ pc[c] = "numbers" => job[c].kind = "trunk delete"
    /\ pc[c] \in {"confirm", "delete"} => job[c].kind \in {"uri delete", "trunk delete"}
    /\ pc[c] \in {"read", "send"} => job[c].kind = "trunk update"

JobInv == \A c \in Cmd : JobOf(c)

TypeInv == AccountType /\ CommandType /\ JobInv

LEMMA JobShape ==
    ASSUME NEW j \in Jobs
    PROVE  /\ j.kind \in {"uri delete", "trunk delete", "trunk update"}
           /\ j.kind = "uri delete" => j.target \in URI /\ j.force \in BOOLEAN
           /\ j.kind = "trunk delete" => j.target \in Trunk /\ j.force \in BOOLEAN
           /\ j.kind = "trunk update" =>
                /\ j.target \in Trunk
                /\ j.dir \in Direction \cup {"stored"}
                /\ j.fallback \in URI \cup {NoURI, "keep"}
BY SipAssumption DEF AllJobs

\* A step of a command leaves the others where they are.
LEMMA OtherCommands ==
    ASSUME CommandType, NEW c \in Cmd, CmdStep(c), NEW d \in Cmd, d # c
    PROVE  /\ pc'[d] = pc[d] /\ job'[d] = job[d] /\ offset'[d] = offset[d]
           /\ found'[d] = found[d] /\ stored'[d] = stored[d] /\ report'[d] = report[d]
           /\ gone'[d] = gone[d]
<1>. USE DEF CommandType, End, Goto
<1>1. CASE Start(c)
    BY <1>1 DEF Start
<1>2. CASE ReadPage(c)
    BY <1>2 DEF ReadPage, WalkEnds
<1>3. CASE ReadFails(c) \/ Confirm(c) \/ DeleteFails(c) \/ Reported(c) \/ SendFails(c)
    BY <1>3 DEF ReadFails, Confirm, DeleteFails, Reported, SendFails
<1>4. CASE DeleteURI(c)
    BY <1>4 DEF DeleteURI
<1>5. CASE DeleteTrunk(c)
    BY <1>5 DEF DeleteTrunk
<1>6. CASE ReadBack(c)
    BY <1>6 DEF ReadBack
<1>7. CASE ReadTrunk(c)
    BY <1>7 DEF ReadTrunk
<1>8. CASE Send(c)
    BY <1>8 DEF Send
<1>. QED
    BY <1>1, <1>2, <1>3, <1>4, <1>5, <1>6, <1>7, <1>8 DEF CmdStep

Elsewhere == NewTrunk \/ Repoint \/ Reroute \/ Buy \/ Release

LEMMA UnlistedType == Unlisted \in Fields
<1>1. (CHOOSE u \in URI : TRUE) \in URI
    BY SipAssumption
<1>. QED
    BY <1>1 DEF Unlisted, Fields, Direction

LEMMA TakeAwayType ==
    ASSUME AccountType, NEW ts, NEW fs \in [Trunk -> Fields], TakeAway(ts, fs)
    PROVE  /\ trunks' \subseteq trunks
           /\ fields' \in [Trunk -> Fields]
           /\ route' \in [Number -> trunks' \cup {NoTrunk}]
BY UnlistedType DEF TakeAway, AccountType

LEMMA AccountTypeStep ==
    ASSUME TypeInv, Next
    PROVE  AccountType'
<1>. USE DEF TypeInv, AccountType
<1>1. place' = place
    BY DEF Next
<1>2. ASSUME NEW c \in Cmd, CmdStep(c) PROVE AccountType'
    <2>1. CASE UNCHANGED <<account, others>>
        BY <1>1, <2>1 DEF account
    <2>2. CASE DeleteURI(c)
        <3>. DEFINE cleared == [t \in Trunk |-> IF fields[t].fallback = Target(c)
                                               THEN [fields[t] EXCEPT !.fallback = NoURI] ELSE fields[t]]
        <3>1. cleared \in [Trunk -> Fields]
            <4>1. ASSUME NEW t \in Trunk PROVE [fields[t] EXCEPT !.fallback = NoURI] \in Fields
                BY DEF Fields
            <4>. QED
                BY <4>1
        <3>2. PICK fs \in {fields, cleared} :
                 TakeAway({t \in trunks : fields[t].primary = Target(c)}, fs)
            BY <2>2 DEF DeleteURI
        <3>3. trunks' \subseteq trunks /\ fields' \in [Trunk -> Fields]
              /\ route' \in [Number -> trunks' \cup {NoTrunk}]
            BY <3>1, <3>2, TakeAwayType
        <3>4. uris' \subseteq uris /\ UNCHANGED <<numbers, listed, others>>
            BY <2>2 DEF DeleteURI
        <3>. QED
            BY <1>1, <3>3, <3>4
    <2>3. CASE DeleteTrunk(c)
        <3>1. TakeAway({Target(c)}, fields) /\ UNCHANGED <<uris, numbers, listed, others>>
            BY <2>3 DEF DeleteTrunk
        <3>2. trunks' \subseteq trunks /\ fields' \in [Trunk -> Fields]
              /\ route' \in [Number -> trunks' \cup {NoTrunk}]
            BY <3>1, TakeAwayType
        <3>. QED
            BY <1>1, <3>1, <3>2
    <2>4. CASE Send(c)
        <3>1. Target(c) \in Trunk /\ job[c] \in Jobs /\ job[c].kind = "trunk update"
            BY <2>4 DEF Send, JobInv, JobOf, Live
        <3>2. SentDir(c) \in Direction /\ SentFallback(c) \in URI \cup {NoURI}
            BY <3>1, JobShape DEF SentDir, SentFallback, CommandType
        <3>3. fields' = [fields EXCEPT ![Target(c)] =
                           [@ EXCEPT !.dir = SentDir(c), !.fallback = SentFallback(c)]]
              /\ UNCHANGED <<uris, trunks, numbers, route, listed, others>>
            BY <2>4 DEF Send
        <3>4. [fields[Target(c)] EXCEPT !.dir = SentDir(c), !.fallback = SentFallback(c)] \in Fields
            BY <3>1, <3>2 DEF Fields
        <3>5. fields' \in [Trunk -> Fields]
            BY <3>1, <3>3, <3>4
        <3>. QED
            BY <1>1, <3>3, <3>5
    <2>5. UNCHANGED <<account, others>> \/ DeleteURI(c) \/ DeleteTrunk(c) \/ Send(c)
        BY <1>2 DEF CmdStep, Start, ReadPage, ReadFails, Confirm, DeleteFails, ReadBack, Reported,
                    ReadTrunk, SendFails
    <2>. QED
        BY <2>1, <2>2, <2>3, <2>4, <2>5
<1>3. CASE NewTrunk
    <2>1. PICK t \in Trunk \ listed, u \in uris :
            /\ trunks' = trunks \cup {t} /\ listed' = listed \cup {t}
            /\ fields' = [fields EXCEPT ![t] = [dir |-> "inbound", primary |-> u, fallback |-> NoURI]]
        BY <1>3 DEF NewTrunk
    <2>2. [dir |-> "inbound", primary |-> u, fallback |-> NoURI] \in Fields
        BY DEF Fields, Direction
    <2>3. UNCHANGED <<uris, numbers, route>> /\ others' \in 0 .. MaxOther
        BY <1>3, SipAssumption DEF NewTrunk, Other
    <2>. QED
        BY <1>1, <2>1, <2>2, <2>3
<1>4. CASE Repoint
    <2>1. PICK t \in trunks, u \in uris, v \in uris \cup {NoURI} :
            fields' = [fields EXCEPT ![t].primary = u, ![t].fallback = v]
        BY <1>4 DEF Repoint
    <2>2. fields' \in [Trunk -> Fields]
        BY <2>1 DEF Fields
    <2>3. UNCHANGED <<uris, trunks, numbers, route, listed>> /\ others' \in 0 .. MaxOther
        BY <1>4, SipAssumption DEF Repoint, Other
    <2>. QED
        BY <1>1, <2>1, <2>2, <2>3
<1>5. CASE Reroute \/ Buy \/ Release
    <2>1. UNCHANGED <<uris, trunks, fields, listed>> /\ others' \in 0 .. MaxOther
        BY <1>5, SipAssumption DEF Reroute, Buy, Release, Other
    <2>2. numbers' \subseteq Number /\ route' \in [Number -> trunks \cup {NoTrunk}]
        BY <1>5 DEF Reroute, Buy, Release
    <2>. QED
        BY <1>1, <2>1, <2>2
<1>. QED
    BY <1>2, <1>3, <1>4, <1>5 DEF Next

LEMMA EndType ==
    ASSUME CommandType, NEW c \in Cmd, NEW how \in {"done", "failed"}, End(c, how)
    PROVE  /\ pc' \in [Cmd -> Stages]
           /\ job' \in [Cmd -> Jobs \cup {NoJob}]
           /\ offset' \in [Cmd -> Nat]
           /\ found' \in [Cmd -> SUBSET (Trunk \cup Number)]
           /\ stored' \in [Cmd -> [dir : Direction, fallback : URI \cup {NoURI}]]
           /\ report' \in [Cmd -> [Trunk -> {"none", "deleted", "kept", "unchecked"}]]
           /\ gone' \in [Cmd -> SUBSET Trunk]
           /\ JobOf(c)'
BY DEF CommandType, End, Goto, Stages, NoFields, NoReport, Direction, JobOf, Live

\* CommandType without the history of what a decision rests on.
StageType ==
    /\ pc \in [Cmd -> Stages]
    /\ job \in [Cmd -> Jobs \cup {NoJob}]
    /\ offset \in [Cmd -> Nat]
    /\ found \in [Cmd -> SUBSET (Trunk \cup Number)]
    /\ stored \in [Cmd -> [dir : Direction, fallback : URI \cup {NoURI}]]
    /\ report \in [Cmd -> [Trunk -> {"none", "deleted", "kept", "unchecked"}]]
    /\ gone \in [Cmd -> SUBSET Trunk]

LEMMA StepEnds ==
    ASSUME CommandType, NEW c \in Cmd, NEW how \in {"done", "failed"}, End(c, how)
    PROVE  StageType' /\ JobOf(c)'
BY EndType DEF StageType

LEMMA RowsType ==
    ASSUME AccountType, NEW c \in Cmd, pc[c] \in {"primary", "fallback", "numbers"}
    PROVE  /\ Rows(c) \in SUBSET Row
           /\ pc[c] # "numbers" => Rows(c) \in SUBSET Trunk
           /\ pc[c] = "numbers" => Rows(c) = numbers
           /\ Page(c) \in SUBSET Rows(c)
BY DEF Rows, Page, Row, AccountType

LEMMA CommandStep ==
    ASSUME TypeInv, NEW c \in Cmd, CmdStep(c)
    PROVE  StageType' /\ JobOf(c)'
<1>. USE DEF TypeInv
<1>j. JobOf(c)
    BY DEF JobInv
<1>1. CASE Start(c)
    <2>1. PICK j \in Jobs :
            /\ job' = [job EXCEPT ![c] = j]
            /\ Goto(c, CASE j.kind = "uri delete" -> "primary"
                         [] j.kind = "trunk delete" -> "numbers"
                         [] j.kind = "trunk update" ->
                              IF j.dir = "stored" \/ j.fallback = "keep" THEN "read" ELSE "send")
        BY <1>1 DEF Start
    <2>2. \/ j.kind = "uri delete" /\ Goto(c, "primary")
          \/ j.kind = "trunk delete" /\ Goto(c, "numbers")
          \/ j.kind = "trunk update" /\ (Goto(c, "read") \/ Goto(c, "send"))
        BY <2>1, JobShape
    <2>3. UNCHANGED <<offset, found, stored, report, gone>>
        BY <1>1 DEF Start
    <2>. QED
        BY <2>1, <2>2, <2>3 DEF StageType, CommandType, JobOf, Goto, Stages, Live
<1>2. CASE ReadPage(c)
    <2>1. Page(c) \in SUBSET Row /\ Cardinality(Page(c)) \in Nat
        BY <1>2, RowsType, RowsFinite DEF ReadPage
    <2>2. found' \in [Cmd -> SUBSET (Trunk \cup Number)]
        BY <1>2, <2>1 DEF ReadPage, CommandType, Row
    <2>3. offset' \in [Cmd -> Nat]
        <3>1. \E k \in {0, offset[c] + Cardinality(Page(c))} : offset' = [offset EXCEPT ![c] = k]
            BY <1>2 DEF ReadPage
        <3>2. {0, offset[c] + Cardinality(Page(c))} \subseteq Nat
            BY <2>1 DEF CommandType
        <3>. QED
            BY <3>1, <3>2 DEF CommandType
    <2>4. UNCHANGED <<job, stored, report, gone>> /\ (UNCHANGED pc \/ WalkEnds(c))
        BY <1>2 DEF ReadPage
    <2>5. pc[c] \in {"primary", "fallback", "numbers"}
        BY <1>2 DEF ReadPage
    <2>. QED
        BY <1>j, <2>2, <2>3, <2>4, <2>5
        DEF StageType, CommandType, JobOf, WalkEnds, Goto, Stages, Live
<1>3. CASE Confirm(c)
    <2>1. CASE End(c, "failed")
        BY <2>1, StepEnds
    <2>2. CASE Goto(c, "delete") /\ UNCHANGED <<job, offset, found, stored, report, gone>>
        BY <1>3, <1>j, <2>2 DEF Confirm, StageType, CommandType, JobOf, Goto, Stages, Live
    <2>. QED
        BY <1>3, <2>1, <2>2 DEF Confirm
<1>4. CASE DeleteURI(c)
    <2>1. CASE End(c, "failed")
        BY <2>1, StepEnds
    <2>2. CASE ~End(c, "failed")
        <3>1. /\ Goto(c, "readback") /\ UNCHANGED <<job, offset, found, stored, report>>
              /\ gone' = [gone EXCEPT ![c] = {t \in trunks : fields[t].primary = Target(c)}]
              /\ pc[c] = "delete" /\ job[c].kind = "uri delete"
            BY <1>4, <2>2 DEF DeleteURI
        <3>. QED
            BY <1>j, <3>1 DEF StageType, CommandType, AccountType, JobOf, Goto, Stages, Live
    <2>. QED
        BY <2>1, <2>2
<1>5. CASE ReadFails(c) \/ DeleteTrunk(c) \/ DeleteFails(c) \/ Reported(c) \/ Send(c) \/ SendFails(c)
    <2>1. PICK how \in {"done", "failed"} : End(c, how)
        BY <1>5 DEF ReadFails, DeleteTrunk, DeleteFails, Reported, Send, SendFails
    <2>. QED
        BY <2>1, StepEnds
<1>6. CASE ReadBack(c)
    <2>1. PICK t \in found[c], r \in {"unchecked", "kept", "deleted"} :
              report' = [report EXCEPT ![c][t] = r]
        BY <1>6 DEF ReadBack
    <2>2. report' \in [Cmd -> [Trunk -> {"none", "deleted", "kept", "unchecked"}]]
        BY <2>1 DEF CommandType
    <2>. QED
        BY <1>6, <1>j, <2>2 DEF ReadBack, StageType, CommandType, JobOf, Live
<1>7. CASE ReadTrunk(c)
    <2>1. fields[Target(c)] \in Fields
        BY <1>7 DEF ReadTrunk, AccountType
    <2>2. stored' \in [Cmd -> [dir : Direction, fallback : URI \cup {NoURI}]]
        BY <1>7, <2>1 DEF ReadTrunk, CommandType, Fields
    <2>. QED
        BY <1>7, <1>j, <2>2 DEF ReadTrunk, StageType, CommandType, JobOf, Goto, Stages, Live
<1>. QED
    BY <1>1, <1>2, <1>3, <1>4, <1>5, <1>6, <1>7 DEF CmdStep

\* Every command's stage and job, whoever takes the step.
LEMMA StageStep ==
    ASSUME TypeInv, Next
    PROVE  StageType' /\ JobInv'
<1>1. ASSUME NEW c \in Cmd, CmdStep(c) PROVE StageType' /\ JobInv'
    <2>1. ASSUME NEW d \in Cmd, d # c PROVE JobOf(d)'
        BY <1>1, <2>1, OtherCommands DEF TypeInv, JobInv, JobOf, Live
    <2>. QED
        BY <1>1, <2>1, CommandStep DEF JobInv
<1>2. CASE Elsewhere
    <2>1. UNCHANGED command
        BY <1>2 DEF Elsewhere, NewTrunk, Repoint, Reroute, Buy, Release
    <2>. QED
        BY <2>1 DEF command, TypeInv, CommandType, StageType, JobInv, JobOf, Live
<1>. QED
    BY <1>1, <1>2 DEF Next, Elsewhere

\* What a command's decision rests on is what depends on its target.
DependsInv == \A c \in Cmd : steady[c] \subseteq Dependents(c)

LEMMA DependentsType ==
    ASSUME AccountType', NEW c \in Cmd, JobOf(c)'
    PROVE  Dependents(c)' \in SUBSET (Trunk \cup Number)
<1>1. CASE ~Live(c)'
    BY <1>1 DEF Dependents
<1>2. CASE Live(c)'
    <2>1. job'[c].kind \in {"uri delete", "trunk delete", "trunk update"}
        BY <1>2, JobShape DEF JobOf
    <2>2. CASE job'[c].kind = "uri delete"
        BY <1>2, <2>2 DEF Dependents, AccountType
    <2>3. CASE job'[c].kind = "trunk delete"
        BY <1>2, <2>3 DEF Dependents, AccountType
    <2>4. CASE job'[c].kind = "trunk update"
        BY <1>2, <2>4 DEF Dependents, AccountType
    <2>. QED
        BY <2>1, <2>2, <2>3, <2>4
<1>. QED
    BY <1>1, <1>2

LEMMA TypeStep ==
    ASSUME TypeInv, Next
    PROVE  TypeInv' /\ DependsInv'
<1>1. AccountType' /\ StageType' /\ JobInv'
    BY AccountTypeStep, StageStep
<1>2. Watch
    BY DEF Next
<1>3. DependsInv'
    BY <1>2 DEF Watch, DependsInv
<1>4. \A c \in Cmd : Dependents(c)' \in SUBSET (Trunk \cup Number)
    BY <1>1, DependentsType DEF JobInv
<1>5. steady' \in [Cmd -> SUBSET (Trunk \cup Number)]
    BY <1>2, <1>4 DEF Watch
<1>. QED
    BY <1>1, <1>3, <1>5 DEF TypeInv, StageType, CommandType

LEMMA TypeInit ==
    ASSUME Init
    PROVE  TypeInv /\ DependsInv /\ OffsetsBounded
<1>1. AccountType
    BY SipAssumption DEF Init, AccountType
<1>2. CommandType
    BY DEF Init, CommandType, Stages, NoFields, NoReport, Direction
<1>3. JobInv
    BY DEF Init, JobInv, JobOf, Live
<1>4. OffsetsBounded /\ DependsInv
    BY DEF Init, OffsetsBounded, DependsInv
<1>. QED
    BY <1>1, <1>2, <1>3, <1>4 DEF TypeInv

\* A step that is no page of a walk leaves the offset, or goes back to none.
LEMMA OffsetKept ==
    ASSUME TypeInv, NEW c \in Cmd, CmdStep(c), ~ReadPage(c)
    PROVE  \/ offset'[c] = 0
           \/ offset'[c] = offset[c] /\ pc[c] \notin {"primary", "fallback", "numbers"}
<1>. USE DEF TypeInv, CommandType
<1>1. CASE \E how \in {"done", "failed"} : End(c, how)
    BY <1>1 DEF End
<1>2. CASE ReadFails(c) \/ DeleteTrunk(c) \/ DeleteFails(c) \/ Reported(c) \/ Send(c) \/ SendFails(c)
    BY <1>1, <1>2 DEF ReadFails, DeleteTrunk, DeleteFails, Reported, Send, SendFails
<1>3. CASE Start(c) \/ ReadBack(c) \/ ReadTrunk(c)
    BY <1>3 DEF Start, ReadBack, ReadTrunk
<1>4. CASE Confirm(c)
    BY <1>1, <1>4 DEF Confirm
<1>5. CASE DeleteURI(c)
    BY <1>1, <1>5 DEF DeleteURI
<1>. QED
    BY <1>2, <1>3, <1>4, <1>5 DEF CmdStep

LEMMA OffsetsStep ==
    ASSUME TypeInv, OffsetsBounded, Next
    PROVE  OffsetsBounded'
<1>. USE DEF TypeInv
<1>0. Cardinality(Number) \in Nat /\ Cardinality(Trunk) \in Nat
    BY RowsFinite DEF Row
<1>1. ASSUME NEW c \in Cmd, CmdStep(c) PROVE OffsetsBounded'
    <2>. DEFINE Bound(d) == IF pc[d] = "numbers" THEN Cardinality(Number)
                            ELSE IF pc[d] \in {"primary", "fallback"} THEN Cardinality(Trunk) ELSE 0
    <2>1. ASSUME NEW d \in Cmd, d # c PROVE offset'[d] <= Bound(d)'
        BY <1>1, <2>1, OtherCommands DEF OffsetsBounded
    <2>2. CASE offset'[c] = 0
        BY <1>0, <2>1, <2>2 DEF OffsetsBounded
    <2>3. CASE offset'[c] = offset[c] /\ pc[c] \notin {"primary", "fallback", "numbers"}
        <3>1. offset[c] = 0
            BY <2>3 DEF OffsetsBounded, CommandType
        <3>. QED
            BY <2>2, <2>3, <3>1
    <2>4. CASE ReadPage(c) /\ offset'[c] # 0
        <3>1. /\ UNCHANGED pc /\ pc[c] \in {"primary", "fallback", "numbers"}
              /\ offset'[c] = offset[c] + Cardinality(Page(c))
              /\ ~(offset[c] + Cardinality(Page(c)) >= Cardinality(Rows(c)))
            BY <2>4 DEF ReadPage, Last, CommandType
        <3>2. /\ Cardinality(Page(c)) \in Nat /\ Cardinality(Rows(c)) \in Nat
              /\ pc[c] = "numbers" => Cardinality(Rows(c)) <= Cardinality(Number)
              /\ pc[c] # "numbers" => Cardinality(Rows(c)) <= Cardinality(Trunk)
            <4>1. Rows(c) \in SUBSET Row /\ Page(c) \in SUBSET Row
                BY <3>1, RowsType
            <4>2. pc[c] = "numbers" => Rows(c) \in SUBSET Number
                BY <3>1, RowsType DEF AccountType
            <4>3. pc[c] # "numbers" => Rows(c) \in SUBSET Trunk
                BY <3>1, RowsType
            <4>4. IsFiniteSet(Number) /\ IsFiniteSet(Trunk)
                BY SipAssumption
            <4>. QED
                BY <4>1, <4>2, <4>3, <4>4, RowsFinite, FS_Subset
        <3>3. offset'[c] <= Bound(c)'
            BY <1>0, <3>1, <3>2 DEF CommandType
        <3>. QED
            BY <2>1, <3>3 DEF OffsetsBounded
    <2>. QED
        BY <1>1, <2>2, <2>3, <2>4, OffsetKept
<1>2. CASE Elsewhere
    <2>1. UNCHANGED command
        BY <1>2 DEF Elsewhere, NewTrunk, Repoint, Reroute, Buy, Release
    <2>. QED
        BY <2>1 DEF command, OffsetsBounded
<1>. QED
    BY <1>1, <1>2 DEF Next, Elsewhere

LEMMA TypeStutter ==
    ASSUME TypeInv, DependsInv, OffsetsBounded, UNCHANGED vars
    PROVE  TypeInv' /\ DependsInv' /\ OffsetsBounded'
<1>. USE DEF vars, account
<1>1. AccountType' /\ CommandType'
    BY DEF TypeInv, AccountType, CommandType
<1>2. JobInv' /\ OffsetsBounded'
    BY DEF TypeInv, JobInv, JobOf, Live, OffsetsBounded
<1>3. DependsInv'
    BY DEF DependsInv, Dependents, Live, Target
<1>. QED
    BY <1>1, <1>2, <1>3 DEF TypeInv

THEOREM TypesInvariant == Spec => [](TypeInv /\ DependsInv /\ OffsetsBounded)
<1>1. Init => TypeInv /\ DependsInv /\ OffsetsBounded
    BY TypeInit
<1>2. (TypeInv /\ DependsInv /\ OffsetsBounded) /\ [Next]_vars
        => (TypeInv /\ DependsInv /\ OffsetsBounded)'
    BY TypeStep, OffsetsStep, TypeStutter
<1>. QED
    BY <1>1, <1>2, PTL DEF Spec

(***************************************************************************)
(* The state stays within its types; above all, no walk has read more rows *)
(* than there can be, since each starts at the first.                      *)
(***************************************************************************)
THEOREM TypeCorrect == Spec => []TypeOK
<1>1. TypeInv /\ OffsetsBounded => TypeOK
    BY DEF TypeInv, AccountType, CommandType, OffsetsBounded, TypeOK
<1>. QED
    BY <1>1, TypesInvariant, PTL

-----------------------------------------------------------------------------
(* While a walk has found nothing, what depends on the target is ahead of it. *)

SpareOf(c) ==
    /\ pc[c] = "idle" => found[c] = {}
    /\ pc[c] = "delete" /\ ~job[c].force => found[c] = {}
    /\ found[c] = {} =>
         /\ pc[c] \in {"primary", "fallback"} => offset[c] = 0
         /\ pc[c] = "fallback" => \A t \in steady[c] : fields[t].primary # Target(c)
         /\ pc[c] = "numbers" => \A n \in steady[c] : Offset(n, numbers) >= offset[c]
         /\ pc[c] \in {"confirm", "delete"} => steady[c] = {}

SpareInv == \A c \in Cmd : SpareOf(c)

LEMMA SteadyKept ==
    ASSUME TypeInv, Next, NEW c \in Cmd, pc[c] \notin {"idle", "read"}, NEW x \in steady'[c]
    PROVE  /\ x \in steady[c]
           /\ x \in Trunk => fields'[x] = fields[x]
           /\ x \notin Trunk => ~Overtaken(c)
BY DEF Next, Watch

LEMMA NumbersChange ==
    ASSUME Next
    PROVE  numbers' = numbers \/ \E n : numbers' = numbers \cup {n} \/ numbers' = numbers \ {n}
<1>1. ASSUME NEW c \in Cmd, CmdStep(c) PROVE numbers' = numbers
    BY <1>1 DEF CmdStep, Start, ReadPage, ReadFails, Confirm, DeleteURI, DeleteTrunk, DeleteFails,
                ReadBack, Reported, ReadTrunk, Send, SendFails, account
<1>2. CASE NewTrunk \/ Repoint \/ Reroute
    BY <1>2 DEF NewTrunk, Repoint, Reroute
<1>3. CASE Buy \/ Release
    BY <1>3 DEF Buy, Release
<1>. QED
    BY <1>1, <1>2, <1>3 DEF Next

\* The steps of others: what stays as it was stays ahead.
LEMMA SpareKept ==
    ASSUME TypeInv, TypeInv', DependsInv, DependsInv', Next, NEW c \in Cmd, SpareOf(c),
           pc'[c] = pc[c], job'[c] = job[c], offset'[c] = offset[c], found'[c] = found[c]
    PROVE  SpareOf(c)'
<1>1. CASE pc[c] \notin {"fallback", "numbers", "confirm", "delete"}
    BY <1>1 DEF SpareOf
<1>2. CASE pc[c] = "fallback"
    <2>1. steady[c] \subseteq Trunk
        BY <1>2 DEF DependsInv, Dependents, Live, TypeInv, JobInv, JobOf, AccountType
    <2>. QED
        BY <1>2, <2>1, SteadyKept DEF SpareOf, Target
<1>3. CASE pc[c] = "numbers"
    <2>1. steady[c] \subseteq numbers /\ steady'[c] \subseteq numbers'
        BY <1>3 DEF DependsInv, Dependents, Live, TypeInv, JobInv, JobOf
    <2>2. place' = place /\ place \in Places /\ offset[c] \in Nat
          /\ numbers \in SUBSET Row /\ numbers' \in SUBSET Row
        BY DEF Next, TypeInv, AccountType, CommandType, Row
    <2>3. ASSUME found[c] = {}, NEW n \in steady'[c]
          PROVE  Offset(n, numbers)' >= offset'[c]
        <3>1. n \in steady[c] /\ n \notin Trunk
            BY <1>3, <2>1, SteadyKept, SipAssumption DEF TypeInv, AccountType
        <3>2. ~Overtaken(c) /\ Offset(n, numbers) >= offset[c]
            BY <1>3, <2>3, <3>1, SteadyKept DEF SpareOf
        <3>3. \A m \in numbers : m \in numbers' \/ Offset(m, numbers) >= offset[c]
            <4>1. \A m : Offset(m, numbers) \in Nat
                BY <2>2, OffsetType
            <4>. QED
                BY <1>3, <2>2, <3>2, <4>1 DEF Overtaken
        <3>4. Offset(n, numbers') >= offset[c]
            BY <2>1, <2>2, <3>1, <3>2, <3>3, StayBehind, NumbersChange
        <3>. QED
            BY <2>2, <3>4 DEF Offset
    <2>. QED
        BY <1>3, <2>3 DEF SpareOf
<1>4. CASE pc[c] \in {"confirm", "delete"}
    <2>1. steady'[c] \subseteq steady[c]
        BY <1>4, SteadyKept
    <2>. QED
        BY <1>4, <2>1 DEF SpareOf
<1>. QED
    BY <1>1, <1>2, <1>3, <1>4

\* A page of the command's own walk.
LEMMA SparePage ==
    ASSUME TypeInv, TypeInv', DependsInv, DependsInv', Next, NEW c \in Cmd, SpareOf(c),
           ReadPage(c)
    PROVE  SpareOf(c)'
<1>. USE DEF TypeInv
<1>1. /\ pc[c] \in {"primary", "fallback", "numbers"} /\ offset[c] \in Nat
      /\ Rows(c) \in SUBSET Row /\ place \in Places
      /\ Page(c) = {x \in Rows(c) : Offset(x, Rows(c)) \in offset[c] .. offset[c] + PageSize - 1}
    BY RowsType DEF ReadPage, CommandType, AccountType, Page
<1>2. /\ UNCHANGED <<account, job, place>>
      /\ found'[c] = found[c] \cup (Page(c) \cap Dependents(c))
      /\ pc'[c] \in {pc[c], "fallback", "confirm"}
    BY DEF ReadPage, CommandType, WalkEnds, Goto, Next
<1>. SUFFICES ASSUME found'[c] = {}
              PROVE  /\ pc'[c] \in {"primary", "fallback"} => offset'[c] = 0
                     /\ pc'[c] = "fallback" => \A t \in steady'[c] : fields[t].primary # Target(c)
                     /\ pc'[c] = "numbers" => \A n \in steady'[c] : Offset(n, numbers) >= offset'[c]
                     /\ pc'[c] \in {"confirm", "delete"} => steady'[c] = {}
    BY <1>1, <1>2 DEF SpareOf, Target, Offset, account
<1>3. found[c] = {} /\ Page(c) \cap Dependents(c) = {}
    BY <1>2
<1>4. steady'[c] \subseteq steady[c] /\ steady[c] \subseteq Dependents(c)
    BY <1>1, SteadyKept DEF DependsInv
<1>5. CASE pc[c] \in {"primary", "fallback"}
    <2>1. job[c].kind = "uri delete" /\ Live(c) /\ offset[c] = 0
        BY <1>1, <1>3, <1>5 DEF JobInv, JobOf, Live, SpareOf
    <2>2. Dependents(c) = {t \in trunks : Target(c) \in {fields[t].primary, fields[t].fallback}}
        BY <2>1 DEF Dependents
    <2>3. Rows(c) \subseteq Dependents(c)
        BY <1>5, <2>2 DEF Rows
    <2>4. Page(c) = {}
        BY <1>1, <1>3, <2>3
    <2>5. Rows(c) = {}
        <3>1. ASSUME NEW x \in Rows(c) PROVE FALSE
            <4>1. Offset(x, Rows(c)) \in Nat
                BY <1>1, OffsetType
            <4>2. offset[c] = 0
                BY <2>1
            <4>3. Offset(x, Rows(c)) >= offset[c]
                BY <4>1, <4>2
            <4>. QED
                BY <1>1, <2>4, <4>3, BehindPage
        <3>. QED
            BY <3>1
    <2>6. WalkEnds(c) /\ offset'[c] = 0
        BY <2>4 DEF ReadPage, Last, CommandType
    <2>7. CASE pc[c] = "primary"
        <3>1. pc'[c] = "fallback"
            BY <2>6, <2>7 DEF WalkEnds, Goto, CommandType
        <3>2. \A t \in steady'[c] : fields[t].primary # Target(c)
            BY <1>4, <2>2, <2>5, <2>7 DEF Rows
        <3>. QED
            BY <2>6, <3>1, <3>2
    <2>8. CASE pc[c] = "fallback"
        <3>1. pc'[c] = "confirm"
            BY <2>6, <2>8 DEF WalkEnds, Goto, CommandType
        <3>2. \A t \in steady'[c] : t \in trunks /\ fields[t].primary # Target(c)
            BY <1>3, <1>4, <2>2, <2>8 DEF SpareOf
        <3>3. \A t \in trunks : fields[t].fallback # Target(c)
            BY <2>5, <2>8 DEF Rows
        <3>. QED
            BY <1>4, <2>2, <3>1, <3>2, <3>3
    <2>. QED
        BY <1>5, <2>7, <2>8
<1>6. CASE pc[c] = "numbers"
    <2>1. Rows(c) = numbers
        BY <1>6, RowsType
    <2>2. ASSUME NEW n \in steady'[c]
          PROVE  /\ Page(c) # {}
                 /\ offset[c] + Cardinality(Page(c)) <= Offset(n, numbers)
                 /\ offset[c] + Cardinality(Page(c)) < Cardinality(Rows(c))
        <3>1. n \in Dependents(c) /\ n \notin Page(c) /\ Offset(n, numbers) >= offset[c]
            BY <1>3, <1>4, <1>6 DEF SpareOf
        <3>2. n \in numbers
            BY <1>6, <3>1 DEF Dependents, Live, JobInv, JobOf
        <3>. QED
            BY <1>1, <2>1, <3>1, <3>2, BehindPage
    <2>3. CASE steady'[c] = {}
        BY <1>2, <1>6, <2>3 DEF ReadPage, WalkEnds, Goto, CommandType
    <2>4. CASE steady'[c] # {}
        <3>1. PICK n \in steady'[c] : TRUE
            BY <2>4
        <3>2. Cardinality(Page(c)) \in Nat /\ Cardinality(Rows(c)) \in Nat
            BY <1>1, RowsFinite
        <3>3. ~Last(c, Page(c))
            BY <1>1, <1>3, <2>2, <3>1, <3>2 DEF Last
        <3>4. pc' = pc /\ offset'[c] = offset[c] + Cardinality(Page(c))
            BY <3>3 DEF ReadPage, CommandType
        <3>5. \A m \in steady'[c] : Offset(m, numbers) \in Nat
            BY <1>1, <2>1, OffsetType
        <3>. QED
            BY <1>1, <1>6, <2>2, <3>2, <3>4, <3>5
    <2>. QED
        BY <2>3, <2>4
<1>. QED
    BY <1>1, <1>5, <1>6

\* The command's other steps.
LEMMA SpareOwn ==
    ASSUME TypeInv, TypeInv', DependsInv, DependsInv', OffsetsBounded, Next,
           NEW c \in Cmd, SpareOf(c), CmdStep(c)
    PROVE  SpareOf(c)'
<1>. USE DEF TypeInv, CommandType, Goto
<1>1. CASE Start(c)
    <2>1. pc[c] = "idle" /\ found'[c] = {} /\ offset'[c] = 0
        <3>1. pc[c] = "idle" /\ UNCHANGED <<found, offset>> /\ found[c] = {}
            BY <1>1 DEF Start, SpareOf
        <3>2. offset[c] \in Nat /\ offset[c] <= 0
            BY <3>1 DEF OffsetsBounded
        <3>. QED
            BY <3>1, <3>2
    <2>2. pc'[c] \in {"primary", "numbers", "read", "send"}
        <3>1. PICK j \in Jobs :
                Goto(c, CASE j.kind = "uri delete" -> "primary"
                         [] j.kind = "trunk delete" -> "numbers"
                         [] j.kind = "trunk update" ->
                              IF j.dir = "stored" \/ j.fallback = "keep" THEN "read" ELSE "send")
            BY <1>1 DEF Start
        <3>. QED
            BY <3>1, JobShape
    <2>3. \A n : Offset(n, numbers)' \in Nat
        <3>1. \A n : Offset(n, numbers) \in Nat
            BY OffsetType DEF AccountType, Row
        <3>2. numbers' = numbers /\ place' = place
            BY <1>1 DEF Start, account, Next
        <3>3. ASSUME NEW n PROVE Offset(n, numbers)' = Offset(n, numbers)
            BY <3>2 DEF Offset
        <3>. QED
            BY <3>1, <3>3
    <2>. QED
        BY <2>1, <2>2, <2>3 DEF SpareOf
<1>2. CASE ReadPage(c)
    BY <1>2, SparePage
<1>3. CASE \E how \in {"done", "failed"} : End(c, how)
    BY <1>3 DEF End, SpareOf
<1>4. CASE Confirm(c)
    <2>1. CASE Goto(c, "delete") /\ UNCHANGED <<job, offset, found, stored, report, gone>>
        <3>1. pc'[c] = "delete" /\ found'[c] = found[c] /\ job'[c] = job[c]
            BY <2>1
        <3>2. found[c] = {} \/ job[c].force
            BY <1>4, <3>1 DEF Confirm, End
        <3>3. found[c] = {} => steady'[c] = {}
            BY <1>4, SteadyKept DEF Confirm, SpareOf
        <3>. QED
            BY <3>1, <3>2, <3>3 DEF SpareOf
    <2>. QED
        BY <1>3, <1>4, <2>1 DEF Confirm
<1>5. CASE DeleteURI(c)
    <2>1. CASE pc'[c] = "readback"
        BY <2>1 DEF SpareOf
    <2>. QED
        BY <1>3, <1>5, <2>1 DEF DeleteURI
<1>6. CASE ReadFails(c) \/ DeleteTrunk(c) \/ DeleteFails(c) \/ Reported(c) \/ Send(c) \/ SendFails(c)
    BY <1>3, <1>6 DEF ReadFails, DeleteTrunk, DeleteFails, Reported, Send, SendFails
<1>7. CASE ReadBack(c) \/ ReadTrunk(c)
    <2>1. pc'[c] \in {"readback", "send"}
        BY <1>7 DEF ReadBack, ReadTrunk
    <2>. QED
        BY <2>1 DEF SpareOf
<1>. QED
    BY <1>1, <1>2, <1>4, <1>5, <1>6, <1>7 DEF CmdStep

LEMMA SpareStep ==
    ASSUME TypeInv, TypeInv', DependsInv, DependsInv', OffsetsBounded, SpareInv, Next
    PROVE  SpareInv'
<1>. SUFFICES ASSUME NEW d \in Cmd PROVE SpareOf(d)'
    BY DEF SpareInv
<1>1. SpareOf(d)
    BY DEF SpareInv
<1>2. ASSUME NEW c \in Cmd, CmdStep(c) PROVE SpareOf(d)'
    <2>1. CASE c = d
        BY <1>1, <1>2, <2>1, SpareOwn
    <2>2. CASE c # d
        BY <1>1, <1>2, <2>2, OtherCommands, SpareKept DEF TypeInv
    <2>. QED
        BY <2>1, <2>2
<1>3. CASE Elsewhere
    <2>1. UNCHANGED command
        BY <1>3 DEF Elsewhere, NewTrunk, Repoint, Reroute, Buy, Release
    <2>. QED
        BY <1>1, <2>1, SpareKept DEF command
<1>. QED
    BY <1>2, <1>3 DEF Next, Elsewhere

THEOREM SpareInvariant == Spec => []SpareInv
<1>1. Init => SpareInv
    BY DEF Init, SpareInv, SpareOf
<1>2. /\ TypeInv /\ DependsInv /\ OffsetsBounded /\ (TypeInv /\ DependsInv /\ OffsetsBounded)'
      /\ SpareInv /\ [Next]_vars
      => SpareInv'
    <2>1. ASSUME SpareInv, UNCHANGED vars PROVE SpareInv'
        BY <2>1 DEF vars, account, SpareInv, SpareOf, Offset, Target
    <2>. QED
        BY <2>1, SpareStep
<1>. QED
    BY <1>1, <1>2, TypesInvariant, PTL DEF Spec

(***************************************************************************)
(* Without --force nothing is deleted that something has depended on ever  *)
(* since the check began, whatever the rest of the account does meanwhile. *)
(***************************************************************************)
THEOREM Spares == Spec => []UnforcedSpares
<1>1. SpareInv => UnforcedSpares
    BY DEF SpareInv, SpareOf, UnforcedSpares
<1>. QED
    BY <1>1, SpareInvariant, PTL

-----------------------------------------------------------------------------
(* An ID is given once, so a trunk that is gone stays gone. *)

ReportOf(c) ==
    /\ pc[c] # "readback" => report[c] = NoReport
    /\ gone[c] \subseteq listed \ trunks
    /\ Live(c) /\ job[c].kind = "uri delete" => found[c] \subseteq listed
    /\ \A t \in Trunk : report[c][t] = "deleted" => t \in listed \ trunks
    /\ \A t \in Trunk : report[c][t] = "kept" => t \notin gone[c]

ReportInv == \A c \in Cmd : ReportOf(c)

LEMMA StaysGone ==
    ASSUME AccountType, Next
    PROVE  listed \subseteq listed' /\ listed \ trunks \subseteq listed' \ trunks'
<1>1. ASSUME NEW c \in Cmd, CmdStep(c) PROVE listed' = listed /\ trunks' \subseteq trunks
    <2>1. CASE UNCHANGED <<listed, trunks>>
        BY <2>1
    <2>2. CASE DeleteURI(c) \/ DeleteTrunk(c)
        BY <2>2 DEF DeleteURI, DeleteTrunk, TakeAway
    <2>. QED
        BY <1>1, <2>1, <2>2 DEF CmdStep, Start, ReadPage, ReadFails, Confirm, DeleteFails, ReadBack,
                                Reported, ReadTrunk, Send, SendFails, account
<1>2. CASE Elsewhere
    BY <1>2 DEF Elsewhere, NewTrunk, Repoint, Reroute, Buy, Release
<1>. QED
    BY <1>1, <1>2 DEF Next, Elsewhere

LEMMA ReportKept ==
    ASSUME TypeInv, Next, NEW c \in Cmd, ReportOf(c),
           pc'[c] = pc[c], job'[c] = job[c], found'[c] = found[c],
           report'[c] = report[c], gone'[c] = gone[c]
    PROVE  ReportOf(c)'
BY StaysGone DEF TypeInv, ReportOf, Live, NoReport

LEMMA ReportOwn ==
    ASSUME TypeInv, Next, NEW c \in Cmd, SpareOf(c), ReportOf(c), CmdStep(c)
    PROVE  ReportOf(c)'
<1>. USE DEF TypeInv, CommandType, Goto
<1>k. listed \subseteq listed' /\ listed \ trunks \subseteq listed' \ trunks' /\ trunks \subseteq listed
    BY StaysGone DEF AccountType
<1>1. CASE Start(c)
    <2>1. pc[c] = "idle" /\ found'[c] = {} /\ report'[c] = NoReport /\ gone'[c] = gone[c]
        BY <1>1 DEF Start, SpareOf, ReportOf
    <2>. QED
        BY <1>k, <2>1 DEF ReportOf, NoReport
<1>2. CASE ReadPage(c)
    <2>1. /\ pc[c] \in {"primary", "fallback", "numbers"} /\ UNCHANGED <<job, report, gone>>
          /\ found'[c] = found[c] \cup (Page(c) \cap Dependents(c))
        BY <1>2 DEF ReadPage
    <2>2. job[c].kind = "uri delete" => Dependents(c) \subseteq listed
        BY <1>k, <2>1 DEF Dependents, Live
    <2>3. Live(c) /\ report[c] = NoReport
        BY <2>1 DEF Live, ReportOf
    <2>. QED
        BY <1>k, <2>1, <2>2, <2>3 DEF ReportOf, NoReport
<1>3. CASE \E how \in {"done", "failed"} : End(c, how)
    <2>1. /\ pc'[c] \in {"done", "failed"} /\ report'[c] = NoReport
          /\ gone'[c] = {} /\ found'[c] = {}
        BY <1>3 DEF End
    <2>. QED
        BY <2>1 DEF ReportOf, Live, NoReport
<1>4. CASE Confirm(c)
    <2>1. CASE Goto(c, "delete") /\ UNCHANGED <<job, offset, found, stored, report, gone>>
        BY <1>4, <1>k, <2>1 DEF Confirm, ReportOf, Live, NoReport
    <2>. QED
        BY <1>3, <1>4, <2>1 DEF Confirm
<1>5. CASE DeleteURI(c)
    <2>. DEFINE ts == {t \in trunks : fields[t].primary = Target(c)}
    <2>1. CASE gone' = [gone EXCEPT ![c] = ts] /\ UNCHANGED <<job, offset, found, stored, report>>
        <3>1. trunks' = trunks \ ts
            BY <1>5 DEF DeleteURI, TakeAway
        <3>2. report[c] = NoReport /\ Live(c) /\ job[c].kind = "uri delete"
            BY <1>5 DEF DeleteURI, ReportOf, Live
        <3>. QED
            BY <1>k, <2>1, <3>1, <3>2 DEF ReportOf, NoReport
    <2>. QED
        BY <1>3, <1>5, <2>1 DEF DeleteURI
<1>6. CASE ReadFails(c) \/ DeleteTrunk(c) \/ DeleteFails(c) \/ Reported(c) \/ Send(c) \/ SendFails(c)
    BY <1>3, <1>6 DEF ReadFails, DeleteTrunk, DeleteFails, Reported, Send, SendFails
<1>7. CASE ReadBack(c)
    <2>1. /\ pc[c] = "readback" /\ UNCHANGED <<account, pc, job, found, gone>>
          /\ found[c] \subseteq listed
        BY <1>7 DEF ReadBack, ReportOf, Live, JobInv, JobOf
    <2>2. PICK t \in found[c] : \E r \in {"unchecked", IF t \in trunks THEN "kept" ELSE "deleted"} :
              report' = [report EXCEPT ![c][t] = r]
        BY <1>7 DEF ReadBack
    <2>3. PICK r \in {"unchecked", IF t \in trunks THEN "kept" ELSE "deleted"} :
              report' = [report EXCEPT ![c][t] = r]
        BY <2>2
    <2>4. \A s \in Trunk : report'[c][s] = IF s = t THEN r ELSE report[c][s]
        BY <2>3
    <2>5. r = "deleted" => t \in listed \ trunks
        BY <2>1, <2>3
    <2>6. r = "kept" => t \notin gone[c]
        BY <2>3 DEF ReportOf
    <2>. QED
        BY <2>1, <2>4, <2>5, <2>6 DEF ReportOf, Live, account
<1>8. CASE ReadTrunk(c)
    <2>1. pc'[c] = "send" /\ pc[c] = "read" /\ UNCHANGED <<job, found, report, gone>>
        BY <1>8 DEF ReadTrunk
    <2>. QED
        BY <1>k, <2>1 DEF ReportOf, Live, NoReport
<1>. QED
    BY <1>1, <1>2, <1>4, <1>5, <1>6, <1>7, <1>8 DEF CmdStep

LEMMA ReportStep ==
    ASSUME TypeInv, SpareInv, ReportInv, Next
    PROVE  ReportInv'
<1>. SUFFICES ASSUME NEW d \in Cmd PROVE ReportOf(d)'
    BY DEF ReportInv
<1>1. ReportOf(d) /\ SpareOf(d)
    BY DEF ReportInv, SpareInv
<1>2. ASSUME NEW c \in Cmd, CmdStep(c) PROVE ReportOf(d)'
    <2>1. CASE c = d
        BY <1>1, <1>2, <2>1, ReportOwn
    <2>2. CASE c # d
        BY <1>1, <1>2, <2>2, OtherCommands, ReportKept DEF TypeInv
    <2>. QED
        BY <2>1, <2>2
<1>3. CASE Elsewhere
    <2>1. UNCHANGED command
        BY <1>3 DEF Elsewhere, NewTrunk, Repoint, Reroute, Buy, Release
    <2>. QED
        BY <1>1, <2>1, ReportKept DEF command
<1>. QED
    BY <1>2, <1>3 DEF Next, Elsewhere

(***************************************************************************)
(* The report of a URI delete names every trunk that went with the URI and *)
(* that the check had found, as deleted or unchecked, and no trunk that is *)
(* there as deleted, even when others delete and create trunks meanwhile.  *)
(***************************************************************************)
THEOREM ReportTrue == Spec => []ReportedTrunks
<1>1. Init => ReportInv
    BY DEF Init, ReportInv, ReportOf, Live, NoReport
<1>2. TypeInv /\ SpareInv /\ ReportInv /\ [Next]_vars => ReportInv'
    <2>1. ASSUME ReportInv, UNCHANGED vars PROVE ReportInv'
        BY <2>1 DEF vars, account, ReportInv, ReportOf, Live, NoReport
    <2>. QED
        BY <2>1, ReportStep
<1>3. TypeInv /\ ReportInv => ReportedTrunks
    <2>. SUFFICES ASSUME TypeInv, ReportInv, NEW c \in Cmd
                  PROVE  LET as(r) == {t \in Trunk : report[c][t] = r} IN
                         /\ pc[c] = "readback" /\ as("none") \cap found[c] = {} =>
                              gone[c] \cap found[c] \subseteq as("deleted") \cup as("unchecked")
                         /\ as("deleted") \cap trunks = {}
        BY DEF ReportedTrunks
    <2>1. /\ gone[c] \subseteq Trunk
          /\ \A t \in Trunk : report[c][t] \in {"none", "deleted", "kept", "unchecked"}
        BY DEF TypeInv, CommandType
    <2>2. /\ \A t \in Trunk : report[c][t] = "deleted" => t \notin trunks
          /\ \A t \in gone[c] : report[c][t] # "kept"
        BY <2>1 DEF ReportInv, ReportOf
    <2>. QED
        BY <2>1, <2>2
<1>. QED
    BY <1>1, <1>2, <1>3, TypesInvariant, SpareInvariant, PTL DEF Spec

-----------------------------------------------------------------------------
(* What an update has read is what the trunk is, until somebody changes it. *)

StoredOf(c) ==
    /\ pc[c] = "send" /\ steady[c] # {}
    /\ job[c].dir = "stored" \/ job[c].fallback = "keep"
    => /\ stored[c].dir = fields[Target(c)].dir
       /\ stored[c].fallback = fields[Target(c)].fallback

StoredInv == \A c \in Cmd : StoredOf(c)

LEMMA StoredKept ==
    ASSUME TypeInv, DependsInv, Next, NEW c \in Cmd, StoredOf(c),
           pc'[c] = pc[c], job'[c] = job[c], stored'[c] = stored[c]
    PROVE  StoredOf(c)'
<1>. SUFFICES ASSUME pc[c] = "send", steady'[c] # {} PROVE StoredOf(c)'
    BY DEF StoredOf
<1>1. steady[c] \subseteq {Target(c)} /\ Target(c) \in Trunk
    <2>1. job[c] \in Jobs /\ job[c].kind = "trunk update"
        BY DEF TypeInv, JobInv, JobOf, Live
    <2>. QED
        BY <2>1, JobShape DEF DependsInv, Dependents, Live, Target
<1>2. PICK x \in steady'[c] : TRUE
    OBVIOUS
<1>3. x \in steady[c] /\ (x \in Trunk => fields'[x] = fields[x])
    BY SteadyKept
<1>. QED
    BY <1>1, <1>3 DEF StoredOf, Target

LEMMA StoredOwn ==
    ASSUME TypeInv, Next, NEW c \in Cmd, CmdStep(c)
    PROVE  StoredOf(c)'
<1>. USE DEF TypeInv, CommandType, Goto
<1>1. CASE Start(c)
    <2>1. PICK j \in Jobs :
            /\ job' = [job EXCEPT ![c] = j]
            /\ Goto(c, CASE j.kind = "uri delete" -> "primary"
                         [] j.kind = "trunk delete" -> "numbers"
                         [] j.kind = "trunk update" ->
                              IF j.dir = "stored" \/ j.fallback = "keep" THEN "read" ELSE "send")
        BY <1>1 DEF Start
    <2>2. pc'[c] = "send" => ~(j.dir = "stored" \/ j.fallback = "keep")
        BY <2>1, JobShape
    <2>. QED
        BY <2>1, <2>2 DEF StoredOf
<1>2. CASE ReadTrunk(c)
    <2>1. /\ stored'[c] = [dir |-> fields[Target(c)].dir, fallback |-> fields[Target(c)].fallback]
          /\ UNCHANGED <<fields, job>>
        BY <1>2 DEF ReadTrunk, account
    <2>. QED
        BY <2>1 DEF StoredOf, Target
<1>3. CASE pc'[c] # "send"
    BY <1>3 DEF StoredOf
<1>4. Start(c) \/ ReadTrunk(c) \/ pc'[c] # "send"
    BY DEF CmdStep, ReadPage, WalkEnds, ReadFails, Confirm, DeleteURI, DeleteTrunk, DeleteFails,
           ReadBack, Reported, Send, SendFails, End
<1>. QED
    BY <1>1, <1>2, <1>3, <1>4

LEMMA StoredStep ==
    ASSUME TypeInv, DependsInv, StoredInv, Next
    PROVE  StoredInv'
<1>. SUFFICES ASSUME NEW d \in Cmd PROVE StoredOf(d)'
    BY DEF StoredInv
<1>1. StoredOf(d)
    BY DEF StoredInv
<1>2. ASSUME NEW c \in Cmd, CmdStep(c) PROVE StoredOf(d)'
    <2>1. CASE c = d
        BY <1>2, <2>1, StoredOwn
    <2>2. CASE c # d
        BY <1>1, <1>2, <2>2, OtherCommands, StoredKept DEF TypeInv
    <2>. QED
        BY <2>1, <2>2
<1>3. CASE Elsewhere
    <2>1. UNCHANGED command
        BY <1>3 DEF Elsewhere, NewTrunk, Repoint, Reroute, Buy, Release
    <2>. QED
        BY <1>1, <2>1, StoredKept DEF command
<1>. QED
    BY <1>2, <1>3 DEF Next, Elsewhere

\* Only its own POST takes an update out of "send".
LEMMA PostKeeps ==
    ASSUME TypeInv, StoredInv, Next, NEW c \in Cmd, steady[c] # {}
    PROVE  Untouched(c)
<1>. SUFFICES ASSUME pc[c] = "send", pc'[c] # "send"
              PROVE  /\ job[c].dir = "stored" => fields'[Target(c)].dir = fields[Target(c)].dir
                     /\ job[c].fallback = "keep" /\ fields'[Target(c)].dir = "inbound"
                          => fields'[Target(c)].fallback = fields[Target(c)].fallback
    BY DEF Untouched
<1>1. Send(c) \/ SendFails(c)
    <2>1. ASSUME NEW d \in Cmd, CmdStep(d) PROVE d = c
        BY <2>1, OtherCommands DEF TypeInv
    <2>2. ~Elsewhere
        BY DEF Elsewhere, NewTrunk, Repoint, Reroute, Buy, Release, command
    <2>3. CmdStep(c)
        BY <2>1, <2>2 DEF Next, Elsewhere
    <2>. QED
        BY <2>3 DEF CmdStep, Start, ReadPage, ReadFails, Confirm, DeleteURI, DeleteTrunk, DeleteFails,
                    ReadBack, Reported, ReadTrunk
<1>2. CASE SendFails(c)
    BY <1>2 DEF SendFails, account
<1>3. CASE Send(c)
    <2>1. Target(c) \in Trunk /\ fields[Target(c)] \in Fields
        BY <1>3 DEF Send, TypeInv, AccountType
    <2>2. fields'[Target(c)].dir = SentDir(c) /\ fields'[Target(c)].fallback = SentFallback(c)
        BY <1>3, <2>1 DEF Send, TypeInv, AccountType, Fields
    <2>3. job[c].dir = "stored" \/ job[c].fallback = "keep" =>
            /\ stored[c].dir = fields[Target(c)].dir
            /\ stored[c].fallback = fields[Target(c)].fallback
        BY DEF StoredInv, StoredOf
    <2>. QED
        BY <2>2, <2>3 DEF SentDir, SentFallback
<1>. QED
    BY <1>1, <1>2, <1>3

(***************************************************************************)
(* A flag that is not given leaves its field as it is, the fallback URI    *)
(* that the API would clear included, unless somebody else changes the     *)
(* trunk between the read and the POST.                                    *)
(***************************************************************************)
THEOREM UpdateKeeps == Spec => KeptIfSteady
<1>1. Init => StoredInv
    BY DEF Init, StoredInv, StoredOf
<1>2. TypeInv /\ DependsInv /\ StoredInv /\ [Next]_vars => StoredInv'
    <2>1. ASSUME StoredInv, UNCHANGED vars PROVE StoredInv'
        BY <2>1 DEF vars, account, StoredInv, StoredOf, Target
    <2>. QED
        BY <2>1, StoredStep
<1>3. TypeInv /\ StoredInv /\ [Next]_vars => [\A c \in Cmd : steady[c] # {} => Untouched(c)]_vars
    BY PostKeeps
<1>. QED
    BY <1>1, <1>2, <1>3, TypesInvariant, PTL DEF Spec, KeptIfSteady

=============================================================================
