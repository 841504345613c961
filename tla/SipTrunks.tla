----------------------------- MODULE SipTrunks -----------------------------
(***************************************************************************)
(* `plivo sip uris delete`, `sip trunks delete` and `sip trunks update`    *)
(* (cmd/sip_write.go) on an account that others change meanwhile.  Each is *)
(* a check or a read, then a write: a delete walks the pages of a list for *)
(* what depends on the object (walkPages, cmd/lists.go), and an update     *)
(* reads the trunk for the fields the API would clear.  The API has no     *)
(* conditional write, so nothing ties the two together.                    *)
(*                                                                         *)
(* Credentials and IP access control lists are deleted by the same code as *)
(* URIs, with one list to walk in place of two and nothing to read back.   *)
(***************************************************************************)
EXTENDS Naturals, FiniteSets

CONSTANTS
    Cmd,        \* invocations of the three commands
    Trunk,      \* IDs of trunks, present and future
    URI,        \* origination URIs
    Number,     \* phone numbers, on the account or not
    FirstTrunks, FirstNumbers,  \* the trunks at first, and what the numbers may be
    Places,     \* the orders the API may list rows in
    Jobs,       \* what the commands are asked for, a part of AllJobs
    PageSize,   \* rows in a page of a list
    MaxOther,   \* bound: changes made elsewhere, in the console or a script
    NoURI, NoTrunk, NoJob

Direction == {"inbound", "outbound"}
Fields == [dir : Direction, primary : URI, fallback : URI \cup {NoURI}]

\* The arguments of each command; --yes is given, and force is --force.
AllJobs ==
    [kind : {"uri delete"}, target : URI, force : BOOLEAN]
    \cup [kind : {"trunk delete"}, target : Trunk, force : BOOLEAN]
    \cup [kind : {"trunk update"}, target : Trunk,
          dir : Direction \cup {"stored"},          \* --direction
          fallback : URI \cup {NoURI, "keep"}]      \* --fallback-uri

ASSUME SipAssumption ==
    /\ Jobs \subseteq AllJobs
    /\ PageSize \in Nat \ {0} /\ MaxOther \in Nat
    /\ IsFiniteSet(Trunk) /\ IsFiniteSet(Number) /\ Trunk \cap Number = {}
    /\ URI # {} /\ NoURI \notin URI /\ "keep" \notin URI \cup {NoURI}
    /\ NoTrunk \notin Trunk
    /\ FirstTrunks \subseteq Trunk /\ FirstNumbers \subseteq SUBSET Number
    /\ Places \subseteq [Trunk \cup Number -> Nat]
    /\ \A p \in Places, x, y \in Trunk \cup Number : p[x] = p[y] => x = y

VARIABLES
    uris,       \* the account's URIs
    trunks,     \* its trunks
    fields,     \* each trunk's fields
    numbers,    \* its numbers
    place,      \* where each trunk and number has its row, when it is listed
    route,      \* the trunk each number is routed to
    pc, job,    \* where each command is and what it was asked
    offset,     \* rows of the list its walk has read
    found,      \* dependents its walk has seen
    stored,     \* the trunk its update read
    report,     \* what a URI delete read back of each trunk
    gone,       \* history: trunks its DELETE took along
    steady,     \* history: what its decision rests on, unchanged since it looked
    listed,     \* history: the trunk IDs the API has given
    others      \* changes made elsewhere

account == <<uris, trunks, fields, numbers, route, listed>>
vars == <<account, place, pc, job, offset, found, stored, report, gone, steady, others>>

Stages == {"idle", "primary", "fallback", "numbers", "confirm", "delete", "readback",
           "read", "send", "done", "failed"}

Target(c) == job[c].target
Live(c) == pc[c] \notin {"idle", "done", "failed"}
Goto(c, stage) == pc' = [pc EXCEPT ![c] = stage]

\* What a command knows before it starts, and what is left of it at its end.
NoFields == [dir |-> "inbound", fallback |-> NoURI]
NoReport == [t \in Trunk |-> "none"]

End(c, how) ==
    /\ Goto(c, how)
    /\ job' = [job EXCEPT ![c] = NoJob]
    /\ offset' = [offset EXCEPT ![c] = 0]
    /\ found' = [found EXCEPT ![c] = {}]
    /\ stored' = [stored EXCEPT ![c] = NoFields]
    /\ report' = [report EXCEPT ![c] = NoReport]
    /\ gone' = [gone EXCEPT ![c] = {}]

\* The fields of a trunk that is not listed, which nobody looks at.
Unlisted == [dir |-> "inbound", primary |-> CHOOSE u \in URI : TRUE, fallback |-> NoURI]

\* What is broken when c's target is deleted or overwritten: the trunks on a
\* URI, the numbers routed to a trunk, the trunk an update has read.
Dependents(c) ==
    IF ~Live(c) THEN {}
    ELSE CASE job[c].kind = "uri delete" ->
                 {t \in trunks : Target(c) \in {fields[t].primary, fields[t].fallback}}
           [] job[c].kind = "trunk delete" -> {n \in numbers : route[n] = Target(c)}
           [] job[c].kind = "trunk update" -> trunks \cap {Target(c)}

TypeOK ==
    /\ uris \subseteq URI
    /\ trunks \subseteq listed /\ listed \subseteq Trunk
    /\ fields \in [Trunk -> Fields]
    /\ numbers \subseteq Number
    /\ route \in [Number -> trunks \cup {NoTrunk}]
    /\ place \in Places
    /\ pc \in [Cmd -> Stages]
    /\ job \in [Cmd -> Jobs \cup {NoJob}]
    /\ offset \in [Cmd -> Nat]
    /\ \A c \in Cmd : offset[c] <= (IF pc[c] = "numbers" THEN Cardinality(Number)
                                    ELSE IF pc[c] \in {"primary", "fallback"} THEN Cardinality(Trunk)
                                    ELSE 0)
    /\ found \in [Cmd -> SUBSET (Trunk \cup Number)]
    /\ stored \in [Cmd -> [dir : Direction, fallback : URI \cup {NoURI}]]
    /\ report \in [Cmd -> [Trunk -> {"none", "deleted", "kept", "unchecked"}]]
    /\ gone \in [Cmd -> SUBSET Trunk] /\ steady \in [Cmd -> SUBSET (Trunk \cup Number)]
    /\ others \in 0..MaxOther

Init ==
    /\ uris = URI
    /\ trunks = FirstTrunks /\ listed = FirstTrunks
    /\ fields \in [Trunk -> {f \in Fields : f.dir = "inbound"}]
    /\ \A t \in Trunk \ trunks : fields[t] = Unlisted
    /\ numbers \in FirstNumbers
    /\ route \in [Number -> trunks \cup {NoTrunk}]
    /\ \A n \in Number \ numbers : route[n] = NoTrunk
    /\ place \in Places
    /\ pc = [c \in Cmd |-> "idle"]
    /\ job = [c \in Cmd |-> NoJob]
    /\ offset = [c \in Cmd |-> 0]
    /\ found = [c \in Cmd |-> {}]
    /\ stored = [c \in Cmd |-> NoFields]
    /\ report = [c \in Cmd |-> NoReport]
    /\ gone = [c \in Cmd |-> {}]
    /\ steady = [c \in Cmd |-> {}]
    /\ others = 0

-----------------------------------------------------------------------------
(* The check before a delete *)

Start(c) ==
    /\ pc[c] = "idle"
    /\ \E j \in Jobs :
        /\ job' = [job EXCEPT ![c] = j]
        /\ Goto(c, CASE j.kind = "uri delete" -> "primary"
                     [] j.kind = "trunk delete" -> "numbers"
                     [] j.kind = "trunk update" ->
                          IF j.dir = "stored" \/ j.fallback = "keep" THEN "read" ELSE "send")
    /\ UNCHANGED <<account, offset, found, stored, report, gone, others>>

\* The list a walk reads: the trunks by one filter and then the other, or all
\* numbers, since no filter finds numbers by trunk.
Rows(c) ==
    CASE pc[c] = "primary" -> {t \in trunks : fields[t].primary = Target(c)}
      [] pc[c] = "fallback" -> {t \in trunks : fields[t].fallback = Target(c)}
      [] pc[c] = "numbers" -> numbers

\* The offset of a row among others, and the rows from c's offset on.
Offset(x, rows) == Cardinality({y \in rows : place[y] < place[x]})
Page(c) == {x \in Rows(c) : Offset(x, Rows(c)) \in offset[c] .. offset[c] + PageSize - 1}

\* Mutant: trunks that use the URI as their fallback are not looked for.
WalkEnds_PrimaryOnly(c) == Goto(c, "confirm")

WalkEnds(c) == Goto(c, IF pc[c] = "primary" THEN "fallback" ELSE "confirm")

Last(c, page) ==
    \/ page = {} \/ offset[c] + Cardinality(page) >= Cardinality(Rows(c))
    \/ pc[c] = "numbers" /\ page \cap Dependents(c) # {}

\* Mutant: the next walk starts where this one ended.
ReadPage_KeepsOffset(c) ==
    /\ pc[c] \in {"primary", "fallback", "numbers"}
    /\ LET page == Page(c) IN
       /\ found' = [found EXCEPT ![c] = @ \cup (page \cap Dependents(c))]
       /\ offset' = [offset EXCEPT ![c] = @ + Cardinality(page)]
       /\ IF Last(c, page) THEN WalkEnds(c) ELSE UNCHANGED pc
    /\ UNCHANGED <<account, job, stored, report, gone, others>>

\* One page of walkPages.  A number routed to the trunk ends the walk, one
\* being enough to refuse; otherwise the total does, or an empty page.
ReadPage(c) ==
    /\ pc[c] \in {"primary", "fallback", "numbers"}
    /\ LET page == Page(c) IN
       /\ found' = [found EXCEPT ![c] = @ \cup (page \cap Dependents(c))]
       /\ IF Last(c, page)
          THEN WalkEnds(c) /\ offset' = [offset EXCEPT ![c] = 0]
          ELSE UNCHANGED pc /\ offset' = [offset EXCEPT ![c] = @ + Cardinality(page)]
    /\ UNCHANGED <<account, job, stored, report, gone, others>>

\* checkFailed: a page, or the trunk an update needs, could not be read.
ReadFails(c) ==
    /\ pc[c] \in {"primary", "fallback", "numbers", "read"}
    /\ End(c, "failed")
    /\ UNCHANGED <<account, others>>

\* confirmDelete: an object in use needs --force as well.
Confirm(c) ==
    /\ pc[c] = "confirm"
    /\ IF found[c] = {} \/ job[c].force
       THEN Goto(c, "delete") /\ UNCHANGED <<job, offset, found, stored, report, gone>>
       ELSE End(c, "failed")
    /\ UNCHANGED <<account, others>>

-----------------------------------------------------------------------------
(* The delete *)

\* The API deletes the trunks and detaches their numbers.
TakeAway(ts, fs) ==
    /\ trunks' = trunks \ ts
    /\ fields' = [t \in Trunk |-> IF t \in ts THEN Unlisted ELSE fs[t]]
    /\ route' = [n \in Number |-> IF route[n] \in ts THEN NoTrunk ELSE route[n]]

\* DELETE of a URI takes the trunks it is the primary of.  What becomes of it
\* as a fallback is not known.  The answer may get lost.
DeleteURI(c) ==
    /\ pc[c] = "delete" /\ job[c].kind = "uri delete" /\ Target(c) \in uris
    /\ uris' = uris \ {Target(c)}
    /\ LET ts == {t \in trunks : fields[t].primary = Target(c)}
           cleared == [t \in Trunk |-> IF fields[t].fallback = Target(c)
                                       THEN [fields[t] EXCEPT !.fallback = NoURI] ELSE fields[t]]
       IN  /\ \E fs \in {fields, cleared} : TakeAway(ts, fs)
           /\ \/ /\ Goto(c, "readback")
                 /\ gone' = [gone EXCEPT ![c] = ts]
                 /\ UNCHANGED <<job, offset, found, stored, report>>
              \/ End(c, "failed")
    /\ UNCHANGED <<numbers, listed, others>>

DeleteTrunk(c) ==
    /\ pc[c] = "delete" /\ job[c].kind = "trunk delete" /\ Target(c) \in trunks
    /\ TakeAway({Target(c)}, fields)
    /\ \E how \in {"done", "failed"} : End(c, how)   \* the answer may get lost
    /\ UNCHANGED <<uris, numbers, listed, others>>

\* Refused, never received, or the object is already gone.
DeleteFails(c) ==
    /\ pc[c] = "delete"
    /\ End(c, "failed")
    /\ UNCHANGED <<account, others>>

\* Mutant: any failed read counts as the trunk being gone.
ReadBack_AnyError(c) ==
    /\ pc[c] = "readback"
    /\ \E t \in found[c] :
        /\ report[c][t] = "none"
        /\ \E r \in {"deleted", IF t \in trunks THEN "kept" ELSE "deleted"} :
             report' = [report EXCEPT ![c][t] = r]
    /\ UNCHANGED <<account, pc, job, offset, found, stored, gone, others>>

\* trunksAfterURIDelete: a trunk read back is kept, a 404 is one deleted with
\* the URI, and any other answer or none leaves it unchecked.
ReadBack(c) ==
    /\ pc[c] = "readback"
    /\ \E t \in found[c] :
        /\ report[c][t] = "none"
        /\ \E r \in {"unchecked", IF t \in trunks THEN "kept" ELSE "deleted"} :
             report' = [report EXCEPT ![c][t] = r]
    /\ UNCHANGED <<account, pc, job, offset, found, stored, gone, others>>

Reported(c) ==
    /\ pc[c] = "readback"
    /\ \A t \in found[c] : report[c][t] # "none"
    /\ End(c, "done")
    /\ UNCHANGED <<account, others>>

-----------------------------------------------------------------------------
(* The update *)

ReadTrunk(c) ==
    /\ pc[c] = "read" /\ Target(c) \in trunks
    /\ LET f == fields[Target(c)] IN
       stored' = [stored EXCEPT ![c] = [dir |-> f.dir, fallback |-> f.fallback]]
    /\ Goto(c, "send")
    /\ UNCHANGED <<account, job, offset, found, report, gone, others>>

SentDir(c) == IF job[c].dir = "stored" THEN stored[c].dir ELSE job[c].dir

\* Mutant: the fallback is sent only when the flag names one.
SentFallback_NotKept(c) == IF job[c].fallback = "keep" THEN NoURI ELSE job[c].fallback

\* The fallback in the body, NoURI for none: the API clears one left out.
SentFallback(c) ==
    IF job[c].fallback # "keep" THEN job[c].fallback
    ELSE IF SentDir(c) = "inbound" THEN stored[c].fallback ELSE NoURI

\* POST.  checkTrunkFlags and the API refuse what does not fit the direction
\* or names no URI of the account.
Send(c) ==
    /\ pc[c] = "send" /\ Target(c) \in trunks
    /\ job[c].fallback \in URI => SentDir(c) = "inbound"
    /\ SentFallback(c) \in uris \cup {NoURI}
    /\ fields' = [fields EXCEPT ![Target(c)].dir = SentDir(c), ![Target(c)].fallback = SentFallback(c)]
    /\ \E how \in {"done", "failed"} : End(c, how)
    /\ UNCHANGED <<uris, trunks, numbers, route, listed, others>>

SendFails(c) ==
    /\ pc[c] = "send"
    /\ End(c, "failed")
    /\ UNCHANGED <<account, others>>

-----------------------------------------------------------------------------
(* Changes made elsewhere: the console, another machine, another program *)

Other == others < MaxOther /\ others' = others + 1

command == <<pc, job, offset, found, stored, report, gone>>

\* The API gives no ID twice.
NewTrunk ==
    /\ Other
    /\ \E t \in Trunk \ listed, u \in uris :
        /\ trunks' = trunks \cup {t} /\ listed' = listed \cup {t}
        /\ fields' = [fields EXCEPT ![t] = [dir |-> "inbound", primary |-> u, fallback |-> NoURI]]
    /\ UNCHANGED <<uris, numbers, route, command>>

Repoint ==
    /\ Other
    /\ \E t \in trunks, u \in uris, v \in uris \cup {NoURI} :
        /\ v # NoURI => fields[t].dir = "inbound"
        /\ fields' = [fields EXCEPT ![t].primary = u, ![t].fallback = v]
    /\ UNCHANGED <<uris, trunks, numbers, route, listed, command>>

Reroute ==
    /\ Other
    /\ \E n \in numbers, t \in trunks \cup {NoTrunk} :
        route' = [route EXCEPT ![n] = t]
    /\ UNCHANGED <<uris, trunks, fields, numbers, listed, command>>

Buy ==
    /\ Other
    /\ \E n \in Number \ numbers : numbers' = numbers \cup {n}
    /\ UNCHANGED <<uris, trunks, fields, route, listed, command>>

Release ==
    /\ Other
    /\ \E n \in numbers :
        /\ numbers' = numbers \ {n}
        /\ route' = [route EXCEPT ![n] = NoTrunk]
    /\ UNCHANGED <<uris, trunks, fields, listed, command>>

-----------------------------------------------------------------------------
CmdStep(c) ==
    \/ Start(c) \/ ReadPage(c) \/ ReadFails(c) \/ Confirm(c)
    \/ DeleteURI(c) \/ DeleteTrunk(c) \/ DeleteFails(c) \/ ReadBack(c) \/ Reported(c)
    \/ ReadTrunk(c) \/ Send(c) \/ SendFails(c)

\* A number its walk has passed leaves the list: the rest move up, and the next
\* page starts one row late.
Overtaken(c) ==
    /\ pc[c] = "numbers"
    /\ \E n \in numbers : n \notin numbers' /\ Offset(n, numbers) < offset[c]

\* What a command began to look at, or read, and has stayed as it was.
Watch ==
    steady' = [c \in Cmd |->
        LET fresh == pc[c] = "idle" \/ (pc[c] = "read" /\ pc'[c] = "send")
            same == {x \in steady[c] :
                        IF x \in Trunk THEN fields'[x] = fields[x] ELSE ~Overtaken(c)}
        IN  Dependents(c)' \cap (IF fresh THEN Dependents(c)' ELSE same)]

Next ==
    /\ \/ \E c \in Cmd : CmdStep(c)
       \/ NewTrunk \/ Repoint \/ Reroute \/ Buy \/ Release
    /\ Watch /\ UNCHANGED place

Spec == Init /\ [][Next]_vars

-----------------------------------------------------------------------------
(* Properties *)

(***************************************************************************)
(* "If one is routed there, the delete is refused unless --force is added  *)
(* to --yes", and the same for the trunks on a URI: without --force a      *)
(* delete is not sent while something depends on the object that has       *)
(* depended on it since the check began, whatever else changes, unless its *)
(* row moved up past the walk because a number before it was released.     *)
(***************************************************************************)
UnforcedSpares ==
    \A c \in Cmd : pc[c] = "delete" /\ ~job[c].force => steady[c] = {}

(***************************************************************************)
(* After a URI delete every trunk that went with it and that the check had *)
(* found is reported deleted, or unchecked; none that is still there is    *)
(* reported deleted.                                                       *)
(***************************************************************************)
ReportedTrunks ==
    \A c \in Cmd :
        LET as(r) == {t \in Trunk : report[c][t] = r} IN
        /\ pc[c] = "readback" /\ as("none") \cap found[c] = {} =>
             gone[c] \cap found[c] \subseteq as("deleted") \cup as("unchecked")
        /\ as("deleted") \cap trunks = {}

(***************************************************************************)
(* "A flag you do not pass is left untouched, the fallback URI included":  *)
(* so it is if nobody changes the trunk after the update has read it.      *)
(***************************************************************************)
Untouched(c) ==
    LET f == fields[Target(c)] IN
    pc[c] = "send" /\ pc'[c] # "send" =>
        /\ job[c].dir = "stored" => fields'[Target(c)].dir = f.dir
        /\ job[c].fallback = "keep" /\ fields'[Target(c)].dir = "inbound"
             => fields'[Target(c)].fallback = f.fallback

KeptIfSteady == [][\A c \in Cmd : steady[c] # {} => Untouched(c)]_vars
=============================================================================
