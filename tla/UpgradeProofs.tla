--------------------------- MODULE UpgradeProofs ---------------------------
(***************************************************************************)
(* Proofs about Upgrade for any number of upgrades, releases, faults and   *)
(* kills: with one upgrade at a time, and what is left of that when they   *)
(* overlap.                                                                *)
(*                                                                         *)
(* BinaryWhole alone is not inductive: that the rename puts a whole        *)
(* release under the name needs what was verified to be what is renamed.   *)
(* The invariant says, stage by stage, what the temporary file holds and   *)
(* where the binary the upgrade was started from is; and that the only     *)
(* open file is the temporary one, of the only upgrade at work.            *)
(***************************************************************************)
EXTENDS Upgrade, FiniteSetTheorems, TLAPS

OneWorks == \A p, q \in Proc : Working(p) /\ Working(q) => p = q

\* Only the temporary file is open.
OpenIsTmp == \A p \in Proc : fd[p] # NoFile => fd[p] = name["tmp"]

\* Until the swap the binary is the one the upgrade was started from.
CurrentKept ==
    \A p \in Proc :
        Working(p) =>
            /\ current[p] \in Release /\ target[p] \in Release
            /\ pc[p] # "aside" => Holds("exe", current[p])
            /\ pc[p] = "aside" => /\ name["exe"] = NoFile /\ machine.windows
                                  /\ Holds("old", current[p])

\* What was verified is still there.
VerifiedKept ==
    \A p \in Proc :
        /\ pc[p] \in {"signature", "swap", "aside"} => Holds("tmp", target[p])
        /\ pc[p] \in {"swap", "aside"} => Trusted(p)

UpgradeInv ==
    TypeOK /\ BinaryWhole /\ OneWorks /\ OpenIsTmp /\ CurrentKept /\ VerifiedKept

-----------------------------------------------------------------------------
LEMMA NameFacts == Cardinality(Name) = 3
<1>1. Name = {"exe", "tmp"} \cup {"old"} /\ IsFiniteSet({"exe", "tmp"}) /\ Cardinality({"exe", "tmp"}) = 2
    <2>1. IsFiniteSet({"exe"}) /\ Cardinality({"exe"}) = 1
        BY FS_Singleton
    <2>2. {"exe", "tmp"} = {"exe"} \cup {"tmp"} /\ "tmp" \notin {"exe"}
        OBVIOUS
    <2> QED  BY <2>1, <2>2, FS_AddElement DEF Name
<1>2. "old" \notin {"exe", "tmp"}
    OBVIOUS
<1> QED  BY <1>1, <1>2, FS_AddElement

LEMMA InodeFacts ==
    /\ Inode \subseteq Nat /\ {1, 2, 3} \subseteq Inode
    /\ NoFile \notin Inode
<1>1. Cardinality(Proc) \in Nat
    BY UpgradeAssumption, FS_CardinalityType
<1> QED  BY <1>1, NameFacts, UpgradeAssumption DEF Inode

\* What a file name stands for is not lost when inodes are reclaimed.
LEMMA ReclaimFacts ==
    ASSUME TypeOK, data' = Reclaim(data)
    PROVE  /\ data' \in [Inode -> [1..Size -> Release \cup {0}]]
           /\ \A n \in Name : name'[n] \in Inode => data'[name'[n]] = data[name'[n]]
BY DEF TypeOK, Reclaim, Blank

\* There are more inodes than names that stand for one and upgrades that write one.
LEMMA NewInodeFacts ==
    ASSUME TypeOK, name["tmp"] = NoFile
    PROVE  NewInode \in Inode /\ \A n \in Name : name[n] # NewInode
<1> DEFINE Written == {fd[q] : q \in Proc}
           Named == {name["exe"]} \cup {name["old"]}
<1>p. IsFiniteSet(Proc) /\ Cardinality(Proc) \in Nat
    BY UpgradeAssumption, FS_CardinalityType
<1>1. IsFiniteSet(Written) /\ Cardinality(Written) <= Cardinality(Proc) /\ Cardinality(Written) \in Nat
    <2>1. fd \in Surjection(Proc, Written)
        BY DEF Surjection, TypeOK
    <2>2. IsFiniteSet(Written) /\ Cardinality(Written) <= Cardinality(Proc)
        BY <1>p, <2>1, FS_Surjection
    <2> QED  BY <2>2, FS_CardinalityType
<1>2. IsFiniteSet(Named) /\ Cardinality(Named) <= 2 /\ Cardinality(Named) \in Nat
    <2>1. IsFiniteSet({name["exe"]}) /\ Cardinality({name["exe"]}) = 1
        BY FS_Singleton
    <2>2. IsFiniteSet(Named) /\ Cardinality(Named) \in {1, 2}
        BY <2>1, FS_AddElement
    <2> QED  BY <2>2
<1>3. Cardinality(Inode) = 3 + Cardinality(Proc) /\ IsFiniteSet(Inode)
    <2>1. Inode = 1 .. (3 + Cardinality(Proc))
        BY NameFacts DEF Inode
    <2> QED  BY <1>p, <2>1, FS_Interval
<1>4. IsFiniteSet(Written \cup Named) /\ Cardinality(Written \cup Named) < Cardinality(Inode)
    <2> HIDE DEF Written, Named
    <2>1. /\ IsFiniteSet(Written \cup Named)
          /\ Cardinality(Written \cup Named) =
                Cardinality(Written) + Cardinality(Named) - Cardinality(Written \cap Named)
        BY <1>1, <1>2, FS_Union
    <2>2. Cardinality(Written \cap Named) \in Nat
        <3>1. Written \cap Named \subseteq Named
            OBVIOUS
        <3> QED  BY <1>2, <3>1, FS_Subset, FS_CardinalityType
    <2> QED  BY <1>p, <1>1, <1>2, <1>3, <2>1, <2>2
<1>5. PICK i \in Inode : i \notin Written \cup Named
    <2>1. ~(Inode \subseteq Written \cup Named)
        BY <1>3, <1>4, FS_Subset, FS_CardinalityType
    <2> QED  BY <2>1
<1>6. (\A n \in Name : name[n] # i) /\ (\A q \in Proc : fd[q] # i)
    BY <1>5, InodeFacts DEF Name
<1> QED  BY <1>6 DEF NewInode

\* Only the upgrade at work can have a file open.
LEMMA OthersClosed ==
    ASSUME UpgradeInv, NEW p \in Proc, Working(p)
    PROVE  \A q \in Proc : /\ fd[q] # NoFile => q = p
                           /\ q # p => ~Working(q)
BY DEF UpgradeInv, TypeOK, OneWorks, Working

LEMMA InitInv == Init => UpgradeInv
<1> SUFFICES ASSUME Init PROVE UpgradeInv
    OBVIOUS
<1> USE UpgradeAssumption, InodeFacts
<1>1. TypeOK
    BY DEF Init, TypeOK, Name, Stages, Binary, Blank
<1>2. BinaryWhole
    BY DEF Init, BinaryWhole, Holds, Name, Binary
<1>3. OneWorks /\ OpenIsTmp /\ CurrentKept /\ VerifiedKept
    BY DEF Init, OneWorks, OpenIsTmp, CurrentKept, VerifiedKept, Working
<1> QED  BY <1>1, <1>2, <1>3 DEF UpgradeInv

\* The part of the type that steps change together.
FilesTyped ==
    /\ name \in [Name -> Inode \cup {NoFile}]
    /\ \A m, n \in Name : m # n /\ name[m] # NoFile => name[m] # name[n]
    /\ data \in [Inode -> [1..Size -> Release \cup {0}]]
    /\ pc \in [Proc -> Stages]
    /\ fd \in [Proc -> Inode \cup {NoFile}] /\ pos \in [Proc -> 0..Size]
    /\ \A p \in Proc : (fd[p] # NoFile) <=> (pc[p] = "download")

LEMMA GiveUpTyped ==
    ASSUME TypeOK, NEW p \in Proc, GiveUp(p)
    PROVE  FilesTyped'
<1>1. /\ name' \in [Name -> Inode \cup {NoFile}]
      /\ \A m, n \in Name : m # n /\ name'[m] # NoFile => name'[m] # name'[n]
    BY DEF GiveUp, Remove, TypeOK, Name
<1>2. /\ pc' \in [Proc -> Stages]
      /\ fd' \in [Proc -> Inode \cup {NoFile}] /\ pos' \in [Proc -> 0..Size]
      /\ \A q \in Proc : (fd'[q] # NoFile) <=> (pc'[q] = "download")
    BY UpgradeAssumption DEF GiveUp, Close, Goto, TypeOK, Stages
<1>3. data' \in [Inode -> [1..Size -> Release \cup {0}]]
    BY ReclaimFacts DEF GiveUp
<1> QED  BY <1>1, <1>2, <1>3 DEF FilesTyped

\* A step of an upgrade without an open file that only moves it on.
LEMMA GotoTyped ==
    ASSUME TypeOK, NEW p \in Proc, NEW stage \in Stages \ {"download"}, fd[p] = NoFile,
           Goto(p, stage), UNCHANGED <<files, fd, pos>>
    PROVE  FilesTyped'
BY DEF Goto, TypeOK, FilesTyped, files

\* One that renames or removes files.
LEMMA MoveTyped ==
    ASSUME TypeOK, NEW p \in Proc, NEW stage \in Stages \ {"download"}, fd[p] = NoFile,
           Goto(p, stage), UNCHANGED <<fd, pos>>, data' = Reclaim(data),
           \/ \E m, n \in Name : m # n /\ Rename(m, n)
           \/ \E n \in Name : Remove(n)
           \/ Revert
    PROVE  FilesTyped'
<1>1. CASE \E m, n \in Name : m # n /\ Rename(m, n)
    <2>1. PICK m, n \in Name : m # n /\ name' = [name EXCEPT ![n] = name[m], ![m] = NoFile]
        BY <1>1 DEF Rename
    <2>2. /\ name' \in [Name -> Inode \cup {NoFile}]
          /\ name'[m] = NoFile /\ name'[n] = name[m]
          /\ \A k \in Name : k # m /\ k # n => name'[k] = name[k]
        BY <2>1 DEF TypeOK
    <2>3. \A k, l \in Name : k # l /\ name'[k] # NoFile => name'[k] # name'[l]
        BY <2>2, <2>1 DEF TypeOK
    <2> QED  BY <2>2, <2>3, ReclaimFacts DEF Goto, TypeOK, FilesTyped
<1>2. CASE \E n \in Name : Remove(n)
    BY <1>2, ReclaimFacts DEF Remove, Goto, TypeOK, FilesTyped
<1>3. CASE Revert
    BY <1>3, ReclaimFacts DEF Revert, Goto, TypeOK, FilesTyped, Name
<1> QED  BY <1>1, <1>2, <1>3

LEMMA TypeStep ==
    ASSUME TypeOK, NEW p \in Proc, Step(p) \/ Kill(p)
    PROVE  TypeOK'
<1> USE UpgradeAssumption, InodeFacts
<1>t. TypeOK
    OBVIOUS
<1>0. "failed" \in Stages /\ "done" \in Stages /\ "aside" \in Stages /\ "signature" \in Stages
      /\ "swap" \in Stages /\ "killed" \in Stages
    BY DEF Stages
<1>n. "exe" \in Name /\ "tmp" \in Name /\ "old" \in Name
    BY DEF Name
<1>1. CASE Start(p)
    BY <1>1, <1>t DEF Start, Goto, Stages, Name, TypeOK, files
<1>2. CASE Open(p)
    <2>1. Working(p) /\ fd[p] = NoFile
        BY <1>2, <1>t DEF Open, Working, TypeOK
    <2>2. name["tmp"] = NoFile => NewInode \in Inode /\ \A n \in Name : name[n] # NewInode
        BY <1>t, NewInodeFacts
    <2>3. PICK i \in Inode :
            /\ name' = [name EXCEPT !["tmp"] = i]
            /\ data' = [data EXCEPT ![i] = Blank]
            /\ fd' = [fd EXCEPT ![p] = i]
            /\ \A n \in Name : n # "tmp" => name[n] # i
        <3> DEFINE i == IF name["tmp"] # NoFile THEN name["tmp"] ELSE NewInode
        <3>1. i \in Inode /\ \A n \in Name : n # "tmp" => name[n] # i
            BY <1>t, <1>n, <2>2 DEF TypeOK
        <3>2. /\ name' = [name EXCEPT !["tmp"] = i]
              /\ data' = [data EXCEPT ![i] = Blank]
              /\ fd' = [fd EXCEPT ![p] = i]
            BY <1>2 DEF Open
        <3> QED  BY <3>1, <3>2
    <2>4. name' \in [Name -> Inode \cup {NoFile}]
        BY <1>t, <2>3 DEF TypeOK
    <2>5. \A m, n \in Name : m # n /\ name'[m] # NoFile => name'[m] # name'[n]
        BY <1>t, <1>n, <2>3 DEF TypeOK
    <2>6. data' \in [Inode -> [1..Size -> Release \cup {0}]]
        BY <1>t, <2>3 DEF TypeOK, Blank
    <2>7. fd' \in [Proc -> Inode \cup {NoFile}] /\ pc' \in [Proc -> Stages]
        BY <1>t, <1>2, <2>3 DEF Open, Goto, Stages, TypeOK
    <2>8. \A q \in Proc : (fd'[q] # NoFile) <=> (pc'[q] = "download")
        BY <1>t, <1>2, <2>3 DEF Open, Goto, TypeOK
    <2> QED  BY <1>t, <1>2, <2>4, <2>5, <2>6, <2>7, <2>8 DEF Open, TypeOK, args
<1>3. CASE Download(p)
    <2>1. fd[p] \in Inode /\ pos[p] + 1 \in 1..Size /\ target[p] \in Release \cup {0}
        BY <1>3, <1>t DEF Download, TypeOK
    <2>2. data' = data \/ data' = [data EXCEPT ![fd[p]] = [data[fd[p]] EXCEPT ![pos[p] + 1] = target[p]]]
        BY <1>3 DEF Download
    <2>3. data' \in [Inode -> [1..Size -> Release \cup {0}]]
        <3>1. data[fd[p]] \in [1..Size -> Release \cup {0}]
            BY <2>1, <1>t DEF TypeOK
        <3> DEFINE piece == [data[fd[p]] EXCEPT ![pos[p] + 1] = target[p]]
        <3>2. piece \in [1..Size -> Release \cup {0}]
            BY <3>1, <2>1
        <3>3. data \in [Inode -> [1..Size -> Release \cup {0}]]
            BY <1>t DEF TypeOK
        <3>4. data' = data \/ data' = [data EXCEPT ![fd[p]] = piece]
            BY <2>2
        <3> HIDE DEF piece
        <3> QED  BY <3>2, <3>3, <3>4, <2>1
    <2>4. pos' \in [Proc -> 0..Size] /\ faults' \in 0..MaxFaults
        BY <1>3, <1>t, <2>1 DEF Download, Fault, TypeOK
    <2> QED  BY <1>3, <1>t, <2>3, <2>4 DEF Download, TypeOK, args
<1>4. CASE DownloadFails(p)
    BY <1>4, <1>t, GiveUpTyped DEF DownloadFails, Fault, FilesTyped, TypeOK, args
<1>5. CASE Downloaded(p)
    BY <1>5, <1>t DEF Downloaded, Goto, Stages, Close, TypeOK, args, files
<1>6. CASE CheckSums(p)
    <2>1. FilesTyped'
        BY <1>0, <1>6, <1>t, GiveUpTyped, GotoTyped DEF CheckSums, TypeOK
    <2> QED  BY <1>6, <1>t, <2>1 DEF CheckSums, Fault, FilesTyped, TypeOK, args
<1>7. CASE CheckSignature(p)
    <2>1. FilesTyped'
        BY <1>0, <1>7, <1>t, GiveUpTyped, GotoTyped DEF CheckSignature, TypeOK
    <2> QED  BY <1>7, <1>t, <2>1 DEF CheckSignature, Fault, FilesTyped, TypeOK, args
<1>8. CASE Swap(p)
    <2>1. FilesTyped'
        BY <1>0, <1>n, <1>8, <1>t, GiveUpTyped, MoveTyped DEF Swap, TypeOK
    <2> QED  BY <1>8, <1>t, <2>1 DEF Swap, Fault, FilesTyped, TypeOK, args
<1>9. CASE MoveAside(p)
    <2>1. FilesTyped'
        BY <1>0, <1>n, <1>9, <1>t, GiveUpTyped, MoveTyped DEF MoveAside, TypeOK
    <2> QED  BY <1>9, <1>t, <2>1 DEF MoveAside, Fault, FilesTyped, TypeOK, args
<1>10. CASE MoveIn(p)
    <2>1. FilesTyped'
        BY <1>0, <1>n, <1>10, <1>t, MoveTyped DEF MoveIn, TypeOK
    <2> QED  BY <1>10, <1>t, <2>1 DEF MoveIn, Fault, FilesTyped, TypeOK, args
<1>11. CASE Kill(p)
    BY <1>11, <1>t, ReclaimFacts DEF Kill, Close, Goto, Stages, Name, TypeOK, args
<1>12. CASE OpenFails(p)
    BY <1>12, <1>t DEF OpenFails, Fault, Goto, Stages, TypeOK, files, args
<1> QED
    BY <1>1, <1>2, <1>3, <1>4, <1>5, <1>6, <1>7, <1>8, <1>9, <1>10, <1>11, <1>12 DEF Step

-----------------------------------------------------------------------------
(* The rest of the invariant, which is about the upgrade at work *)

\* UpgradeInv as it reads for one upgrade.
OwnPart(p) ==
    /\ fd[p] # NoFile => fd[p] = name["tmp"]
    /\ Working(p) =>
         /\ current[p] \in Release /\ target[p] \in Release
         /\ pc[p] # "aside" => Holds("exe", current[p])
         /\ pc[p] = "aside" => name["exe"] = NoFile /\ machine.windows /\ Holds("old", current[p])
    /\ pc[p] \in {"signature", "swap", "aside"} => Holds("tmp", target[p])
    /\ pc[p] \in {"swap", "aside"} => Trusted(p)

LEMMA HoldsKept ==
    ASSUME TypeOK, data' = Reclaim(data), NEW m \in Name, NEW n \in Name,
           name'[n] = name[m], NEW v, Holds(m, v)
    PROVE  Holds(n, v)'
BY ReclaimFacts, InodeFacts DEF TypeOK, Holds, Binary

\* The upgrade that takes a step is the only one at work, before and after.
LEMMA StepIsAlone ==
    ASSUME UpgradeInv, Overlap = FALSE, NEW p \in Proc, Step(p) \/ Kill(p)
    PROVE  \A q \in Proc \ {p} : ~Working(q) /\ ~Working(q)' /\ fd'[q] = NoFile
<1> USE DEF Step, Start, Open, OpenFails, Download, DownloadFails, Downloaded, CheckSums,
            CheckSignature, Swap, MoveAside, MoveIn, Kill
<1>1. \A q \in Proc \ {p} : ~Working(q)
    <2>1. CASE Start(p)
        BY <2>1
    <2>2. CASE ~Start(p)
        <3>1. Working(p)
            BY <2>2 DEF Working
        <3> QED  BY <3>1, OthersClosed
    <2> QED  BY <2>1, <2>2
<1>2. \A q \in Proc \ {p} : pc'[q] = pc[q]
    BY DEF GiveUp, Goto, UpgradeInv, TypeOK
<1>3. \A q \in Proc \ {p} : fd[q] = NoFile
    BY <1>1 DEF UpgradeInv, TypeOK, Working
<1>4. \A q \in Proc \ {p} : fd'[q] = fd[q]
    BY DEF GiveUp, Close, UpgradeInv, TypeOK
<1> QED  BY <1>1, <1>2, <1>3, <1>4 DEF Working

LEMMA OwnPartEnough ==
    ASSUME UpgradeInv, Overlap = FALSE, NEW p \in Proc, Step(p) \/ Kill(p),
           BinaryWhole', OwnPart(p)'
    PROVE  UpgradeInv'
<1>1. \A q \in Proc \ {p} : ~Working(q)' /\ fd'[q] = NoFile
    BY StepIsAlone
<1>2. OneWorks'
    BY <1>1 DEF OneWorks
<1>3. OpenIsTmp'
    BY <1>1 DEF OpenIsTmp, OwnPart
<1>4. CurrentKept'
    BY <1>1 DEF CurrentKept, OwnPart
<1>5. VerifiedKept'
    BY <1>1 DEF VerifiedKept, OwnPart, Working
<1> QED  BY <1>2, <1>3, <1>4, <1>5, TypeStep DEF UpgradeInv

LEMMA GiveUpInv ==
    ASSUME UpgradeInv, NEW p \in Proc, Working(p), pc[p] # "aside", GiveUp(p), UNCHANGED args
    PROVE  BinaryWhole' /\ OwnPart(p)' /\ Holds("exe", current[p])'
<1>1. Holds("exe", current[p]) /\ current[p] \in Release
    BY DEF UpgradeInv, CurrentKept
<1>2. name'["exe"] = name["exe"] /\ "exe" \in Name /\ data' = Reclaim(data)
    BY DEF GiveUp, Remove, UpgradeInv, TypeOK, Name
<1>3. Holds("exe", current[p])'
    BY <1>1, <1>2, HoldsKept DEF UpgradeInv, args, Holds
<1>4. BinaryWhole'
    BY <1>1, <1>3 DEF BinaryWhole, args, Holds
<1>5. pc'[p] = "failed" /\ fd'[p] = NoFile
    BY DEF GiveUp, Goto, Close, UpgradeInv, TypeOK
<1>6. OwnPart(p)'
    BY <1>5 DEF OwnPart, Working
<1> QED  BY <1>3, <1>4, <1>6

\* A step that leaves the binary's own file alone keeps it whole.
LEMMA ExeUntouched ==
    ASSUME UpgradeInv, NEW p \in Proc, Working(p), pc[p] # "aside",
           name'["exe"] = name["exe"], data'[name["exe"]] = data[name["exe"]], UNCHANGED args
    PROVE  BinaryWhole' /\ Holds("exe", current[p])'
<1>1. Holds("exe", current[p]) /\ current[p] \in Release
    BY DEF UpgradeInv, CurrentKept
<1>2. Holds("exe", current[p])'
    BY <1>1 DEF Holds, args
<1> QED  BY <1>1, <1>2 DEF BinaryWhole, args, Holds

LEMMA TrustedKept ==
    ASSUME UpgradeInv, NEW p \in Proc, Trusted(p), UNCHANGED <<machine, args>>,
           faults' = faults \/ faults' = faults + 1
    PROVE  Trusted(p)'
BY UpgradeAssumption DEF Trusted, MustVerify, SigningRequired, args, UpgradeInv, TypeOK

LEMMA OwnStep ==
    ASSUME UpgradeInv, NEW p \in Proc, Step(p) \/ Kill(p)
    PROVE  BinaryWhole' /\ OwnPart(p)'
<1> USE UpgradeAssumption, InodeFacts
<1>t. TypeOK /\ BinaryWhole
    BY DEF UpgradeInv
<1>n. "exe" \in Name /\ "tmp" \in Name /\ "old" \in Name
    BY DEF Name
<1>o. OwnPart(p)
    BY DEF UpgradeInv, OwnPart, OpenIsTmp, CurrentKept, VerifiedKept
<1>1. CASE Start(p)
    <2>1. PICK v, w \in Release :
            Holds("exe", v) /\ current' = [current EXCEPT ![p] = v] /\ target' = [target EXCEPT ![p] = w]
        BY <1>1 DEF Start
    <2>2. pc'[p] = "open" /\ fd'[p] = NoFile /\ current'[p] = v /\ target'[p] = w /\ Holds("exe", v)'
        BY <1>1, <1>t, <2>1 DEF Start, Goto, TypeOK, files, Holds
    <2>3. BinaryWhole'
        BY <2>2 DEF BinaryWhole
    <2> QED  BY <2>2, <2>3 DEF OwnPart, Working
<1>2. CASE Open(p)
    <2>1. Working(p) /\ fd[p] = NoFile /\ pc[p] # "aside"
        BY <1>2, <1>t DEF Open, Working, TypeOK
    <2>2. name["tmp"] = NoFile => NewInode \in Inode /\ \A n \in Name : name[n] # NewInode
        BY <1>t, NewInodeFacts
    <2> DEFINE i == IF name["tmp"] # NoFile THEN name["tmp"] ELSE NewInode
    <2>3. i \in Inode /\ name["exe"] # i
        BY <1>t, <1>n, <2>2 DEF TypeOK
    <2>4. /\ name'["exe"] = name["exe"] /\ name'["tmp"] = i
          /\ \A k \in Inode : k # i => data'[k] = data[k]
          /\ fd'[p] = i /\ pc'[p] = "download"
        BY <1>2, <1>t, <1>n DEF Open, Goto, TypeOK
    <2>5. name["exe"] \in Inode
        BY <1>o, <1>t, <1>n, <2>1 DEF OwnPart, Holds, TypeOK
    <2>6. BinaryWhole' /\ Holds("exe", current[p])'
        BY <2>1, <2>3, <2>4, <2>5, <1>2, ExeUntouched DEF Open
    <2> QED  BY <2>1, <2>4, <2>6, <1>2, <1>o DEF Open, OwnPart, args, Working, Holds
<1>3. CASE Download(p)
    <2>1. Working(p) /\ fd[p] = name["tmp"] /\ fd[p] \in Inode /\ pc[p] = "download"
        BY <1>3, <1>t, <1>o DEF Download, Working, TypeOK, OwnPart
    <2>2. name["exe"] # fd[p] /\ name["exe"] \in Inode
        BY <2>1, <1>o, <1>t, <1>n DEF OwnPart, Holds, TypeOK
    <2>3. data'[name["exe"]] = data[name["exe"]]
        BY <1>3, <2>1, <2>2, <1>t DEF Download, TypeOK
    <2>4. BinaryWhole' /\ Holds("exe", current[p])'
        BY <2>1, <2>3, <1>3, ExeUntouched DEF Download
    <2> QED  BY <1>3, <2>1, <2>4, <1>o DEF Download, OwnPart, args, Working, Holds
<1>4. CASE DownloadFails(p)
    BY <1>4, GiveUpInv DEF DownloadFails, Working
<1>5. CASE Downloaded(p)
    <2>1. Working(p) /\ pc[p] = "download" /\ pc'[p] = "sums" /\ fd'[p] = NoFile
        BY <1>5, <1>t DEF Downloaded, Goto, Close, Working, TypeOK
    <2>2. BinaryWhole' /\ Holds("exe", current[p])'
        BY <2>1, <1>5, ExeUntouched DEF Downloaded, files
    <2> QED  BY <1>5, <2>1, <2>2, <1>o DEF Downloaded, OwnPart, args, Working, Holds
<1>6. CASE CheckSums(p)
    <2>1. Working(p) /\ pc[p] = "sums" /\ UNCHANGED args
        BY <1>6 DEF CheckSums, Working
    <2>2. CASE GiveUp(p)
        BY <2>1, <2>2, GiveUpInv
    <2>3. CASE Holds("tmp", target[p]) /\ Goto(p, "signature") /\ UNCHANGED <<files, fd, pos, faults>>
        <3>1. BinaryWhole' /\ Holds("exe", current[p])'
            BY <2>1, <2>3, ExeUntouched DEF files
        <3>2. pc'[p] = "signature" /\ fd'[p] = NoFile /\ Holds("tmp", target[p])'
            BY <2>1, <2>3, <1>t DEF Goto, TypeOK, files, args, Holds
        <3> QED  BY <2>1, <3>1, <3>2, <1>o DEF OwnPart, args, Working, Holds
    <2> QED  BY <1>6, <2>2, <2>3 DEF CheckSums, VerifyChecksum
<1>7. CASE CheckSignature(p)
    <2>1. Working(p) /\ pc[p] = "signature" /\ UNCHANGED args /\ UNCHANGED machine
        BY <1>7 DEF CheckSignature, Working
    <2>2. CASE GiveUp(p)
        BY <2>1, <2>2, GiveUpInv
    <2>3. CASE ~GiveUp(p)
        <3>1. Goto(p, "swap") /\ UNCHANGED <<files, fd, pos>>
            BY <1>7, <2>3 DEF CheckSignature
        <3>2. Trusted(p)'
            <4>1. faults' = faults \/ faults' = faults + 1
                BY <1>7 DEF CheckSignature, Fault
            <4>2. Trusted(p) \/ (~MustVerify(p) /\ faults' = faults + 1)
                BY <1>7, <2>3 DEF CheckSignature, Trusted, Unchecked, VerifySignature, Fault
            <4>3. CASE Trusted(p)
                BY <4>1, <4>3, <2>1, TrustedKept
            <4>4. CASE ~MustVerify(p) /\ faults' = faults + 1
                <5>1. faults' > 0
                    BY <4>4, <1>t DEF TypeOK
                <5> QED  BY <4>4, <5>1, <2>1 DEF Trusted, MustVerify, SigningRequired, args
            <4> QED  BY <4>2, <4>3, <4>4
        <3>3. BinaryWhole' /\ Holds("exe", current[p])'
            BY <2>1, <3>1, ExeUntouched DEF files
        <3>4. pc'[p] = "swap" /\ fd'[p] = NoFile /\ Holds("tmp", target[p])'
            BY <2>1, <3>1, <1>t, <1>o DEF Goto, TypeOK, files, args, Holds, OwnPart
        <3> QED  BY <2>1, <3>2, <3>3, <3>4, <1>o DEF OwnPart, args, Working, Holds
    <2> QED  BY <2>2, <2>3
<1>8. CASE Swap(p)
    <2>1. Working(p) /\ pc[p] = "swap" /\ UNCHANGED args /\ target[p] \in Release /\ Holds("tmp", target[p])
        BY <1>8, <1>o DEF Swap, Working, OwnPart
    <2>2. CASE GiveUp(p)
        BY <2>1, <2>2, GiveUpInv
    <2>3. CASE Rename("tmp", "exe") /\ data' = Reclaim(data) /\ Goto(p, "done") /\ UNCHANGED <<fd, pos, faults>>
        <3>1. name'["exe"] = name["tmp"]
            BY <2>3, <1>t, <1>n DEF Rename, TypeOK
        <3>2. Holds("exe", target[p])'
            BY <2>1, <2>3, <3>1, <1>t, <1>n, HoldsKept DEF args, Holds
        <3>3. pc'[p] = "done" /\ fd'[p] = NoFile
            BY <2>1, <2>3, <1>t DEF Goto, TypeOK
        <3> QED  BY <2>1, <3>2, <3>3 DEF BinaryWhole, OwnPart, args, Working, Holds
    <2> QED  BY <1>8, <2>2, <2>3 DEF Swap
<1>9. CASE MoveAside(p)
    <2>1. /\ Working(p) /\ pc[p] = "swap" /\ UNCHANGED <<args, machine>> /\ machine.windows
          /\ Holds("exe", current[p]) /\ Holds("tmp", target[p]) /\ Trusted(p)
          /\ current[p] \in Release /\ target[p] \in Release
        BY <1>9, <1>o DEF MoveAside, Working, OwnPart
    <2>2. CASE GiveUp(p)
        BY <2>1, <2>2, GiveUpInv
    <2>3. CASE Rename("exe", "old") /\ data' = Reclaim(data) /\ Goto(p, "aside") /\ UNCHANGED <<fd, pos, faults>>
        <3>1. name'["old"] = name["exe"] /\ name'["exe"] = NoFile /\ name'["tmp"] = name["tmp"]
            BY <2>3, <1>t, <1>n DEF Rename, TypeOK
        <3>2. Holds("old", current[p])' /\ Holds("tmp", target[p])'
            BY <2>1, <2>3, <3>1, <1>t, <1>n, HoldsKept DEF args, Holds
        <3>3. pc'[p] = "aside" /\ fd'[p] = NoFile
            BY <2>1, <2>3, <1>t DEF Goto, TypeOK
        <3>4. Trusted(p)'
            BY <2>1, <2>3, TrustedKept
        <3> QED  BY <2>1, <3>1, <3>2, <3>3, <3>4 DEF BinaryWhole, OwnPart, args, Working, Holds
    <2> QED  BY <1>9, <2>2, <2>3 DEF MoveAside
<1>10. CASE MoveIn(p)
    <2>1. /\ Working(p) /\ pc[p] = "aside" /\ UNCHANGED <<args, machine>> /\ machine.windows
          /\ Holds("old", current[p]) /\ Holds("tmp", target[p]) /\ name["exe"] = NoFile
          /\ current[p] \in Release /\ target[p] \in Release /\ data' = Reclaim(data)
        BY <1>10, <1>o DEF MoveIn, Working, OwnPart
    <2>2. ~Working(p)' /\ pc'[p] \in {"done", "failed"} /\ fd'[p] = NoFile
        BY <2>1, <1>10, <1>t DEF MoveIn, Goto, TypeOK, Working
    <2>3. CASE Rename("tmp", "exe")
        <3>1. name'["exe"] = name["tmp"]
            BY <2>3, <1>t, <1>n DEF Rename, TypeOK
        <3>2. Holds("exe", target[p])'
            BY <2>1, <3>1, <1>t, <1>n, HoldsKept DEF args, Holds
        <3> QED  BY <2>1, <2>2, <3>2 DEF BinaryWhole, OwnPart, args, Holds
    <2>4. CASE Revert
        <3>1. name'["exe"] = name["old"]
            BY <2>4, <1>t, <1>n DEF Revert, TypeOK
        <3>2. Holds("exe", current[p])'
            BY <2>1, <3>1, <1>t, <1>n, HoldsKept DEF args, Holds
        <3> QED  BY <2>1, <2>2, <3>2 DEF BinaryWhole, OwnPart, args, Holds
    <2>5. CASE Remove("tmp")
        <3>1. name'["old"] = name["old"] /\ name'["exe"] = NoFile
            BY <2>1, <2>5, <1>t, <1>n DEF Remove, TypeOK, Name
        <3>2. Holds("old", current[p])'
            BY <2>1, <3>1, <1>t, <1>n, HoldsKept DEF args, Holds
        <3> QED  BY <2>1, <2>2, <3>1, <3>2 DEF BinaryWhole, OwnPart, args, Holds
    <2> QED  BY <1>10, <2>3, <2>4, <2>5 DEF MoveIn
<1>11. CASE Kill(p)
    <2>1. pc'[p] = "killed" /\ fd'[p] = NoFile /\ name' = name /\ data' = Reclaim(data) /\ UNCHANGED <<machine, args>>
        BY <1>11, <1>t DEF Kill, Goto, Close, TypeOK
    <2>2. PICK v \in Release : Holds("exe", v) \/ (machine.windows /\ name["exe"] = NoFile /\ Holds("old", v))
        BY <1>t DEF BinaryWhole
    <2>3. Holds("exe", v)' \/ (machine.windows /\ name["exe"] = NoFile /\ Holds("old", v))'
        BY <2>1, <2>2, <1>t, <1>n, HoldsKept
    <2> QED  BY <2>1, <2>3 DEF BinaryWhole, OwnPart, Working
<1>12. CASE OpenFails(p)
    <2>1. pc'[p] = "failed" /\ fd'[p] = NoFile /\ UNCHANGED <<files, machine, args>>
        BY <1>12, <1>t DEF OpenFails, Goto, TypeOK
    <2> QED  BY <2>1, <1>t DEF BinaryWhole, OwnPart, Working, Holds, files
<1> QED
    BY <1>1, <1>2, <1>3, <1>4, <1>5, <1>6, <1>7, <1>8, <1>9, <1>10, <1>11, <1>12 DEF Step

-----------------------------------------------------------------------------
(* Theorems *)

LEMMA StepInv ==
    ASSUME UpgradeInv, Overlap = FALSE, [Next]_vars
    PROVE  UpgradeInv'
<1>1. CASE UNCHANGED vars
    BY <1>1 DEF vars, files, args, UpgradeInv, TypeOK, BinaryWhole, OneWorks, OpenIsTmp, CurrentKept,
        VerifiedKept, Working, Holds, Trusted, MustVerify
<1>2. CASE Next
    <2>1. PICK p \in Proc : Step(p) \/ Kill(p)
        BY <1>2 DEF Next
    <2>2. BinaryWhole' /\ OwnPart(p)'
        BY <2>1, OwnStep
    <2> QED  BY <2>1, <2>2, OwnPartEnough
<1> QED  BY <1>1, <1>2

LEMMA AlwaysInv ==
    ASSUME Overlap = FALSE PROVE Spec => []UpgradeInv
<1>1. UpgradeInv /\ [Next]_vars => UpgradeInv'
    BY StepInv
<1> QED  BY InitInv, <1>1, PTL DEF Spec

(***************************************************************************)
(* With one upgrade at a time the binary is one whole release at every     *)
(* moment, however often upgrades fail or are killed; on Windows it may be *)
(* aside.                                                                  *)
(***************************************************************************)
THEOREM AlwaysWhole ==
    ASSUME Overlap = FALSE PROVE Spec => []BinaryWhole
<1>1. UpgradeInv => BinaryWhole
    BY DEF UpgradeInv
<1> QED  BY AlwaysInv, <1>1, PTL

-----------------------------------------------------------------------------
(* What is left when upgrades overlap: the binary may be torn or be another  *)
(* upgrade's, but it is never missing, and no upgrade skips its own checks.  *)

\* Elsewhere than on Windows the binary's name stands for a file.
ExeStays == machine.windows \/ name["exe"] # NoFile

\* An upgrade past the checks has passed them.
CheckedBefore == \A p \in Proc : pc[p] \in {"swap", "aside", "done"} => Trusted(p)

OverlapInv ==
    TypeOK /\ ExeStays /\ CheckedBefore
    /\ \A p \in Proc : pc[p] = "aside" => machine.windows

LEMMA InitOverlap == Init => OverlapInv
<1> SUFFICES ASSUME Init PROVE OverlapInv
    OBVIOUS
<1>1. TypeOK
    BY InitInv DEF UpgradeInv
<1>2. name["exe"] = 1 /\ \A p \in Proc : pc[p] = "idle"
    BY DEF Init, Name
<1> QED  BY <1>1, <1>2, InodeFacts DEF OverlapInv, ExeStays, CheckedBefore

\* Elsewhere than on Windows only a rename of a file that is there reaches the name.
LEMMA ExeStep ==
    ASSUME OverlapInv, NEW p \in Proc, Step(p) \/ Kill(p)
    PROVE  ExeStays' /\ machine' = machine
<1>t. TypeOK /\ "exe" \in Name /\ "tmp" \in Name /\ ExeStays
    BY DEF OverlapInv, Name
<1>m. machine' = machine
    BY DEF Step, Start, Open, OpenFails, Download, DownloadFails, Downloaded, CheckSums,
           CheckSignature, Swap, MoveAside, MoveIn, Kill
<1>1. CASE Start(p) \/ OpenFails(p) \/ Download(p) \/ Downloaded(p) \/ Kill(p)
    BY <1>1, <1>t, <1>m DEF Start, OpenFails, Download, Downloaded, Kill, files, ExeStays
<1>2. CASE Open(p)
    <2>1. name'["exe"] = name["exe"]
        BY <1>2, <1>t DEF Open, TypeOK
    <2> QED  BY <2>1, <1>t, <1>m DEF ExeStays
<1>3. CASE GiveUp(p) \/ name' = name
    <2>1. name'["exe"] = name["exe"]
        BY <1>3, <1>t DEF GiveUp, Remove, TypeOK
    <2> QED  BY <2>1, <1>t, <1>m DEF ExeStays
<1>4. CASE DownloadFails(p) \/ CheckSums(p) \/ CheckSignature(p)
    BY <1>3, <1>4 DEF DownloadFails, CheckSums, CheckSignature, files
<1>5. CASE Swap(p)
    <2>1. CASE Rename("tmp", "exe") /\ name["tmp"] # NoFile
        <3>1. name'["exe"] = name["tmp"]
            BY <2>1, <1>t DEF Rename, TypeOK
        <3> QED  BY <2>1, <3>1, <1>m, <1>t DEF ExeStays
    <2>2. CASE GiveUp(p)
        BY <1>3, <2>2
    <2> QED  BY <1>5, <2>1, <2>2, <1>m DEF Swap
<1>6. CASE MoveAside(p) \/ MoveIn(p)
    BY <1>6, <1>m DEF MoveAside, MoveIn, OverlapInv, ExeStays
<1> QED  BY <1>1, <1>2, <1>4, <1>5, <1>6, <1>m DEF Step

\* What an upgrade was told and found out stays its own.
LEMMA CheckedStep ==
    ASSUME OverlapInv, NEW p \in Proc, Step(p) \/ Kill(p), NEW q \in Proc
    PROVE  /\ pc'[q] \in {"swap", "aside", "done"} => Trusted(q)'
           /\ pc'[q] = "aside" => machine'.windows
<1>t. TypeOK
    BY DEF OverlapInv
<1>m. machine' = machine
    BY ExeStep
<1>f. faults \in Nat /\ faults' \in Nat /\ faults' >= faults
    <2>1. faults \in Nat
        BY <1>t, UpgradeAssumption DEF TypeOK
    <2>2. faults' = faults \/ faults' = faults + 1 \/ faults' = faults + 2
        BY DEF Step, Start, Open, OpenFails, Download, DownloadFails, Downloaded, CheckSums,
               CheckSignature, Swap, MoveAside, MoveIn, Kill, Fault
    <2> QED  BY <2>1, <2>2
\* Trusted(q) is kept by what leaves q's arguments alone.
<1>k. ASSUME Trusted(q), target'[q] = target[q], unsigned'[q] = unsigned[q] PROVE Trusted(q)'
    BY <1>f, <1>k, <1>m DEF Trusted, MustVerify, SigningRequired
<1>a. \/ target'[q] = target[q] /\ unsigned'[q] = unsigned[q]
      \/ q = p /\ pc'[q] = "open"
    BY <1>t DEF TypeOK, Step, Start, Open, OpenFails, Download, DownloadFails, Downloaded,
           CheckSums, CheckSignature, Swap, MoveAside, MoveIn, Kill, args, Goto
<1>1. CASE q # p
    <2>1. pc'[q] = pc[q]
        BY <1>1, <1>t DEF Step, Start, Open, OpenFails, Download, DownloadFails, Downloaded,
               CheckSums, CheckSignature, Swap, MoveAside, MoveIn, Kill, GiveUp, Goto, TypeOK
    <2> QED  BY <1>1, <1>a, <1>k, <1>m, <2>1 DEF OverlapInv, CheckedBefore
<1>2. CASE q = p
    <2>1. CASE pc'[p] \notin {"swap", "aside", "done"}
        BY <1>2, <2>1
    <2>2. CASE pc'[p] \in {"swap", "aside", "done"}
        <3>0. ~GiveUp(p)
            BY <2>2, <1>t DEF GiveUp, Goto, TypeOK
        <3>1. CheckSignature(p) \/ Swap(p) \/ MoveAside(p) \/ MoveIn(p) \/ pc'[p] = pc[p]
            BY <2>2, <3>0, <1>t DEF Step, Start, Open, OpenFails, Download, DownloadFails,
                   Downloaded, CheckSums, Kill, Goto, TypeOK
        <3>2. CASE CheckSignature(p)
            <4>1. Goto(p, "swap") /\ UNCHANGED <<machine, args>>
                BY <3>0, <3>2 DEF CheckSignature
            <4>2. \/ Trusted(p)
                  \/ ~MustVerify(p) /\ faults' = faults + 1
                BY <3>0, <3>2 DEF CheckSignature, Trusted, Unchecked, VerifySignature, Fault
            <4>3. CASE ~MustVerify(p) /\ faults' = faults + 1
                <5>1. faults' > 0
                    BY <4>3, <1>f
                <5>2. ~MustVerify(p)' /\ target'[p] = target[p]
                    BY <4>1, <4>3 DEF MustVerify, SigningRequired, args
                <5>3. Trusted(p)'
                    BY <5>1, <5>2 DEF Trusted
                <5>4. pc'[p] = "swap"
                    BY <4>1, <1>t DEF Goto, TypeOK
                <5> QED  BY <1>2, <5>3, <5>4
            <4>4. pc'[p] = "swap"
                BY <4>1, <1>t DEF Goto, TypeOK
            <4> QED  BY <1>2, <1>k, <4>1, <4>2, <4>3, <4>4 DEF args
        <3>3. CASE Swap(p) \/ MoveAside(p) \/ MoveIn(p) \/ pc'[p] = pc[p]
            <4>1. Trusted(p)
                <5>1. pc[p] \in {"swap", "aside", "done"}
                    BY <2>2, <3>3 DEF Swap, MoveAside, MoveIn
                <5> QED  BY <5>1 DEF OverlapInv, CheckedBefore
            <4>2. pc'[p] = "aside" => machine.windows
                BY <3>0, <3>3, <1>t DEF Swap, MoveAside, MoveIn, Goto, TypeOK, OverlapInv
            <4> QED  BY <1>2, <1>a, <1>k, <1>m, <2>2, <4>1, <4>2
        <3> QED  BY <3>1, <3>2, <3>3
    <2> QED  BY <2>1, <2>2
<1> QED  BY <1>1, <1>2

LEMMA AlwaysOverlap == Spec => []OverlapInv
<1>1. OverlapInv /\ [Next]_vars => OverlapInv'
    <2> SUFFICES ASSUME OverlapInv, [Next]_vars PROVE OverlapInv'
        OBVIOUS
    <2>1. CASE UNCHANGED vars
        BY <2>1 DEF vars, files, args, OverlapInv, TypeOK, ExeStays, CheckedBefore, Trusted, MustVerify
    <2>2. CASE Next
        <3>1. PICK p \in Proc : Step(p) \/ Kill(p)
            BY <2>2 DEF Next
        <3>2. TypeOK'
            BY <3>1, TypeStep DEF OverlapInv
        <3> QED  BY <3>1, <3>2, ExeStep, CheckedStep DEF OverlapInv, CheckedBefore
    <2> QED  BY <2>1, <2>2
<1> QED  BY InitOverlap, <1>1, PTL DEF Spec

\* Every variable keeps its type, in particular no two names stand for one file
\* and only a download has one open; and there is always an inode for a new file.
THEOREM TypeCorrect == Spec => []TypeOK
<1>1. OverlapInv => TypeOK
    BY DEF OverlapInv
<1> QED  BY AlwaysOverlap, <1>1, PTL

(***************************************************************************)
(* However many upgrades run at once, fail or are killed: elsewhere than   *)
(* on Windows there is a file under the binary's name at every moment, so  *)
(* `plivo` can always be started or installed over.                        *)
(***************************************************************************)
THEOREM NeverMissing == Spec => []ExeStays
<1>1. OverlapInv => ExeStays
    BY DEF OverlapInv
<1> QED  BY AlwaysOverlap, <1>1, PTL

(***************************************************************************)
(* However many upgrades run at once: one that renames, or says it is      *)
(* done, has had its own release's signature accepted, or not required;    *)
(* what another did to the shared file does not get it past this check.    *)
(***************************************************************************)
THEOREM ChecksAreOwn == Spec => []CheckedBefore
<1>1. OverlapInv => CheckedBefore
    BY DEF OverlapInv
<1> QED  BY AlwaysOverlap, <1>1, PTL

-----------------------------------------------------------------------------
(* What an upgrade says at its end *)

\* A step of one upgrade is the end of no other.
LEMMA EndsItself ==
    ASSUME UpgradeInv, NEW p \in Proc, Step(p) \/ Kill(p), NEW q \in Proc, pc'[q] # pc[q]
    PROVE  q = p
BY DEF UpgradeInv, TypeOK, Step, Start, Open, OpenFails, Download, DownloadFails, Downloaded,
       CheckSums, CheckSignature, Swap, MoveAside, MoveIn, Kill, GiveUp, Goto

LEMMA DoneStep ==
    ASSUME UpgradeInv, NEW p \in Proc, Step(p) \/ Kill(p), pc[p] # "done", pc'[p] = "done"
    PROVE  Holds("exe", target[p])' /\ Trusted(p)
<1>t. TypeOK
    BY DEF UpgradeInv
<1>1. \/ Swap(p) /\ Rename("tmp", "exe") /\ data' = Reclaim(data)
      \/ MoveIn(p) /\ Rename("tmp", "exe")
    BY <1>t DEF TypeOK, Step, Start, Open, OpenFails, Download, DownloadFails, Downloaded,
        CheckSums, CheckSignature, Swap, MoveAside, MoveIn, Kill, GiveUp, Goto
<1>2. /\ Holds("tmp", target[p]) /\ Trusted(p) /\ target'[p] = target[p]
      /\ data' = Reclaim(data) /\ Rename("tmp", "exe")
    BY <1>1 DEF UpgradeInv, VerifiedKept, Swap, MoveIn, args
<1>3. name'["exe"] = name["tmp"] /\ "exe" \in Name /\ "tmp" \in Name
    BY <1>2, <1>t DEF Rename, TypeOK, Name
<1> QED  BY <1>2, <1>3, <1>t, HoldsKept DEF Holds

(***************************************************************************)
(* With one upgrade at a time, one that says it is done has installed its  *)
(* release, whole and checked: nothing that fails on the way is skipped.   *)
(***************************************************************************)
THEOREM DoneInstalled ==
    ASSUME Overlap = FALSE PROVE Spec => DoneIsInstalled
<1>1. ASSUME UpgradeInv, [Next]_vars
      PROVE  [\A p \in Proc : pc[p] # "done" /\ pc'[p] = "done" =>
                Holds("exe", target[p])' /\ Trusted(p)]_vars
    <2>1. CASE Next
        <3>1. PICK p \in Proc : Step(p) \/ Kill(p)
            BY <2>1 DEF Next
        <3>2. ASSUME NEW q \in Proc, pc[q] # "done", pc'[q] = "done"
              PROVE  Holds("exe", target[q])' /\ Trusted(q)
            BY <3>1, <3>2, <1>1, EndsItself, DoneStep
        <3> QED  BY <3>2
    <2> QED  BY <2>1, <1>1
<1> QED  BY AlwaysInv, <1>1, PTL DEF Spec, DoneIsInstalled

LEMMA FailedStep ==
    ASSUME UpgradeInv, NEW p \in Proc, Step(p) \/ Kill(p), pc[p] # "failed", pc'[p] = "failed"
    PROVE  \/ Holds("exe", current[p])'
           \/ faults' = faults + 2 /\ Holds("old", current[p])'
<1>t. TypeOK
    BY DEF UpgradeInv
<1>1. \/ OpenFails(p)
      \/ GiveUp(p) /\ Working(p) /\ pc[p] # "aside" /\ UNCHANGED args
      \/ MoveIn(p) /\ Revert
      \/ MoveIn(p) /\ faults' = faults + 2 /\ Remove("tmp")
    BY <1>t DEF TypeOK, Step, Start, Open, OpenFails, Download, DownloadFails, Downloaded,
        CheckSums, CheckSignature, Swap, MoveAside, MoveIn, Kill, Goto, Working
<1>2. CASE GiveUp(p) /\ Working(p) /\ pc[p] # "aside" /\ UNCHANGED args
    BY <1>2, GiveUpInv
<1>3. CASE MoveIn(p) /\ (Revert \/ (faults' = faults + 2 /\ Remove("tmp")))
    <2>1. Holds("old", current[p]) /\ current'[p] = current[p] /\ data' = Reclaim(data)
        BY <1>3 DEF UpgradeInv, CurrentKept, Working, MoveIn, args
    <2>2. (Revert /\ name'["exe"] = name["old"]) \/ (faults' = faults + 2 /\ name'["old"] = name["old"])
        BY <1>3, <1>t DEF Revert, Remove, TypeOK, Name
    <2>3. "exe" \in Name /\ "old" \in Name
        BY DEF Name
    <2> QED  BY <2>1, <2>2, <2>3, <1>t, HoldsKept DEF Holds
<1>4. CASE OpenFails(p)
    <2>1. Holds("exe", current[p])
        BY <1>4 DEF UpgradeInv, CurrentKept, Working, OpenFails
    <2> QED  BY <1>4, <2>1 DEF OpenFails, Holds, files, args
<1> QED  BY <1>1, <1>2, <1>3, <1>4

(***************************************************************************)
(* With one upgrade at a time, one that fails leaves the binary it was     *)
(* started from, in its place or, when neither rename works, aside.        *)
(***************************************************************************)
THEOREM FailedUnchanged ==
    ASSUME Overlap = FALSE PROVE Spec => FailedIsUnchanged
<1>1. ASSUME UpgradeInv, [Next]_vars
      PROVE  [\A p \in Proc : pc[p] # "failed" /\ pc'[p] = "failed" =>
                \/ Holds("exe", current[p])'
                \/ faults' = faults + 2 /\ Holds("old", current[p])']_vars
    <2>1. CASE Next
        <3>1. PICK p \in Proc : Step(p) \/ Kill(p)
            BY <2>1 DEF Next
        <3>2. ASSUME NEW q \in Proc, pc[q] # "failed", pc'[q] = "failed"
              PROVE  \/ Holds("exe", current[q])'
                     \/ faults' = faults + 2 /\ Holds("old", current[q])'
            BY <3>1, <3>2, <1>1, EndsItself, FailedStep
        <3> QED  BY <3>2
    <2> QED  BY <2>1, <1>1
<1> QED  BY AlwaysInv, <1>1, PTL DEF Spec, FailedIsUnchanged

\* With one upgrade at a time, what an upgrade says at its end is true.
THEOREM VerdictTrue ==
    ASSUME Overlap = FALSE PROVE Spec => VerdictIsTrue
BY DoneInstalled, FailedUnchanged DEF VerdictIsTrue
=============================================================================
