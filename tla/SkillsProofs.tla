---------------------------- MODULE SkillsProofs -----------------------------
(***************************************************************************)
(* No edit of a skill is lost but to its owner, to --force or to a run     *)
(* that had looked already: for any runs, folders, skills and links.       *)
(***************************************************************************)
EXTENDS Skills, TLAPS

\* An edit on the disk is one somebody saved.
Known == {"absent", "partial", "shipped", "bundled"} \cup saved

DiskType ==
    /\ file \in [File -> Known]
    /\ retired \in [File -> Seq(Known)]
    /\ pc \in [Run -> {"start", "copy", "write", "fill", "retire", "rename", "done"}]
    /\ DOMAIN todo = Run /\ DOMAIN name = Run
    /\ saved \subseteq Edit

\* Edits that must not be lost.
Kept == saved \ excused

\* What a run is about to overwrite is not among them ...
WriteSafe ==
    \A p \in Run : pc[p] \in {"write", "fill"} /\ Target(p) \in File =>
        file[Target(p)] \notin Kept \/ (pc[p] = "write" /\ job[p].force)

\* ... nor is what has the name it has chosen for a retired copy.
RenameSafe ==
    \A p \in Run : pc[p] = "rename" /\ Target(p) \in File =>
        /\ name[p] \in 1 .. Len(retired[Target(p)]) + 1
        /\ name[p] <= Len(retired[Target(p)]) => retired[Target(p)][name[p]] \notin Kept

EditInv == DiskType /\ WriteSafe /\ RenameSafe /\ EditsSurvive

-----------------------------------------------------------------------------
(* Frames of a step. *)

\* p alone goes on; what it was to do it may have done.
OnlyOf(p) ==
    \A q \in Run \ {p} : pc'[q] = pc[q] /\ todo'[q] = todo[q] /\ name'[q] = name[q]

LEMMA OthersKeepTarget ==
    ASSUME NEW p, OnlyOf(p), link' = link, NEW q \in Run \ {p}
    PROVE  Target(q)' = Target(q)
BY DEF OnlyOf, Target, Item

LEMMA EditsAreEdits ==
    ASSUME SkillsAssumption
    PROVE  \A e \in Edit : e \notin {"absent", "partial", "shipped", "bundled"}
BY DEF SkillsAssumption

LEMMA KeptInEdit ==
    ASSUME DiskType
    PROVE  Kept \subseteq Edit
BY DEF DiskType, Kept

\* Where Proceed leads to.
LEMMA ProceedType ==
    ASSUME DiskType, NEW p \in Run, NEW rest, Proceed(p, rest)
    PROVE  /\ pc' \in [Run -> {"start", "copy", "write", "fill", "retire", "rename", "done"}]
           /\ pc'[p] \in {"copy", "retire", "done"}
           /\ DOMAIN todo' = Run
           /\ \A q \in Run \ {p} : pc'[q] = pc[q] /\ todo'[q] = todo[q]
BY DEF DiskType, Proceed, Goto

LEMMA GotoType ==
    ASSUME DiskType, NEW p \in Run, NEW where \in {"write", "fill", "rename"},
           Goto(p, where), UNCHANGED todo
    PROVE  /\ pc' \in [Run -> {"start", "copy", "write", "fill", "retire", "rename", "done"}]
           /\ pc'[p] = where
           /\ DOMAIN todo' = Run
           /\ Target(p)' = link'[Item(p).path]
           /\ \A q \in Run \ {p} : pc'[q] = pc[q] /\ todo'[q] = todo[q]
BY DEF DiskType, Goto, Target, Item

-----------------------------------------------------------------------------
(* A step of a run that changes no file.                                    *)

LEMMA QuietStep ==
    ASSUME EditInv, NEW p \in Run, UNCHANGED <<disk, job, saved>>, excused \subseteq excused',
           OnlyOf(p),
           pc' \in [Run -> {"start", "copy", "write", "fill", "retire", "rename", "done"}],
           DOMAIN todo' = Run, DOMAIN name' = Run,
           pc'[p] = "write" /\ Target(p)' \in File =>
               file[Target(p)'] \notin Kept \/ job[p].force,
           pc'[p] # "fill",
           pc'[p] = "rename" /\ Target(p)' \in File =>
               name'[p] = Len(retired[Target(p)']) + 1
    PROVE  EditInv'
<1>d. DiskType' /\ EditsSurvive' /\ Kept' \subseteq Kept
    BY DEF EditInv, DiskType, Known, EditsSurvive, OnDisk, Kept, disk
<1>o. ASSUME NEW q \in Run \ {p}
      PROVE  Target(q)' = Target(q) /\ pc'[q] = pc[q] /\ name'[q] = name[q]
    BY OthersKeepTarget DEF OnlyOf, disk
<1>1. WriteSafe'
    <2>. SUFFICES ASSUME NEW q \in Run, (pc[q] \in {"write", "fill"} /\ Target(q) \in File)'
                  PROVE  (file[Target(q)] \notin Kept \/ (pc[q] = "write" /\ job[q].force))'
        BY DEF WriteSafe
    <2>1. CASE q = p
        BY <1>d, <2>1 DEF disk
    <2>2. CASE q # p
        BY <1>d, <1>o, <2>2 DEF EditInv, WriteSafe, disk
    <2>. QED
        BY <2>1, <2>2
<1>2. RenameSafe'
    <2>. SUFFICES ASSUME NEW q \in Run, (pc[q] = "rename" /\ Target(q) \in File)'
                  PROVE  (/\ name[q] \in 1 .. Len(retired[Target(q)]) + 1
                          /\ name[q] <= Len(retired[Target(q)]) =>
                                 retired[Target(q)][name[q]] \notin Kept)'
        BY DEF RenameSafe
    <2>1. CASE q = p
        <3>1. retired[Target(p)'] \in Seq(Known) /\ retired' = retired
            BY <2>1 DEF EditInv, DiskType, disk
        <3>2. Len(retired[Target(p)']) \in Nat
            BY <3>1
        <3>. QED
            BY <2>1, <3>1, <3>2
    <2>2. CASE q # p
        BY <1>d, <1>o, <2>2 DEF EditInv, RenameSafe, disk
    <2>. QED
        BY <2>1, <2>2
<1>. QED
    BY <1>d, <1>1, <1>2 DEF EditInv

LEMMA NoEditToWrite ==
    ASSUME DiskType, SkillsAssumption, NEW f, ~Edited(file[f]) \/ file[f] = "absent"
    PROVE  file[f] \notin Kept
BY EditsAreEdits, KeptInEdit DEF Edited

LEMMA QuietActions ==
    ASSUME EditInv, SkillsAssumption, NEW p \in Run,
           \/ Start(p) \/ LookInstall(p) \/ LookUpdate(p) \/ WriteFails(p) \/ ChooseName(p)
           \/ RenameFails(p) \/ Kill(p)
    PROVE  EditInv'
<1>i. DiskType
    BY DEF EditInv
<1>p. ASSUME UNCHANGED <<disk, job, saved, excused, name>>, NEW rest, Proceed(p, rest)
      PROVE  EditInv'
    BY <1>p, <1>i, ProceedType, QuietStep DEF OnlyOf, DiskType
<1>w. ASSUME UNCHANGED <<disk, job, saved, excused, name, todo>>, Goto(p, "write"),
             file[Target(p)] \notin Kept \/ job[p].force
      PROVE  EditInv'
    <2>1. /\ pc' \in [Run -> {"start", "copy", "write", "fill", "retire", "rename", "done"}]
          /\ pc'[p] = "write" /\ DOMAIN todo' = Run /\ OnlyOf(p) /\ DOMAIN name' = Run
        BY <1>w, <1>i, GotoType DEF OnlyOf, DiskType
    <2>2. Target(p)' = Target(p)
        BY <1>w DEF Target, Item, disk
    <2>. QED
        BY <1>w, <2>1, <2>2, QuietStep
<1>1. CASE Start(p)
    <2>1. \E rest : Proceed(p, rest)
        BY <1>1 DEF Start, ghost
    <2>. QED
        BY <1>1, <1>p, <2>1 DEF Start, ghost
<1>2. CASE LookInstall(p)
    <2>1. UNCHANGED <<disk, job, saved, excused, name>>
        BY <1>2 DEF LookInstall, ghost
    <2>2. \/ \E rest : Proceed(p, rest)
          \/ /\ Goto(p, "write") /\ UNCHANGED todo
             /\ job[p].force \/ ~Edited(file[Target(p)]) \/ file[Target(p)] = "absent"
        BY <1>2 DEF LookInstall, Installed, ghost
    <2>. QED
        BY <1>p, <1>w, <1>i, <2>1, <2>2, NoEditToWrite
<1>3. CASE LookUpdate(p)
    <2>1. UNCHANGED <<disk, job, saved, excused, name>>
        BY <1>3 DEF LookUpdate, ghost
    <2>2. \/ \E rest : Proceed(p, rest)
          \/ /\ Goto(p, "write") /\ UNCHANGED todo
             /\ job[p].force \/ ~Edited(file[Target(p)])
        BY <1>3 DEF LookUpdate, ghost
    <2>. QED
        BY <1>p, <1>w, <1>i, <2>1, <2>2, NoEditToWrite
<1>4. CASE WriteFails(p) \/ RenameFails(p) \/ Kill(p)
    <2>1. UNCHANGED <<disk, job, saved, excused, name>> /\ \E rest : Proceed(p, rest)
        BY <1>4 DEF WriteFails, RenameFails, Kill, ghost
    <2>. QED
        BY <1>p, <2>1
<1>5. CASE ChooseName(p)
    <2>1. UNCHANGED <<disk, job, saved, excused>>
        BY <1>5 DEF ChooseName, ghost
    <2>2. CASE UNCHANGED name /\ \E rest : Proceed(p, rest)
        BY <1>p, <2>1, <2>2
    <2>3. CASE /\ name' = [name EXCEPT ![p] = Len(retired[Target(p)]) + 1]
               /\ Goto(p, "rename") /\ UNCHANGED todo
        <3>1. /\ pc' \in [Run -> {"start", "copy", "write", "fill", "retire", "rename", "done"}]
              /\ pc'[p] = "rename" /\ DOMAIN todo' = Run
              /\ \A q \in Run \ {p} : pc'[q] = pc[q] /\ todo'[q] = todo[q]
            BY <2>3, <1>i, GotoType
        <3>2. Target(p)' = Target(p)
            BY <2>1, <2>3 DEF Target, Item, disk
        <3>3. /\ DOMAIN name' = Run
              /\ name'[p] = Len(retired[Target(p)]) + 1
              /\ \A q \in Run \ {p} : name'[q] = name[q]
            BY <2>3, <1>i DEF DiskType
        <3>. QED
            BY <2>1, <3>1, <3>2, <3>3, QuietStep DEF OnlyOf
    <2>. QED
        BY <1>5, <2>2, <2>3 DEF ChooseName, ghost
<1>. QED
    BY <1>1, <1>2, <1>3, <1>4, <1>5

-----------------------------------------------------------------------------
(* The steps that write.  An edit on another file is where it was.          *)

LEMMA OverwriteStep ==
    ASSUME EditInv, SkillsAssumption, NEW p \in Run, NEW c \in {"partial", "bundled"},
           file' = [file EXCEPT ![Target(p)] = c],
           UNCHANGED <<link, retired, job, name, saved>>, excused \subseteq excused',
           Target(p) \in File => file[Target(p)] \notin Kept',
           OnlyOf(p), DOMAIN todo' = Run,
           pc' \in [Run -> {"start", "copy", "write", "fill", "retire", "rename", "done"}],
           pc'[p] \notin {"write", "rename"}, pc'[p] = "fill" => todo'[p] = todo[p]
    PROVE  EditInv'
<1>i. DiskType /\ WriteSafe /\ RenameSafe /\ EditsSurvive
    BY DEF EditInv
<1>k. Kept' \subseteq Kept /\ Kept' \subseteq Edit
    BY <1>i DEF Kept, DiskType
<1>c. c \notin Kept'
    BY <1>k, EditsAreEdits
<1>o. ASSUME NEW q \in Run \ {p}
      PROVE  Target(q)' = Target(q) /\ pc'[q] = pc[q] /\ name'[q] = name[q]
    BY OthersKeepTarget DEF OnlyOf
<1>f. \A f \in File : file'[f] = c \/ file'[f] = file[f]
    BY <1>i DEF DiskType
<1>1. DiskType'
    BY <1>i DEF DiskType, Known
<1>2. EditsSurvive'
    <2>. SUFFICES ASSUME NEW e \in Kept' PROVE OnDisk(e)'
        BY DEF EditsSurvive, Kept
    <2>1. OnDisk(e)
        BY <1>i, <1>k DEF EditsSurvive, Kept
    <2>2. ASSUME NEW f \in File, file[f] = e PROVE file'[f] = e
        BY <2>2, <1>i DEF DiskType
    <2>. QED
        BY <2>1, <2>2 DEF OnDisk
<1>3. WriteSafe'
    <2>. SUFFICES ASSUME NEW q \in Run, (pc[q] \in {"write", "fill"} /\ Target(q) \in File)'
                  PROVE  (file[Target(q)] \notin Kept \/ (pc[q] = "write" /\ job[q].force))'
        BY DEF WriteSafe
    <2>1. CASE q = p
        <3>1. Target(p)' = Target(p)
            BY <2>1 DEF Target, Item
        <3>. QED
            BY <1>i, <1>c, <2>1, <3>1 DEF DiskType
    <2>2. CASE q # p
        <3>1. /\ Target(q)' = Target(q) /\ Target(q) \in File
              /\ pc'[q] = pc[q] /\ pc[q] \in {"write", "fill"}
            BY <1>o, <2>2
        <3>2. file[Target(q)] \notin Kept \/ (pc[q] = "write" /\ job[q].force)
            BY <1>i, <3>1 DEF WriteSafe
        <3>3. file'[Target(q)] = c \/ file'[Target(q)] = file[Target(q)]
            BY <1>f, <3>1
        <3>. QED
            BY <1>c, <1>k, <3>1, <3>2, <3>3
    <2>. QED
        BY <2>1, <2>2
<1>4. RenameSafe'
    <2>. SUFFICES ASSUME NEW q \in Run, (pc[q] = "rename" /\ Target(q) \in File)'
                  PROVE  (/\ name[q] \in 1 .. Len(retired[Target(q)]) + 1
                          /\ name[q] <= Len(retired[Target(q)]) =>
                                 retired[Target(q)][name[q]] \notin Kept)'
        BY DEF RenameSafe
    <2>1. q # p
        OBVIOUS
    <2>2. Target(q)' = Target(q) /\ pc[q] = "rename"
        BY <1>o, <2>1
    <2>. QED
        BY <1>i, <1>k, <2>2 DEF RenameSafe
<1>. QED
    BY <1>1, <1>2, <1>3, <1>4 DEF EditInv

LEMMA TruncateStep ==
    ASSUME EditInv, SkillsAssumption, NEW p \in Run, Truncate(p)
    PROVE  EditInv'
<1>i. DiskType /\ WriteSafe
    BY DEF EditInv
<1>1. /\ UNCHANGED <<link, retired, job, todo, name, saved>> /\ excused \subseteq excused'
      /\ file' = [file EXCEPT ![Target(p)] = "partial"]
      /\ pc[p] = "write" /\ Goto(p, "fill")
    BY DEF Truncate
<1>2. ASSUME Target(p) \in File PROVE file[Target(p)] \notin Kept'
    <2>1. CASE job[p].force
        BY <2>1, <1>i DEF Truncate, Kept, DiskType
    <2>2. CASE ~job[p].force
        BY <2>2, <1>i, <1>1, <1>2 DEF WriteSafe, Kept
    <2>. QED
        BY <2>1, <2>2
<1>3. /\ pc' \in [Run -> {"start", "copy", "write", "fill", "retire", "rename", "done"}]
      /\ pc'[p] = "fill" /\ DOMAIN todo' = Run /\ OnlyOf(p)
    BY <1>i, <1>1, GotoType DEF OnlyOf
<1>. QED
    BY <1>1, <1>2, <1>3, OverwriteStep

LEMMA FillStep ==
    ASSUME EditInv, SkillsAssumption, NEW p \in Run, Fill(p)
    PROVE  EditInv'
<1>i. DiskType /\ WriteSafe
    BY DEF EditInv
<1>1. /\ UNCHANGED <<link, retired, job, name, saved, excused>>
      /\ file' = [file EXCEPT ![Target(p)] = "bundled"]
      /\ pc[p] = "fill" /\ \E rest : Proceed(p, rest)
    BY DEF Fill, Installed, ghost
<1>2. ASSUME Target(p) \in File PROVE file[Target(p)] \notin Kept'
    BY <1>i, <1>1, <1>2 DEF WriteSafe, Kept
<1>3. /\ pc' \in [Run -> {"start", "copy", "write", "fill", "retire", "rename", "done"}]
      /\ pc'[p] \in {"copy", "retire", "done"} /\ DOMAIN todo' = Run /\ OnlyOf(p)
    BY <1>i, <1>1, ProceedType DEF OnlyOf
<1>. QED
    BY <1>1, <1>2, <1>3, OverwriteStep

(* A renamed copy is under its new name, and what it replaces there is no    *)
(* edit.  A run that chose the same name sees the edit excused.              *)
LEMMA RenameStep ==
    ASSUME EditInv, SkillsAssumption, NEW p \in Run, Rename(p)
    PROVE  EditInv'
<1>i. DiskType /\ WriteSafe /\ RenameSafe /\ EditsSurvive
    BY DEF EditInv
<1>p. /\ pc[p] = "rename" /\ Proceed(p, Tail(todo[p])) /\ UNCHANGED <<link, job, name, saved>>
    BY DEF Rename
<1>t. /\ pc' \in [Run -> {"start", "copy", "write", "fill", "retire", "rename", "done"}]
      /\ pc'[p] \in {"copy", "retire", "done"} /\ DOMAIN todo' = Run /\ OnlyOf(p)
    BY <1>i, <1>p, ProceedType DEF OnlyOf
<1>e. excused \subseteq excused' /\ Kept' \subseteq Kept /\ Kept' \subseteq Edit
    <2>1. excused \subseteq excused'
        BY DEF Rename
    <2>. QED
        BY <1>i, <1>p, <2>1 DEF Kept, DiskType
<1>1. CASE file[Target(p)] = "absent" \/ Target(p) \notin File
    <2>1. UNCHANGED <<file, retired>>
        BY <1>1, <1>i DEF Rename, DiskType
    <2>. QED
        BY <2>1, <1>i, <1>p, <1>t, <1>e, QuietStep DEF disk, DiskType
<1>2. CASE file[Target(p)] # "absent" /\ Target(p) \in File
    <2>. DEFINE f == Target(p)
                n == name[p]
                r == retired[f]
                s == retired'[f]
    <2>1. /\ file' = [file EXCEPT ![f] = "absent"]
          /\ retired' = [retired EXCEPT ![f] = IF n <= Len(@) THEN [@ EXCEPT ![n] = file[f]]
                                              ELSE Append(@, file[f])]
        BY <1>2 DEF Rename
    <2>2. \A q \in Run \ {p} :
              pc[q] = "rename" /\ Target(q) = f /\ name[q] = n => file[f] \notin Kept'
        BY <1>2, <1>e DEF Rename, Kept
    <2>3. /\ r \in Seq(Known) /\ Len(r) \in Nat /\ n \in 1 .. Len(r) + 1
          /\ n <= Len(r) => r[n] \notin Kept
          /\ file[f] \in Known
        BY <1>i, <1>p, <1>2 DEF DiskType, RenameSafe
    <2>4. s = IF n <= Len(r) THEN [r EXCEPT ![n] = file[f]] ELSE Append(r, file[f])
        BY <1>i, <1>2, <2>1 DEF DiskType
    <2>5. /\ s \in Seq(Known) /\ Len(s) = (IF n <= Len(r) THEN Len(r) ELSE n)
          /\ s[n] = file[f] /\ \A i \in 1 .. Len(r) : i # n => s[i] = r[i]
        <3>1. CASE n <= Len(r)
            BY <2>3, <2>4, <3>1
        <3>2. CASE n > Len(r)
            <4>1. n = Len(r) + 1 /\ s = Append(r, file[f])
                BY <2>3, <2>4, <3>2
            <4>. QED
                BY <2>3, <3>2, <4>1
        <3>. QED
            BY <2>3, <3>1, <3>2
    <2>6. \A g \in File \ {f} : file'[g] = file[g] /\ retired'[g] = retired[g]
        BY <1>i, <2>1 DEF DiskType
    <2>. HIDE DEF f, n, r, s
    <2>7. DiskType'
        <3>1. Known' = Known
            BY <1>p DEF Known
        <3>2. file' \in [File -> Known]
            BY <1>i, <2>1 DEF DiskType, Known
        <3>3. retired' \in [File -> Seq(Known)]
            <4>1. \A g \in File : retired'[g] \in Seq(Known)
                BY <1>i, <2>5, <2>6 DEF DiskType, s
            <4>2. retired' = [g \in File |-> retired'[g]]
                BY <1>i, <2>1 DEF DiskType
            <4>. QED
                BY <4>1, <4>2
        <3>. QED
            BY <1>i, <1>p, <1>t, <3>1, <3>2, <3>3 DEF DiskType
    <2>8. EditsSurvive'
        <3>. SUFFICES ASSUME NEW e \in Kept' PROVE OnDisk(e)'
            BY DEF EditsSurvive, Kept
        <3>f. f \in File
            BY <1>2 DEF f
        <3>1. e \in Kept /\ OnDisk(e)
            BY <1>i, <1>e DEF EditsSurvive, Kept
        <3>2. CASE \E g \in File : file[g] = e
            <4>1. PICK g \in File : file[g] = e
                BY <3>2
            <4>2. CASE g = f
                <5>1. n \in DOMAIN s
                    BY <2>3, <2>5
                <5>2. e \in ToSet(s)
                    BY <4>1, <4>2, <2>5, <5>1 DEF ToSet
                <5>. QED
                    BY <3>f, <5>2 DEF OnDisk, s
            <4>. QED
                BY <4>1, <4>2, <2>6 DEF OnDisk
        <3>3. CASE \E g \in File : e \in ToSet(retired[g])
            <4>1. PICK g \in File : e \in ToSet(retired[g])
                BY <3>3
            <4>2. CASE g = f
                <5>1. PICK i \in 1 .. Len(r) : r[i] = e
                    BY <2>3, <4>1, <4>2 DEF ToSet, r
                <5>2. i # n
                    BY <2>3, <3>1, <5>1
                <5>3. s[i] = e /\ i \in DOMAIN s
                    BY <2>3, <2>5, <5>1, <5>2
                <5>4. e \in ToSet(s)
                    BY <5>3 DEF ToSet
                <5>. QED
                    BY <3>f, <5>4 DEF OnDisk, s
            <4>. QED
                BY <4>1, <4>2, <2>6 DEF OnDisk
        <3>. QED
            BY <3>1, <3>2, <3>3 DEF OnDisk
    <2>o. ASSUME NEW q \in Run \ {p}
          PROVE  Target(q)' = Target(q) /\ pc'[q] = pc[q] /\ name'[q] = name[q]
        BY <1>p, <1>t, OthersKeepTarget DEF OnlyOf
    <2>9. WriteSafe'
        <3>. SUFFICES ASSUME NEW q \in Run, (pc[q] \in {"write", "fill"} /\ Target(q) \in File)'
                      PROVE  (file[Target(q)] \notin Kept \/ (pc[q] = "write" /\ job[q].force))'
            BY DEF WriteSafe
        <3>1. q # p
            BY <1>t
        <3>2. file'[Target(q)] \in {"absent", file[Target(q)]}
            BY <1>i, <2>1, <2>o, <3>1 DEF DiskType
        <3>3. "absent" \notin Kept'
            BY <1>e, EditsAreEdits
        <3>. QED
            BY <1>i, <1>e, <1>p, <2>o, <3>1, <3>2, <3>3 DEF WriteSafe
    <2>10. RenameSafe'
        <3>. SUFFICES ASSUME NEW q \in Run, (pc[q] = "rename" /\ Target(q) \in File)'
                      PROVE  (/\ name[q] \in 1 .. Len(retired[Target(q)]) + 1
                              /\ name[q] <= Len(retired[Target(q)]) =>
                                     retired[Target(q)][name[q]] \notin Kept)'
            BY DEF RenameSafe
        <3>1. q # p
            BY <1>t
        <3>2. /\ Target(q)' = Target(q) /\ pc[q] = "rename" /\ name'[q] = name[q]
              /\ Target(q) \in File
            BY <2>o, <3>1
        <3>3. /\ name[q] \in 1 .. Len(retired[Target(q)]) + 1
              /\ name[q] <= Len(retired[Target(q)]) => retired[Target(q)][name[q]] \notin Kept
            BY <1>i, <3>2 DEF RenameSafe
        <3>4. CASE Target(q) # f
            BY <1>e, <2>6, <3>2, <3>3, <3>4
        <3>5. CASE Target(q) = f
            <4>1. /\ name[q] \in 1 .. Len(r) + 1
                  /\ name[q] <= Len(r) => r[name[q]] \notin Kept
                BY <3>3, <3>5 DEF r
            <4>2. name[q] \in 1 .. Len(s) + 1
                BY <2>3, <2>5, <4>1
            <4>3. ASSUME name[q] <= Len(s) PROVE s[name[q]] \notin Kept'
                <5>1. CASE name[q] = n
                    BY <2>2, <2>5, <3>1, <3>2, <3>5, <5>1
                <5>2. CASE name[q] # n
                    <6>1. name[q] \in 1 .. Len(r)
                        BY <2>3, <2>5, <4>1, <4>3, <5>2
                    <6>. QED
                        BY <1>e, <2>5, <4>1, <5>2, <6>1
                <5>. QED
                    BY <5>1, <5>2
            <4>. QED
                BY <3>2, <3>5, <4>2, <4>3 DEF s
        <3>. QED
            BY <3>4, <3>5
    <2>. QED
        BY <2>7, <2>8, <2>9, <2>10 DEF EditInv
<1>. QED
    BY <1>1, <1>2

-----------------------------------------------------------------------------
(* The steps of everyone else. *)

LEMMA OldInstallStep ==
    ASSUME EditInv, SkillsAssumption, NEW d \in OldSkill, OldInstall(d)
    PROVE  EditInv'
<1>i. DiskType /\ WriteSafe /\ RenameSafe /\ EditsSurvive
    BY DEF EditInv
<1>1. /\ UNCHANGED <<link, retired, job, pc, todo, name, saved, excused>>
      /\ \E g : file[g] = "absent" /\ file' = [file EXCEPT ![g] = "shipped"]
    BY DEF OldInstall
<1>2. PICK g : file[g] = "absent" /\ file' = [file EXCEPT ![g] = "shipped"]
    BY <1>1
<1>k. Kept' = Kept /\ Kept \subseteq Edit /\ "shipped" \notin Kept /\ "absent" \notin Kept
    BY <1>i, <1>1, EditsAreEdits DEF Kept, DiskType
<1>t. \A q \in Run : Target(q)' = Target(q)
    BY <1>1 DEF Target, Item
<1>f. \A f \in File : file'[f] = file[f] \/ (file[f] = "absent" /\ file'[f] = "shipped")
    BY <1>i, <1>2 DEF DiskType
<1>3. DiskType'
    BY <1>i, <1>1, <1>2 DEF DiskType, Known
<1>4. EditsSurvive'
    BY <1>i, <1>1, <1>f, <1>k DEF EditsSurvive, OnDisk, Kept
<1>5. WriteSafe'
    BY <1>i, <1>1, <1>f, <1>k, <1>t DEF WriteSafe
<1>6. RenameSafe'
    BY <1>i, <1>1, <1>k, <1>t DEF RenameSafe
<1>. QED
    BY <1>3, <1>4, <1>5, <1>6 DEF EditInv

\* A version saved under a run past its look is excused at once.
LEMMA SaveStep ==
    ASSUME EditInv, SkillsAssumption, NEW f \in File, NEW e \in Edit, Save(f, e)
    PROVE  EditInv'
<1>i. DiskType /\ WriteSafe /\ RenameSafe /\ EditsSurvive
    BY DEF EditInv
<1>1. /\ UNCHANGED <<link, retired, job, pc, todo, name>>
      /\ e \notin saved /\ saved' = saved \cup {e}
      /\ file' = [file EXCEPT ![f] = e]
    BY DEF Save
<1>2. excused \subseteq excused' /\ (file[f] \in Edit => file[f] \in excused')
    BY DEF Save
<1>3. ASSUME NEW q \in Run, pc[q] \in {"write", "fill"}, Target(q) = f
      PROVE  e \in excused'
    BY <1>3 DEF Save
<1>k. Kept' \subseteq Kept \cup {e}
    BY <1>1, <1>2 DEF Kept
<1>n. e \notin Known
    BY <1>1, EditsAreEdits DEF Known
<1>t. \A q \in Run : Target(q)' = Target(q)
    BY <1>1 DEF Target, Item
<1>f. file'[f] = e /\ \A g \in File \ {f} : file'[g] = file[g]
    BY <1>i, <1>1 DEF DiskType
<1>4. DiskType'
    <2>1. Known' = Known \cup {e}
        BY <1>1 DEF Known
    <2>2. file' \in [File -> Known \cup {e}]
        BY <1>i, <1>1 DEF DiskType
    <2>3. retired \in [File -> Seq(Known \cup {e})]
        <3>1. \A g \in File : retired[g] \in Seq(Known \cup {e})
            BY <1>i DEF DiskType
        <3>. QED
            BY <1>i, <3>1 DEF DiskType
    <2>. QED
        BY <1>i, <1>1, <2>1, <2>2, <2>3 DEF DiskType
<1>5. EditsSurvive'
    <2>. SUFFICES ASSUME NEW x \in Kept' PROVE OnDisk(x)'
        BY DEF EditsSurvive, Kept
    <2>1. CASE x = e
        BY <1>f, <2>1 DEF OnDisk
    <2>2. CASE x # e
        <3>1. x \in Kept /\ x \in Edit /\ x \notin excused'
            BY <1>i, <1>k, <2>2 DEF Kept, DiskType
        <3>2. OnDisk(x)
            BY <1>i, <3>1 DEF EditsSurvive, Kept
        <3>3. \A g \in File : file[g] = x => file'[g] = x
            BY <1>2, <1>f, <3>1
        <3>. QED
            BY <1>1, <3>2, <3>3 DEF OnDisk
    <2>. QED
        BY <2>1, <2>2
<1>6. WriteSafe'
    <2>. SUFFICES ASSUME NEW q \in Run, (pc[q] \in {"write", "fill"} /\ Target(q) \in File)'
                  PROVE  (file[Target(q)] \notin Kept \/ (pc[q] = "write" /\ job[q].force))'
        BY DEF WriteSafe
    <2>1. CASE Target(q) = f
        BY <1>1, <1>3, <1>f, <1>t, <2>1 DEF Kept
    <2>2. CASE Target(q) # f
        <3>1. file'[Target(q)] = file[Target(q)] /\ file[Target(q)] \in Known
            BY <1>i, <1>f, <1>t, <2>2 DEF DiskType
        <3>. QED
            BY <1>i, <1>1, <1>k, <1>n, <1>t, <3>1 DEF WriteSafe
    <2>. QED
        BY <2>1, <2>2
<1>7. RenameSafe'
    <2>. SUFFICES ASSUME NEW q \in Run, (pc[q] = "rename" /\ Target(q) \in File)'
                  PROVE  (/\ name[q] \in 1 .. Len(retired[Target(q)]) + 1
                          /\ name[q] <= Len(retired[Target(q)]) =>
                                 retired[Target(q)][name[q]] \notin Kept)'
        BY DEF RenameSafe
    <2>1. /\ name[q] \in 1 .. Len(retired[Target(q)]) + 1
          /\ name[q] <= Len(retired[Target(q)]) => retired[Target(q)][name[q]] \notin Kept
        BY <1>i, <1>1, <1>t DEF RenameSafe
    <2>2. retired[Target(q)] \in Seq(Known)
        BY <1>i, <1>t DEF DiskType
    <2>3. ASSUME name[q] <= Len(retired[Target(q)])
          PROVE  retired[Target(q)][name[q]] \in Known
        <3>1. name[q] \in 1 .. Len(retired[Target(q)])
            BY <2>1, <2>2, <2>3
        <3>. QED
            BY <2>2, <3>1
    <2>. QED
        BY <1>1, <1>k, <1>n, <1>t, <2>1, <2>3
<1>. QED
    BY <1>4, <1>5, <1>6, <1>7 DEF EditInv

LEMMA EditAlways == Spec => []EditInv
<1>1. SkillsAssumption /\ Init => EditInv
    <2>. SUFFICES ASSUME SkillsAssumption, Init PROVE EditInv
        OBVIOUS
    <2>1. file \in [File -> Known] /\ retired \in [File -> Seq(Known)]
        BY DEF Init, SkillsAssumption, Known
    <2>. QED
        BY <2>1 DEF Init, EditInv, DiskType, WriteSafe, RenameSafe, EditsSurvive
<1>2. SkillsAssumption /\ EditInv /\ [Next]_vars => EditInv'
    <2>. SUFFICES ASSUME SkillsAssumption, EditInv, [Next]_vars PROVE EditInv'
        OBVIOUS
    <2>1. ASSUME NEW p \in Run, Step(p) PROVE EditInv'
        BY <2>1, QuietActions, TruncateStep, FillStep, RenameStep DEF Step
    <2>2. ASSUME NEW f \in File, NEW e \in Edit, Save(f, e) PROVE EditInv'
        BY <2>2, SaveStep
    <2>3. ASSUME NEW d \in OldSkill, OldInstall(d) PROVE EditInv'
        BY <2>3, OldInstallStep
    <2>4. CASE UNCHANGED vars
        <3>1. \A q \in Run : Target(q)' = Target(q)
            BY <2>4 DEF vars, Target, Item
        <3>. QED
            BY <2>4, <3>1 DEF vars, EditInv, DiskType, Known, WriteSafe, RenameSafe, EditsSurvive,
                              OnDisk, Kept
    <2>. QED
        BY <2>1, <2>2, <2>3, <2>4 DEF Next
<1>. QED
    BY <1>1, <1>2, SkillsAssumption, PTL DEF Spec

(* An edit somebody saved is found again, where it was or under a retired    *)
(* name, unless its owner wrote over it, --force was given, or it came when  *)
(* a run had looked already.                                                 *)
THEOREM EditsKept == Spec => []EditsSurvive
<1>1. EditInv => EditsSurvive
    BY DEF EditInv
<1>. QED
    BY <1>1, EditAlways, PTL

-----------------------------------------------------------------------------
(* What a run has still to do. *)

Copies  == {Copy(q[1], q[2]) : q \in Root \X ToSet(Skills)}
Retires == {Retire(q[1], q[2]) : q \in ToSet(Home) \X OldSkill}
Items   == Copies \cup Retires

LEMMA ItemType ==
    ASSUME NEW x \in Items
    PROVE  /\ x.retires \in BOOLEAN /\ x.path \in Path
           /\ ~x.retires => /\ x.path \in Root \X ToSet(Skills)
                            /\ x = Copy(x.path[1], x.path[2])
           /\ x.retires => /\ x.path \in ToSet(Home) \X OldSkill
                           /\ x = Retire(x.path[1], x.path[2])
<1>1. CASE x \in Copies
    <2>1. PICK q \in Root \X ToSet(Skills) : x = Copy(q[1], q[2])
        BY <1>1 DEF Copies
    <2>2. x.path = q /\ x.retires = FALSE
        BY <2>1 DEF Copy
    <2>. QED
        BY <2>1, <2>2 DEF Path
<1>2. CASE x \in Retires
    <2>1. PICK q \in ToSet(Home) \X OldSkill : x = Retire(q[1], q[2])
        BY <1>2 DEF Retires
    <2>2. x.path = q /\ x.retires = TRUE
        BY <2>1 DEF Retire
    <2>. QED
        BY <2>1, <2>2 DEF Path
<1>. QED
    BY <1>1, <1>2 DEF Items

LEMMA CopyIsItem ==
    ASSUME NEW r \in Root, NEW s \in ToSet(Skills)
    PROVE  Copy(r, s) \in Copies
<1>1. <<r, s>> \in Root \X ToSet(Skills) /\ <<r, s>>[1] = r /\ <<r, s>>[2] = s
    OBVIOUS
<1>. QED
    BY <1>1 DEF Copies

LEMMA RetireIsItem ==
    ASSUME NEW r \in ToSet(Home), NEW d \in OldSkill
    PROVE  Retire(r, d) \in Retires
<1>1. <<r, d>> \in ToSet(Home) \X OldSkill /\ <<r, d>>[1] = r /\ <<r, d>>[2] = d
    OBVIOUS
<1>. QED
    BY <1>1 DEF Retires

LEMMA JobType ==
    ASSUME SkillsAssumption, NEW j \in Jobs
    PROVE  /\ j.root \in Root /\ j.skills \in Seq(ToSet(Skills))
           /\ j.kind \in {"install", "update"}
           /\ j.dir \in BOOLEAN /\ j.force \in BOOLEAN /\ j.dry \in BOOLEAN
<1>1. j \in AllJobs
    BY DEF SkillsAssumption
<1>2. /\ j.root \in Root /\ j.skills \in {Skills} \cup {<<s>> : s \in ToSet(Skills)}
      /\ j.kind \in {"install", "update"}
      /\ j.dir \in BOOLEAN /\ j.force \in BOOLEAN /\ j.dry \in BOOLEAN
    BY <1>1 DEF AllJobs
<1>3. \A s \in ToSet(Skills) : <<s>> \in Seq(ToSet(Skills))
    OBVIOUS
<1>. QED
    BY <1>2, <1>3 DEF SkillsAssumption

\* The skills of a job, each in its folder.
LEMMA InstallsType ==
    ASSUME SkillsAssumption, NEW j \in Jobs
    PROVE  /\ Installs(j) \in Seq(Copies)
           /\ DOMAIN Installs(j) = DOMAIN j.skills
<1>1. j.skills \in Seq(ToSet(Skills)) /\ j.root \in Root
    BY JobType
<1>2. DOMAIN j.skills = 1 .. Len(j.skills) /\ Len(j.skills) \in Nat
    BY <1>1
<1>3. \A i \in 1 .. Len(j.skills) : Copy(j.root, j.skills[i]) \in Copies
    BY <1>1, CopyIsItem
<1>. QED
    BY <1>2, <1>3 DEF Installs

\* Row and column of a place in a table of a rows of b columns.
LEMMA TablePlace ==
    ASSUME NEW a \in Nat, NEW b \in Nat, NEW i \in 1 .. a * b
    PROVE  /\ ((i - 1) \div b) + 1 \in 1 .. a
           /\ ((i - 1) % b) + 1 \in 1 .. b
OBVIOUS

LEMMA UpdatesType ==
    ASSUME SkillsAssumption
    PROVE  Updates \in Seq(Copies)
<1>. DEFINE Roots == Home \o Repo
            n == Len(Skills)
            m == Len(Roots)
<1>1. Roots \in Seq(Root) /\ m \in Nat /\ n \in Nat
    <2>1. Home \in Seq(Root) /\ Repo \in Seq(Root)
        BY DEF SkillsAssumption, Root
    <2>. QED
        BY <2>1 DEF SkillsAssumption
<1>2. \A i \in 1 .. m : Roots[i] \in Root
    BY <1>1
<1>3. \A i \in 1 .. n : Skills[i] \in ToSet(Skills)
    BY DEF SkillsAssumption
<1>. DEFINE k == m * n
            At(i) == Copy(Roots[((i - 1) \div n) + 1], Skills[((i - 1) % n) + 1])
<1>4. k \in Nat /\ Updates = [i \in 1 .. k |-> At(i)]
    BY <1>1 DEF Updates
<1>. HIDE DEF Roots, m, n
<1>5. \A i \in 1 .. k : At(i) \in Copies
    <2>. TAKE i \in 1 .. k
    <2>1. ((i - 1) \div n) + 1 \in 1 .. m /\ ((i - 1) % n) + 1 \in 1 .. n
        BY <1>1, TablePlace
    <2>. QED
        BY <1>2, <1>3, <2>1, CopyIsItem
<1>. HIDE DEF k, At
<1>. QED
    BY <1>4, <1>5

-----------------------------------------------------------------------------
(* Types. *)

Places  == {"start", "copy", "write", "fill", "retire", "rename", "done"}
Results == {"none", "installed", "kept", "refused", "warned", "failed", "killed"}

DataType ==
    /\ link \in Links
    /\ file \in [File -> Contents]
    /\ retired \in [File -> Seq(Contents \ {"absent"})]
    /\ job \in [Run -> Jobs]
    /\ seen \in [Run -> SUBSET File] /\ again \in [Run -> SUBSET File]
    /\ result \in [Run -> Results]
    /\ saved \subseteq Edit /\ excused \subseteq saved

WorkType == pc \in [Run -> Places] /\ todo \in [Run -> Seq(Items)] /\ name \in [Run -> Nat]

\* Where a run is goes with what it has to do next.
AtWork(p) ==
    /\ todo[p] = <<>> <=> pc[p] \in {"start", "done"}
    /\ pc[p] \in {"copy", "write", "fill"} => ~Item(p).retires
    /\ pc[p] \in {"retire", "rename"} => Item(p).retires
    /\ pc[p] = "rename" => name[p] > 0

RunInv == DataType /\ WorkType /\ \A p \in Run : AtWork(p)

LEMMA TargetType ==
    ASSUME SkillsAssumption, RunInv, NEW p \in Run, pc[p] \notin {"start", "done"}
    PROVE  /\ todo[p] \in Seq(Items) /\ todo[p] # <<>>
           /\ Item(p) \in Items /\ Tail(todo[p]) \in Seq(Items)
           /\ Target(p) \in File
<1>1. todo[p] \in Seq(Items) /\ todo[p] # <<>>
    BY DEF RunInv, WorkType, AtWork
<1>2. Head(todo[p]) \in Items /\ Tail(todo[p]) \in Seq(Items)
    BY <1>1
<1>3. Head(todo[p]).path \in Path
    BY <1>2, ItemType
<1>4. link \in [Path -> File]
    BY DEF RunInv, DataType, SkillsAssumption
<1>. QED
    BY <1>1, <1>2, <1>3, <1>4 DEF Item, Target

\* What an install retires: every skill that the one it has copied replaces.
LEMMA SupersedeType ==
    ASSUME SkillsAssumption, RunInv, NEW p \in Run, pc[p] \in {"copy", "fill"}
    PROVE  /\ Supersede(p) \in Seq(Retires)
           /\ Supersede(p) \in Seq(Items)
           /\ job[p].kind = "install" /\ ~job[p].dir /\ job[p].root \in ToSet(Home) =>
                  \A old \in ToSet(Replaces[Item(p).path[2]]) :
                      Retire(job[p].root, old) \in ToSet(Supersede(p))
<1>. DEFINE olds == Replaces[Item(p).path[2]]
            r == job[p].root
<1>1. Item(p).path \in Root \X ToSet(Skills)
    <2>1. Item(p) \in Items /\ ~Item(p).retires
        BY TargetType DEF RunInv, AtWork
    <2>. QED
        BY <2>1, ItemType
<1>2. olds \in Seq(OldSkill)
    BY <1>1 DEF SkillsAssumption
<1>3. Len(olds) \in Nat /\ DOMAIN olds = 1 .. Len(olds) /\ \A i \in 1 .. Len(olds) : olds[i] \in OldSkill
    BY <1>2
<1>4. job[p] \in Jobs /\ r \in Root /\ job[p].kind \in {"install", "update"} /\ job[p].dir \in BOOLEAN
    BY JobType DEF RunInv, DataType
<1>5. CASE job[p].kind = "update" \/ job[p].dir \/ r \in ToSet(Repo)
    <2>1. Supersede(p) = <<>>
        BY <1>5 DEF Supersede
    <2>2. r \in ToSet(Repo) => r \notin ToSet(Home)
        BY DEF SkillsAssumption
    <2>. QED
        BY <1>5, <2>1, <2>2
<1>6. CASE ~(job[p].kind = "update" \/ job[p].dir \/ r \in ToSet(Repo))
    <2>1. Supersede(p) = [i \in 1 .. Len(olds) |-> Retire(r, olds[i])]
        BY <1>3, <1>6 DEF Supersede
    <2>2. r \in ToSet(Home)
        BY <1>4, <1>6 DEF Root
    <2>. HIDE DEF olds, r
    <2>3. \A i \in 1 .. Len(olds) : Retire(r, olds[i]) \in Retires
        BY <1>3, <2>2, RetireIsItem
    <2>4. Supersede(p) \in Seq(Retires) /\ Supersede(p) \in Seq(Items)
        BY <1>3, <2>1, <2>3 DEF Items
    <2>5. \A old \in ToSet(olds) : Retire(r, old) \in ToSet(Supersede(p))
        BY <1>3, <2>1 DEF ToSet
    <2>. QED
        BY <2>4, <2>5 DEF olds, r
<1>. QED
    BY <1>5, <1>6

LEMMA InstalledType ==
    ASSUME SkillsAssumption, RunInv, NEW p \in Run, pc[p] \in {"copy", "fill"}
    PROVE  Supersede(p) \o Tail(todo[p]) \in Seq(Items)
<1>1. Supersede(p) \in Seq(Items)
    BY SupersedeType
<1>2. Tail(todo[p]) \in Seq(Items)
    BY TargetType
<1>. QED
    BY <1>1, <1>2

\* The others are where they were.
LEMMA OthersWork ==
    ASSUME RunInv, NEW p, OnlyOf(p), NEW q \in Run \ {p}
    PROVE  AtWork(q)'
BY DEF RunInv, AtWork, OnlyOf, Item

Moved(p) ==
    /\ WorkType' /\ OnlyOf(p)
    /\ \A q \in Run : AtWork(q)'

LEMMA ProceedWork ==
    ASSUME RunInv, NEW p \in Run, NEW rest \in Seq(Items), Proceed(p, rest), UNCHANGED name
    PROVE  Moved(p) /\ todo'[p] = rest /\ pc'[p] \in {"copy", "retire", "done"}
<1>t. todo \in [Run -> Seq(Items)] /\ pc \in [Run -> Places] /\ name \in [Run -> Nat]
    BY DEF RunInv, WorkType
<1>1. /\ todo' \in [Run -> Seq(Items)] /\ todo'[p] = rest
      /\ pc' \in [Run -> Places]
      /\ pc'[p] = IF rest = <<>> THEN "done" ELSE IF Head(rest).retires THEN "retire" ELSE "copy"
      /\ OnlyOf(p)
    BY <1>t DEF Proceed, Goto, OnlyOf, Places
<1>2. AtWork(p)'
    BY <1>1 DEF AtWork, Item
<1>3. \A q \in Run \ {p} : AtWork(q)'
    BY <1>1, OthersWork
<1>. QED
    BY <1>t, <1>1, <1>2, <1>3 DEF Moved, WorkType

LEMMA GotoWork ==
    ASSUME RunInv, NEW p \in Run, NEW where, Goto(p, where), UNCHANGED todo,
           \/ pc[p] = "copy" /\ where = "write" /\ UNCHANGED name
           \/ pc[p] = "write" /\ where = "fill" /\ UNCHANGED name
           \/ /\ pc[p] = "retire" /\ where = "rename"
              /\ \E n \in Nat : n > 0 /\ name' = [name EXCEPT ![p] = n]
    PROVE  Moved(p) /\ pc'[p] = where
<1>t. /\ todo \in [Run -> Seq(Items)] /\ pc \in [Run -> Places] /\ name \in [Run -> Nat]
      /\ AtWork(p)
    BY DEF RunInv, WorkType
<1>1. /\ pc' \in [Run -> Places] /\ pc'[p] = where /\ name' \in [Run -> Nat]
      /\ where = "rename" => name'[p] > 0
      /\ OnlyOf(p)
    BY <1>t DEF Goto, OnlyOf, Places
<1>2. AtWork(p)'
    BY <1>t, <1>1 DEF AtWork, Item
<1>3. \A q \in Run \ {p} : AtWork(q)'
    BY <1>1, OthersWork
<1>. QED
    BY <1>t, <1>1, <1>2, <1>3 DEF Moved, WorkType

LEMMA ReportType ==
    ASSUME DataType, NEW p \in Run, NEW r \in Results, Report(p, r)
    PROVE  result' \in [Run -> Results] /\ result'[p] = r /\ \A q \in Run \ {p} : result'[q] = result[q]
BY DEF DataType, Report

\* The steps that change no file.
LEMMA LookTypes ==
    ASSUME SkillsAssumption, RunInv, NEW p \in Run,
           \/ Start(p) \/ LookInstall(p) \/ LookUpdate(p) \/ WriteFails(p) \/ ChooseName(p)
           \/ RenameFails(p) \/ Kill(p)
    PROVE  Moved(p) /\ DataType'
<1>d. DataType /\ WorkType
    BY DEF RunInv
<1>e. <<>> \in Seq(Items)
    OBVIOUS
<1>q. ASSUME UNCHANGED <<disk, job, seen, ghost>>, result' = result \/ \E r \in Results : Report(p, r)
      PROVE  DataType'
    BY <1>d, <1>q, ReportType DEF DataType, disk, ghost
<1>1. CASE Start(p)
    <2>1. UNCHANGED <<disk, job, seen, name, ghost>>
        BY <1>1 DEF Start
    <2>2. result' = result \/ \E r \in Results : Report(p, r)
        BY <1>1 DEF Start, Results
    <2>3. \E rest \in Seq(Items) : Proceed(p, rest)
        <3>1. Updates \in Seq(Items)
            BY UpdatesType DEF Items
        <3>2. Installs(job[p]) \in Seq(Items)
            BY <1>d, InstallsType DEF Items, DataType
        <3>. QED
            BY <1>1, <1>e, <3>1, <3>2 DEF Start
    <2>. QED
        BY <1>q, <2>1, <2>2, <2>3, ProceedWork
<1>2. CASE LookInstall(p)
    <2>1. UNCHANGED <<disk, job, seen, name, ghost>> /\ pc[p] = "copy"
        BY <1>2 DEF LookInstall
    <2>2. result' = result \/ \E r \in Results : Report(p, r)
        BY <1>2 DEF LookInstall, Results
    <2>3. \/ \E rest \in Seq(Items) : Proceed(p, rest)
          \/ Goto(p, "write") /\ UNCHANGED todo
        BY <1>2, <2>1, TargetType, InstalledType DEF LookInstall, Installed
    <2>. QED
        BY <1>q, <2>1, <2>2, <2>3, ProceedWork, GotoWork
<1>3. CASE LookUpdate(p)
    <2>1. UNCHANGED <<disk, job, name, result, ghost>> /\ pc[p] = "copy" /\ Target(p) \in File
        BY <1>3, TargetType DEF LookUpdate
    <2>2. seen' = seen \/ seen' = [seen EXCEPT ![p] = @ \cup {Target(p)}]
        BY <1>3 DEF LookUpdate
    <2>3. \/ \E rest \in Seq(Items) : Proceed(p, rest)
          \/ Goto(p, "write") /\ UNCHANGED todo
        BY <1>3, <2>1, TargetType DEF LookUpdate
    <2>4. DataType'
        <3>1. seen' \in [Run -> SUBSET File]
            <4>1. seen \in [Run -> SUBSET File]
                BY <1>d DEF DataType
            <4>2. seen[p] \cup {Target(p)} \in SUBSET File
                BY <2>1, <4>1
            <4>. QED
                BY <2>2, <4>1, <4>2
        <3>. QED
            BY <1>d, <2>1, <3>1 DEF DataType, disk, ghost
    <2>. QED
        BY <2>1, <2>3, <2>4, ProceedWork, GotoWork
<1>4. CASE WriteFails(p) \/ Kill(p)
    <2>1. UNCHANGED <<disk, job, seen, name, ghost>> /\ Proceed(p, <<>>)
        BY <1>4 DEF WriteFails, Kill
    <2>2. \E r \in Results : Report(p, r)
        BY <1>4 DEF WriteFails, Kill, Results
    <2>. QED
        BY <1>e, <1>q, <2>1, <2>2, ProceedWork
<1>5. CASE RenameFails(p)
    <2>1. UNCHANGED <<disk, job, seen, name, ghost>> /\ Proceed(p, Tail(todo[p])) /\ pc[p] = "rename"
        BY <1>5 DEF RenameFails
    <2>2. \E r \in Results : Report(p, r)
        BY <1>d, <1>5 DEF RenameFails, Warn, Results, DataType
    <2>. QED
        BY <1>q, <2>1, <2>2, TargetType, ProceedWork
<1>6. CASE ChooseName(p)
    <2>1. UNCHANGED <<disk, job, seen, result, ghost>> /\ pc[p] = "retire" /\ Target(p) \in File
        BY <1>6, TargetType DEF ChooseName
    <2>2. Len(retired[Target(p)]) + 1 \in Nat /\ Len(retired[Target(p)]) + 1 > 0
        <3>1. retired[Target(p)] \in Seq(Contents \ {"absent"})
            BY <1>d, <2>1 DEF DataType
        <3>2. Len(retired[Target(p)]) \in Nat
            BY <3>1
        <3>. QED
            BY <3>2
    <2>3. \/ Proceed(p, Tail(todo[p])) /\ UNCHANGED name
          \/ /\ name' = [name EXCEPT ![p] = Len(retired[Target(p)]) + 1]
             /\ Goto(p, "rename") /\ UNCHANGED todo
        BY <1>6 DEF ChooseName
    <2>. QED
        BY <1>q, <2>1, <2>2, <2>3, TargetType, ProceedWork, GotoWork
<1>. QED
    BY <1>1, <1>2, <1>3, <1>4, <1>5, <1>6

\* The steps that change one.
LEMMA WriteTypes ==
    ASSUME SkillsAssumption, RunInv, EditInv, NEW p \in Run, Truncate(p) \/ Fill(p) \/ Rename(p)
    PROVE  Moved(p) /\ DataType'
<1>d. DataType /\ WorkType /\ AtWork(p)
    BY DEF RunInv
<1>t. Target(p) \in File /\ Tail(todo[p]) \in Seq(Items)
    BY TargetType DEF Truncate, Fill, Rename
<1>k. \A c : c \in {file[Target(p)]} \cap Edit => c \in saved
    BY <1>t, EditsAreEdits DEF EditInv, DiskType, Known
<1>1. CASE Truncate(p)
    <2>1. /\ UNCHANGED <<link, retired, job, seen, name, result, saved, again, todo>>
          /\ Goto(p, "fill") /\ pc[p] = "write"
          /\ file' = [file EXCEPT ![Target(p)] = "partial"]
          /\ excused' \subseteq excused \cup ({file[Target(p)]} \cap Edit)
        BY <1>1 DEF Truncate
    <2>2. file' \in [File -> Contents]
        BY <1>d, <2>1 DEF DataType, Contents
    <2>. QED
        BY <1>d, <1>k, <2>1, <2>2, GotoWork DEF DataType
<1>2. CASE Fill(p)
    <2>1. /\ UNCHANGED <<link, retired, job, seen, name, result, ghost>>
          /\ file' = [file EXCEPT ![Target(p)] = "bundled"]
          /\ pc[p] = "fill" /\ Proceed(p, Supersede(p) \o Tail(todo[p]))
        BY <1>2 DEF Fill, Installed
    <2>2. file' \in [File -> Contents]
        BY <1>d, <2>1 DEF DataType, Contents
    <2>3. DataType'
        BY <1>d, <2>1, <2>2 DEF DataType, ghost
    <2>. QED
        BY <2>1, <2>3, InstalledType, ProceedWork
<1>3. CASE Rename(p)
    <2>. DEFINE f == Target(p)
                n == name[p]
                r == retired[f]
    <2>1. /\ UNCHANGED <<link, job, seen, name, saved, again>>
          /\ pc[p] = "rename" /\ Proceed(p, Tail(todo[p]))
          /\ excused' \subseteq excused \cup ({file[f]} \cap Edit)
        BY <1>3 DEF Rename
    <2>2. Moved(p)
        BY <1>t, <2>1, ProceedWork
    <2>3. result' \in [Run -> Results]
        <3>1. result' = result \/ \E x \in Results : Report(p, x)
            BY <1>d, <1>3 DEF Rename, Warn, Results, DataType
        <3>. QED
            BY <1>d, <3>1, ReportType DEF DataType
    <2>4. CASE file[f] = "absent"
        <3>1. UNCHANGED <<file, retired>>
            BY <1>3, <2>4 DEF Rename
        <3>. QED
            BY <1>d, <1>k, <2>1, <2>2, <2>3, <3>1 DEF DataType
    <2>5. CASE file[f] # "absent"
        <3>1. /\ file' = [file EXCEPT ![f] = "absent"]
              /\ retired' = [retired EXCEPT ![f] = IF n <= Len(@) THEN [@ EXCEPT ![n] = file[f]]
                                                  ELSE Append(@, file[f])]
            BY <1>3, <2>5 DEF Rename
        <3>2. r \in Seq(Contents \ {"absent"}) /\ n \in Nat /\ n > 0
              /\ file[f] \in Contents \ {"absent"}
            BY <1>d, <1>t, <2>1, <2>5 DEF DataType, WorkType, AtWork
        <3>3. (IF n <= Len(r) THEN [r EXCEPT ![n] = file[f]] ELSE Append(r, file[f]))
                  \in Seq(Contents \ {"absent"})
            <4>. HIDE DEF f, n, r
            <4>1. CASE n <= Len(r)
                BY <3>2, <4>1
            <4>2. CASE ~(n <= Len(r))
                BY <3>2, <4>2
            <4>. QED
                BY <4>1, <4>2
        <3>4. retired' \in [File -> Seq(Contents \ {"absent"})]
            BY <1>d, <1>t, <3>1, <3>3 DEF DataType
        <3>5. file' \in [File -> Contents]
            BY <1>d, <3>1 DEF DataType, Contents
        <3>. QED
            BY <1>d, <1>k, <2>1, <2>2, <2>3, <3>4, <3>5 DEF DataType
    <2>. QED
        BY <2>4, <2>5
<1>. QED
    BY <1>1, <1>2, <1>3

\* Everyone else leaves the runs where they are.
LEMMA OutsideTypes ==
    ASSUME SkillsAssumption, RunInv, EditInv,
           \/ \E f \in File, e \in Edit : Save(f, e)
           \/ \E d \in OldSkill : OldInstall(d)
    PROVE  RunInv'
<1>d. DataType /\ WorkType
    BY DEF RunInv
<1>w. UNCHANGED <<link, retired, job, pc, todo, seen, name, result>>
    BY DEF Save, OldInstall
<1>a. ASSUME NEW f \in File, Written(f) PROVE again' \in [Run -> SUBSET File]
    BY <1>a, <1>d DEF Written, DataType
<1>1. DataType'
    <2>1. ASSUME NEW f \in File, NEW e \in Edit, Save(f, e) PROVE DataType'
        <3>1. /\ file' \in [File -> Contents] /\ again' \in [Run -> SUBSET File]
              /\ saved' = saved \cup {e}
            BY <1>a, <1>d, <2>1 DEF Save, DataType, Contents
        <3>2. excused' \subseteq excused \cup ({file[f]} \cap Edit) \cup {e}
            BY <2>1 DEF Save
        <3>3. file[f] \in Edit => file[f] \in saved
            BY EditsAreEdits DEF EditInv, DiskType, Known
        <3>. QED
            BY <1>d, <1>w, <3>1, <3>2, <3>3 DEF DataType
    <2>2. ASSUME NEW d \in OldSkill, OldInstall(d) PROVE DataType'
        <3>1. link[<<Claude, d>>] \in File
            BY <1>d DEF DataType, SkillsAssumption, Path
        <3>2. file' \in [File -> Contents] /\ again' \in [Run -> SUBSET File] /\ UNCHANGED <<saved, excused>>
            BY <1>a, <1>d, <2>2, <3>1 DEF OldInstall, DataType, Contents
        <3>. QED
            BY <1>d, <1>w, <3>2 DEF DataType
    <2>. QED
        BY <2>1, <2>2
<1>2. WorkType' /\ \A q \in Run : AtWork(q)'
    BY <1>w DEF RunInv, WorkType, AtWork, Item
<1>. QED
    BY <1>1, <1>2 DEF RunInv

LEMMA RunAlways == Spec => []RunInv
<1>1. SkillsAssumption /\ Init => RunInv
    <2>. SUFFICES ASSUME SkillsAssumption, Init PROVE RunInv
        OBVIOUS
    <2>1. DataType
        BY DEF Init, DataType, SkillsAssumption, Contents, Results
    <2>2. WorkType /\ \A q \in Run : AtWork(q)
        BY DEF Init, WorkType, AtWork, Places
    <2>. QED
        BY <2>1, <2>2 DEF RunInv
<1>2. SkillsAssumption /\ RunInv /\ EditInv /\ [Next]_vars => RunInv'
    <2>. SUFFICES ASSUME SkillsAssumption, RunInv, EditInv, [Next]_vars PROVE RunInv'
        OBVIOUS
    <2>1. ASSUME NEW p \in Run, Step(p) PROVE RunInv'
        BY <2>1, LookTypes, WriteTypes DEF Step, Moved, RunInv
    <2>2. CASE UNCHANGED vars
        BY <2>2 DEF vars, RunInv, DataType, WorkType, AtWork, Item
    <2>. QED
        BY <2>1, <2>2, OutsideTypes DEF Next
<1>. QED
    BY <1>1, <1>2, EditAlways, SkillsAssumption, PTL DEF Spec

(* The types of a run, of the files and of what is kept beside them; a run   *)
(* under way has something to do, and a rename a name to give.               *)
THEOREM TypesHold == Spec => []TypeOK
<1>1. RunInv => TypeOK
    <2>. SUFFICES ASSUME RunInv PROVE TypeOK
        OBVIOUS
    <2>1. DataType /\ WorkType /\ \A p \in Run : AtWork(p)
        BY DEF RunInv
    <2>. QED
        BY <2>1 DEF TypeOK, DataType, WorkType, AtWork, Places, Results
<1>. QED
    BY <1>1, RunAlways, PTL

-----------------------------------------------------------------------------
(* Inside the repository.  An install has only copies to make that it may    *)
(* make, since it looked at all of them first; an update looks at each.      *)

Forbidden == Outside \ HomeFiles
Allowed   == {x \in Items : ~x.retires => link[x.path] \notin Forbidden}

InsideInv ==
    /\ \A f \in Forbidden : file[f] # "bundled"
    /\ \A p \in Run :
        /\ job[p].kind = "install" => todo[p] \in Seq(Allowed)
        /\ pc[p] \in {"write", "fill"} => Target(p) \notin Forbidden

LEMMA RetiresAllowed == Retires \subseteq Allowed
<1>1. \A x \in Retires : x \in Items /\ x.retires
    BY DEF Retires, Retire, Items
<1>. QED
    BY <1>1 DEF Allowed

\* A copy in the home directory is allowed wherever it leads.
LEMMA HomeAllowed ==
    ASSUME NEW q \in Path, q[1] \in ToSet(Home)
    PROVE  link[q] \notin Forbidden
BY DEF Forbidden, HomeFiles

\* What a run may come to, so that it stays inside.
LEMMA InsideMove ==
    ASSUME RunInv, InsideInv, NEW p \in Run, UNCHANGED <<link, job>>, OnlyOf(p),
           \A f \in Forbidden : file'[f] # "bundled",
           job[p].kind = "install" => todo'[p] \in Seq(Allowed),
           pc'[p] \in {"write", "fill"} => Target(p)' \notin Forbidden
    PROVE  InsideInv'
<1>1. Forbidden' = Forbidden /\ Allowed' = Allowed
    BY DEF Forbidden, HomeFiles, Allowed
<1>2. ASSUME NEW q \in Run \ {p}
      PROVE  pc'[q] = pc[q] /\ todo'[q] = todo[q] /\ Target(q)' = Target(q)
    BY OthersKeepTarget DEF OnlyOf
<1>3. \A q \in Run : (job[q].kind = "install" => todo[q] \in Seq(Allowed))'
    BY <1>1, <1>2 DEF InsideInv
<1>4. \A q \in Run : (pc[q] \in {"write", "fill"} => Target(q) \notin Forbidden)'
    BY <1>1, <1>2 DEF InsideInv
<1>. QED
    BY <1>1, <1>3, <1>4 DEF InsideInv

LEMMA AllowedRest ==
    ASSUME SkillsAssumption, RunInv, InsideInv, NEW p \in Run, pc[p] \notin {"start", "done"},
           job[p].kind = "install"
    PROVE  /\ Item(p) \in Allowed /\ Tail(todo[p]) \in Seq(Allowed)
           /\ pc[p] \in {"copy", "fill"} => Supersede(p) \o Tail(todo[p]) \in Seq(Allowed)
<1>1. todo[p] \in Seq(Allowed) /\ todo[p] # <<>>
    BY TargetType DEF InsideInv
<1>2. Head(todo[p]) \in Allowed /\ Tail(todo[p]) \in Seq(Allowed)
    BY <1>1
<1>3. pc[p] \in {"copy", "fill"} => Supersede(p) \in Seq(Allowed)
    BY SupersedeType, RetiresAllowed
<1>. QED
    BY <1>2, <1>3 DEF Item

\* All the paths of an install lie inside before any is written.
LEMMA StartInside ==
    ASSUME SkillsAssumption, RunInv, NEW p \in Run, InsideAll(job[p])
    PROVE  Installs(job[p]) \in Seq(Allowed)
<1>. DEFINE j == job[p]
<1>1. j \in Jobs /\ j.root \in Root /\ j.skills \in Seq(ToSet(Skills))
    BY JobType DEF RunInv, DataType
<1>2. Installs(j) \in Seq(Copies) /\ DOMAIN Installs(j) = DOMAIN j.skills
    BY <1>1, InstallsType
<1>3. ASSUME NEW i \in DOMAIN j.skills
      PROVE  Installs(j)[i] \in Allowed
    <2>1. j.skills[i] \in ToSet(Skills)
        BY <1>1
    <2>2. Installs(j)[i] = Copy(j.root, j.skills[i])
        BY DEF Installs
    <2>3. Copy(j.root, j.skills[i]) \in Items
        BY <1>1, <2>1, CopyIsItem DEF Items
    <2>4. link[<<j.root, j.skills[i]>>] \notin Forbidden
        <3>1. CASE j.root \in ToSet(Repo)
            BY <3>1 DEF InsideAll, Forbidden
        <3>2. CASE j.root \notin ToSet(Repo)
            BY <1>1, <2>1, <3>2, HomeAllowed DEF Root, Path
        <3>. QED
            BY <3>1, <3>2
    <2>5. Copy(j.root, j.skills[i]).path = <<j.root, j.skills[i]>>
        BY DEF Copy
    <2>. QED
        BY <2>2, <2>3, <2>4, <2>5 DEF Allowed
<1>4. Len(j.skills) \in Nat /\ DOMAIN j.skills = 1 .. Len(j.skills)
    BY <1>1
<1>5. Installs(j) = [i \in 1 .. Len(j.skills) |-> Copy(j.root, j.skills[i])]
    BY <1>4 DEF Installs
<1>6. \A i \in 1 .. Len(j.skills) : Copy(j.root, j.skills[i]) \in Allowed
    BY <1>3, <1>4 DEF Installs
<1>. QED
    BY <1>4, <1>5, <1>6

\* Where the next item leads.
LEMMA NextTarget ==
    ASSUME RunInv, NEW p \in Run, UNCHANGED <<link, todo>>
    PROVE  Target(p)' = Target(p)
BY DEF Target, Item

LEMMA InsideStep ==
    ASSUME SkillsAssumption, RunInv, InsideInv, NEW p \in Run, Step(p)
    PROVE  InsideInv'
<1>d. DataType /\ WorkType /\ AtWork(p)
    BY DEF RunInv
<1>e. <<>> \in Seq(Allowed) /\ <<>> \in Seq(Items)
    OBVIOUS
<1>f. \A f \in Forbidden : file[f] # "bundled"
    BY DEF InsideInv
<1>p. ASSUME UNCHANGED <<link, job, name>>, \A f \in Forbidden : file'[f] # "bundled",
             NEW rest \in Seq(Items), Proceed(p, rest),
             job[p].kind = "install" => rest \in Seq(Allowed)
      PROVE  InsideInv'
    BY <1>p, ProceedWork, InsideMove DEF Moved
<1>1. CASE Start(p)
    <2>1. UNCHANGED <<link, job, name, file>>
        BY <1>1 DEF Start, disk
    <2>2. CASE job[p].kind = "update"
        <3>1. Proceed(p, Updates) /\ Updates \in Seq(Items)
            BY <1>1, <2>2, UpdatesType DEF Start, Items
        <3>. QED
            BY <1>f, <1>p, <2>1, <2>2, <3>1
    <2>3. CASE job[p].kind # "update" /\ InsideAll(job[p])
        <3>1. Proceed(p, Installs(job[p]))
            BY <1>1, <2>3 DEF Start
        <3>2. Installs(job[p]) \in Seq(Items) /\ Installs(job[p]) \in Seq(Allowed)
            BY <1>d, <2>3, StartInside, InstallsType DEF DataType, Items
        <3>. QED
            BY <1>f, <1>p, <2>1, <3>1, <3>2
    <2>4. CASE job[p].kind # "update" /\ ~InsideAll(job[p])
        <3>1. Proceed(p, <<>>)
            BY <1>1, <2>4 DEF Start
        <3>. QED
            BY <1>e, <1>f, <1>p, <2>1, <3>1
    <2>. QED
        BY <2>2, <2>3, <2>4
<1>2. CASE LookInstall(p)
    <2>1. /\ UNCHANGED <<link, job, name, file>>
          /\ pc[p] = "copy" /\ job[p].kind = "install"
        BY <1>2 DEF LookInstall, disk
    <2>2. /\ Item(p) \in Allowed /\ Tail(todo[p]) \in Seq(Allowed)
          /\ Supersede(p) \o Tail(todo[p]) \in Seq(Allowed)
        BY <2>1, AllowedRest
    <2>3. CASE Goto(p, "write") /\ UNCHANGED todo
        <3>1. OnlyOf(p) /\ pc'[p] = "write" /\ Target(p)' = Target(p)
            BY <2>1, <2>3, GotoWork, NextTarget DEF Moved
        <3>2. ~Item(p).retires
            BY <1>d, <2>1 DEF AtWork
        <3>3. Target(p) \notin Forbidden
            BY <2>2, <3>2 DEF Allowed, Target
        <3>4. todo'[p] \in Seq(Allowed)
            BY <2>1, <2>3 DEF InsideInv
        <3>. QED
            BY <1>f, <2>1, <3>1, <3>3, <3>4, InsideMove
    <2>4. CASE \/ Proceed(p, Tail(todo[p]))
               \/ Proceed(p, Supersede(p) \o Tail(todo[p]))
        BY <1>f, <1>p, <2>1, <2>2, <2>4, TargetType, InstalledType
    <2>. QED
        BY <1>2, <2>3, <2>4 DEF LookInstall, Installed
<1>3. CASE LookUpdate(p)
    <2>1. /\ UNCHANGED <<link, job, name, file>>
          /\ pc[p] = "copy" /\ job[p].kind = "update"
        BY <1>3 DEF LookUpdate, disk
    <2>2. \/ Proceed(p, Tail(todo[p]))
          \/ /\ Goto(p, "write") /\ UNCHANGED todo
             /\ Item(p).path[1] \in ToSet(Repo) => Target(p) \notin Outside
        BY <1>3 DEF LookUpdate
    <2>3. CASE Proceed(p, Tail(todo[p]))
        BY <1>f, <1>p, <2>1, <2>3, TargetType
    <2>4. CASE /\ Goto(p, "write") /\ UNCHANGED todo
               /\ Item(p).path[1] \in ToSet(Repo) => Target(p) \notin Outside
        <3>1. OnlyOf(p) /\ pc'[p] = "write" /\ Target(p)' = Target(p)
            BY <2>1, <2>4, GotoWork, NextTarget DEF Moved
        <3>2. Item(p).path \in Root \X ToSet(Skills) /\ Item(p).path \in Path
            BY <1>d, <2>1, TargetType, ItemType DEF AtWork
        <3>3. Target(p) \notin Forbidden
            <4>1. CASE Item(p).path[1] \in ToSet(Repo)
                BY <2>4, <4>1 DEF Forbidden
            <4>2. CASE Item(p).path[1] \notin ToSet(Repo)
                <5>1. Item(p).path[1] \in ToSet(Home)
                    BY <3>2, <4>2 DEF Root
                <5>. QED
                    BY <3>2, <5>1, HomeAllowed DEF Target
            <4>. QED
                BY <4>1, <4>2
        <3>. QED
            BY <1>f, <2>1, <3>1, <3>3, InsideMove
    <2>. QED
        BY <2>2, <2>3, <2>4
<1>4. CASE Truncate(p)
    <2>1. /\ UNCHANGED <<link, job, name, todo>> /\ pc[p] = "write" /\ Goto(p, "fill")
          /\ file' = [file EXCEPT ![Target(p)] = "partial"]
        BY <1>4 DEF Truncate
    <2>2. OnlyOf(p) /\ pc'[p] = "fill" /\ Target(p)' = Target(p)
        BY <2>1, GotoWork, NextTarget DEF Moved
    <2>3. \A f \in Forbidden : file'[f] # "bundled"
        <3>1. \A f : file'[f] # "bundled" \/ file'[f] = file[f] \/ f \notin File
            BY <1>d, <2>1 DEF DataType
        <3>2. Forbidden \subseteq File
            BY DEF Forbidden, SkillsAssumption
        <3>. QED
            BY <1>f, <3>1, <3>2
    <2>4. Target(p) \notin Forbidden /\ (job[p].kind = "install" => todo'[p] \in Seq(Allowed))
        BY <2>1 DEF InsideInv
    <2>. QED
        BY <2>1, <2>2, <2>3, <2>4, InsideMove
<1>5. CASE Fill(p)
    <2>1. /\ UNCHANGED <<link, job, name>> /\ pc[p] = "fill"
          /\ file' = [file EXCEPT ![Target(p)] = "bundled"]
          /\ Proceed(p, Supersede(p) \o Tail(todo[p]))
        BY <1>5 DEF Fill, Installed
    <2>2. \A f \in Forbidden : file'[f] # "bundled"
        <3>1. Target(p) \notin Forbidden
            BY <2>1 DEF InsideInv
        <3>2. Forbidden \subseteq File
            BY DEF Forbidden, SkillsAssumption
        <3>. QED
            BY <1>d, <1>f, <2>1, <3>1, <3>2 DEF DataType
    <2>3. job[p].kind = "install" => Supersede(p) \o Tail(todo[p]) \in Seq(Allowed)
        BY <2>1, AllowedRest
    <2>. QED
        BY <1>p, <2>1, <2>2, <2>3, InstalledType
<1>6. CASE WriteFails(p) \/ Kill(p)
    <2>1. UNCHANGED <<link, job, name, file>> /\ Proceed(p, <<>>)
        BY <1>6 DEF WriteFails, Kill, disk
    <2>. QED
        BY <1>e, <1>f, <1>p, <2>1
<1>7. CASE ChooseName(p)
    <2>1. UNCHANGED <<link, job, file>> /\ pc[p] = "retire"
        BY <1>7 DEF ChooseName, disk
    <2>2. job[p].kind = "install" => Tail(todo[p]) \in Seq(Allowed)
        BY <2>1, AllowedRest
    <2>3. CASE Proceed(p, Tail(todo[p])) /\ UNCHANGED name
        BY <1>f, <1>p, <2>1, <2>2, <2>3, TargetType
    <2>4. CASE Goto(p, "rename") /\ UNCHANGED todo
        <3>1. OnlyOf(p) /\ pc'[p] = "rename"
            BY <1>7, <1>d, <2>4 DEF Goto, OnlyOf, WorkType, ChooseName, Proceed
        <3>2. job[p].kind = "install" => todo'[p] \in Seq(Allowed)
            BY <2>4 DEF InsideInv
        <3>. QED
            BY <1>f, <2>1, <3>1, <3>2, InsideMove
    <2>. QED
        BY <1>7, <2>3, <2>4 DEF ChooseName
<1>8. CASE Rename(p) \/ RenameFails(p)
    <2>1. UNCHANGED <<link, job, name>> /\ Proceed(p, Tail(todo[p])) /\ pc[p] = "rename"
        BY <1>8 DEF Rename, RenameFails, disk
    <2>2. job[p].kind = "install" => Tail(todo[p]) \in Seq(Allowed)
        BY <2>1, AllowedRest
    <2>3. \A f \in Forbidden : file'[f] # "bundled"
        <3>1. file' = file \/ file' = [file EXCEPT ![Target(p)] = "absent"]
            BY <1>8 DEF Rename, RenameFails, disk
        <3>2. Forbidden \subseteq File
            BY DEF Forbidden, SkillsAssumption
        <3>. QED
            BY <1>d, <1>f, <3>1, <3>2 DEF DataType
    <2>. QED
        BY <1>p, <2>1, <2>2, <2>3, TargetType
<1>. QED
    BY <1>1, <1>2, <1>3, <1>4, <1>5, <1>6, <1>7, <1>8 DEF Step

\* Nobody else writes the bundled version.
LEMMA OutsideInside ==
    ASSUME SkillsAssumption, RunInv, InsideInv,
           \/ \E f \in File, e \in Edit : Save(f, e)
           \/ \E d \in OldSkill : OldInstall(d)
    PROVE  InsideInv'
<1>1. UNCHANGED <<link, job, pc, todo>>
    BY DEF Save, OldInstall
<1>2. Forbidden' = Forbidden /\ Allowed' = Allowed /\ \A p \in Run : Target(p)' = Target(p)
    BY <1>1 DEF Forbidden, HomeFiles, Allowed, Target, Item
<1>3. \E f, c : file' = [file EXCEPT ![f] = c] /\ c # "bundled"
    <2>1. ASSUME NEW f \in File, NEW e \in Edit, Save(f, e)
          PROVE  file' = [file EXCEPT ![f] = e] /\ e # "bundled"
        BY <2>1, EditsAreEdits DEF Save
    <2>2. ASSUME NEW d \in OldSkill, OldInstall(d)
          PROVE  file' = [file EXCEPT ![link[<<Claude, d>>]] = "shipped"]
        BY <2>2 DEF OldInstall
    <2>. QED
        BY <2>1, <2>2
<1>4. Forbidden \subseteq File /\ file \in [File -> Contents]
    BY DEF Forbidden, SkillsAssumption, RunInv, DataType
<1>5. \A f \in Forbidden : file'[f] # "bundled"
    BY <1>3, <1>4 DEF InsideInv
<1>. QED
    BY <1>1, <1>2, <1>5 DEF InsideInv

LEMMA InsideAlways == Spec => []InsideInv
<1>1. SkillsAssumption /\ Init => InsideInv
    <2>. SUFFICES ASSUME SkillsAssumption, Init PROVE InsideInv
        OBVIOUS
    <2>1. \A f \in Forbidden : file[f] # "bundled"
        BY DEF Init, SkillsAssumption, Forbidden
    <2>2. <<>> \in Seq(Allowed)
        OBVIOUS
    <2>. QED
        BY <2>1, <2>2 DEF Init, InsideInv
<1>2. SkillsAssumption /\ RunInv /\ InsideInv /\ [Next]_vars => InsideInv'
    <2>. SUFFICES ASSUME SkillsAssumption, RunInv, InsideInv, [Next]_vars PROVE InsideInv'
        OBVIOUS
    <2>1. CASE UNCHANGED vars
        <3>1. \A q \in Run : Target(q)' = Target(q)
            BY <2>1 DEF vars, Target, Item
        <3>2. Forbidden' = Forbidden /\ Allowed' = Allowed
            BY <2>1 DEF vars, Forbidden, HomeFiles, Allowed
        <3>. QED
            BY <2>1, <3>1, <3>2 DEF vars, InsideInv
    <2>. QED
        BY <2>1, InsideStep, OutsideInside DEF Next
<1>. QED
    BY <1>1, <1>2, RunAlways, SkillsAssumption, PTL DEF Spec

(* No install and no update writes a file outside the repository that only   *)
(* paths of the repository resolve to, wherever a clone's links lead.        *)
THEOREM InsideRepository == Spec => []StaysInside
<1>1. InsideInv => StaysInside
    BY DEF InsideInv, StaysInside, Forbidden
<1>. QED
    BY <1>1, InsideAlways, PTL

-----------------------------------------------------------------------------
(* What an install supersedes.  As long as nothing amiss was reported, an    *)
(* old skill is still to be retired, or the one that replaces it is still to *)
(* be copied, or nobody but its next owner has it.                           *)

Gone(p, f) == file[f] = "absent" \/ f \in again[p] \/ f \in CopyFiles

Supersedes(p) ==
    result[p] = "installed" /\ ~job[p].dry /\ ~job[p].dir /\ job[p].root \in ToSet(Home)

Handled(p, s, old) ==
    \/ Copy(job[p].root, s) \in ToSet(todo[p])
    \/ Retire(job[p].root, old) \in ToSet(todo[p])
    \/ Gone(p, link[<<job[p].root, old>>])

RetireInv ==
    \A p \in Run :
        /\ result[p] = "installed" => pc[p] # "start" /\ job[p].kind = "install"
        /\ Supersedes(p) =>
               \A i \in DOMAIN job[p].skills : \A old \in ToSet(Replaces[job[p].skills[i]]) :
                   Handled(p, job[p].skills[i], old)

LEMMA ToSetTail ==
    ASSUME NEW S, NEW q \in Seq(S), q # <<>>, NEW x \in ToSet(q), x # Head(q)
    PROVE  x \in ToSet(Tail(q))
<1>1. PICK i \in 1 .. Len(q) : x = q[i]
    BY DEF ToSet
<1>2. i # 1 /\ i - 1 \in 1 .. Len(Tail(q)) /\ Tail(q)[i - 1] = x
    BY <1>1
<1>3. Tail(q) \in Seq(S) /\ DOMAIN Tail(q) = 1 .. Len(Tail(q))
    OBVIOUS
<1>. QED
    BY <1>2, <1>3 DEF ToSet

LEMMA ToSetConcat ==
    ASSUME NEW S, NEW q \in Seq(S), NEW r \in Seq(S), NEW x \in ToSet(q) \cup ToSet(r)
    PROVE  x \in ToSet(q \o r)
<1>1. CASE x \in ToSet(q)
    <2>1. PICK i \in 1 .. Len(q) : x = q[i]
        BY <1>1 DEF ToSet
    <2>2. i \in 1 .. Len(q \o r) /\ (q \o r)[i] = x
        BY <2>1
    <2>. QED
        BY <2>2 DEF ToSet
<1>2. CASE x \in ToSet(r)
    <2>1. PICK i \in 1 .. Len(r) : x = r[i]
        BY <1>2 DEF ToSet
    <2>2. Len(q) + i \in 1 .. Len(q \o r) /\ (q \o r)[Len(q) + i] = x
        BY <2>1
    <2>. QED
        BY <2>2 DEF ToSet
<1>. QED
    BY <1>1, <1>2

\* What is written is the copy of a skill there is.
LEMMA WriterAtCopy ==
    ASSUME SkillsAssumption, RunInv, NEW p \in Run, pc[p] \in {"write", "fill"}
    PROVE  Target(p) \in CopyFiles
<1>1. Item(p) \in Items /\ ~Item(p).retires
    BY TargetType DEF RunInv, AtWork
<1>2. Item(p).path \in Root \X ToSet(Skills)
    BY <1>1, ItemType
<1>. QED
    BY <1>2 DEF CopyFiles, Target

\* Once a run is under way, only someone else brings an old skill back.
LEMMA GoneStays ==
    ASSUME SkillsAssumption, RunInv, Next, NEW p \in Run, pc[p] # "start",
           NEW f \in File, Gone(p, f)
    PROVE  Gone(p, f)'
<1>d. file \in [File -> Contents] /\ again \in [Run -> SUBSET File]
    BY DEF RunInv, DataType
<1>1. ASSUME NEW q \in Run, Step(q) PROVE Gone(p, f)'
    <2>1. UNCHANGED <<link, again>>
        BY <1>1 DEF Step, Start, LookInstall, LookUpdate, Truncate, Fill, WriteFails, ChooseName,
                    Rename, RenameFails, Kill, disk, ghost
    <2>2. CopyFiles' = CopyFiles
        BY <2>1 DEF CopyFiles
    <2>3. \/ file' = file
          \/ file' = [file EXCEPT ![Target(q)] = "absent"]
          \/ /\ \E c : file' = [file EXCEPT ![Target(q)] = c]
             /\ Target(q) \in CopyFiles
        <3>1. CASE Truncate(q) \/ Fill(q)
            BY <3>1, WriterAtCopy DEF Truncate, Fill
        <3>2. CASE ~(Truncate(q) \/ Fill(q))
            BY <1>1, <3>2 DEF Step, Start, LookInstall, LookUpdate, WriteFails, ChooseName,
                              Rename, RenameFails, Kill, disk
        <3>. QED
            BY <3>1, <3>2
    <2>. QED
        BY <1>d, <2>1, <2>2, <2>3 DEF Gone
<1>2. ASSUME NEW g \in File, Written(g), UNCHANGED link, \A h \in File \ {g} : file'[h] = file[h]
      PROVE  Gone(p, f)'
    <2>1. again'[p] = again[p] \cup {g}
        BY <1>2 DEF Written
    <2>2. CopyFiles' = CopyFiles
        BY <1>2 DEF CopyFiles
    <2>. QED
        BY <1>2, <2>1, <2>2 DEF Gone
<1>3. ASSUME NEW g \in File, NEW e \in Edit, Save(g, e) PROVE Gone(p, f)'
    BY <1>d, <1>2, <1>3 DEF Save
<1>4. ASSUME NEW d \in OldSkill, OldInstall(d) PROVE Gone(p, f)'
    <2>1. link[<<Claude, d>>] \in File
        BY DEF RunInv, DataType, SkillsAssumption, Path
    <2>. QED
        BY <1>d, <1>2, <1>4, <2>1 DEF OldInstall
<1>. QED
    BY <1>1, <1>3, <1>4 DEF Next

\* The file of an old skill.
LEMMA OldFile ==
    ASSUME SkillsAssumption, RunInv, NEW p \in Run, job[p].root \in ToSet(Home),
           NEW i \in DOMAIN job[p].skills, NEW old \in ToSet(Replaces[job[p].skills[i]])
    PROVE  /\ job[p].skills[i] \in ToSet(Skills) /\ old \in OldSkill
           /\ link[<<job[p].root, old>>] \in File
<1>1. job[p].skills \in Seq(ToSet(Skills))
    BY JobType DEF RunInv, DataType
<1>2. job[p].skills[i] \in ToSet(Skills)
    BY <1>1
<1>3. Replaces[job[p].skills[i]] \in Seq(OldSkill)
    BY <1>2 DEF SkillsAssumption
<1>4. old \in OldSkill
    <2>. DEFINE olds == Replaces[job[p].skills[i]]
    <2>1. \A k \in DOMAIN olds : olds[k] \in OldSkill
        BY <1>3
    <2>. QED
        BY <2>1 DEF ToSet
<1>5. <<job[p].root, old>> \in Path
    BY <1>4 DEF Path
<1>. QED
    BY <1>2, <1>4, <1>5 DEF RunInv, DataType, SkillsAssumption

\* What an install has dealt with stays so, whatever it does next.
LEMMA HandledStep ==
    ASSUME SkillsAssumption, RunInv, RetireInv, Next, NEW p \in Run, Step(p), Supersedes(p)',
           NEW i \in DOMAIN job[p].skills, NEW old \in ToSet(Replaces[job[p].skills[i]])
    PROVE  Handled(p, job[p].skills[i], old)'
<1>. DEFINE s == job[p].skills[i]
            r == job[p].root
            f == link[<<r, old>>]
            copy == Copy(r, s)
            retire == Retire(r, old)
<1>d. DataType /\ WorkType /\ AtWork(p)
    BY DEF RunInv
<1>u. UNCHANGED <<link, job>>
    BY DEF Step, Start, LookInstall, LookUpdate, Truncate, Fill, WriteFails, ChooseName,
           Rename, RenameFails, Kill, disk
<1>j. /\ ~job[p].dry /\ ~job[p].dir /\ r \in ToSet(Home) /\ result'[p] = "installed"
      /\ job[p] \in Jobs /\ job[p].skills \in Seq(ToSet(Skills))
    BY <1>d, <1>u, JobType DEF Supersedes, DataType
<1>o. s \in ToSet(Skills) /\ old \in OldSkill /\ f \in File
    BY <1>j, OldFile
<1>x. /\ copy.path = <<r, s>> /\ copy.retires = FALSE
      /\ retire.path = <<r, old>> /\ retire.retires = TRUE
    BY DEF Copy, Retire
<1>h. Handled(p, s, old)' <=> \/ copy \in ToSet(todo'[p]) \/ retire \in ToSet(todo'[p])
                              \/ Gone(p, f)'
    BY <1>u DEF Handled
<1>f. f' = f /\ Gone(p, f)' = (file'[f] = "absent" \/ f \in again'[p] \/ f \in CopyFiles')
    BY <1>u DEF Gone
<1>. HIDE DEF copy, retire, f, s, r
<1>1. CASE Start(p)
    <2>1. job[p].kind # "update"
        BY <1>1, <1>j DEF Start, RetireInv
    <2>2. InsideAll(job[p])
        BY <1>1, <1>d, <1>j, <2>1 DEF Start, Report, DataType
    <2>3. todo'[p] = Installs(job[p])
        BY <1>1, <1>d, <2>1, <2>2 DEF Start, Proceed, WorkType
    <2>4. i \in DOMAIN Installs(job[p]) /\ Installs(job[p])[i] = copy
        BY DEF Installs, copy, s, r
    <2>5. copy \in ToSet(Installs(job[p]))
        BY <2>4 DEF ToSet
    <2>. QED
        BY <1>h, <2>3, <2>5 DEF s
<1>2. CASE ~Start(p)
    <2>1. result[p] = "installed" /\ result'[p] = result[p]
        BY <1>2, <1>d, <1>j DEF Step, LookInstall, LookUpdate, Truncate, Fill, WriteFails, ChooseName,
                          Rename, RenameFails, Kill, Report, Warn, DataType
    <2>2. job[p].kind = "install" /\ pc[p] # "start" /\ Handled(p, s, old)
        BY <1>j, <2>1 DEF RetireInv, Supersedes, s, r
    <2>3. copy \in ToSet(todo[p]) \/ retire \in ToSet(todo[p]) \/ Gone(p, f)
        BY <2>2 DEF Handled, copy, retire, f, r
    <2>4. Gone(p, f) => Gone(p, f)'
        BY <1>o, <1>u, <2>2, GoneStays DEF f, r
    <2>5. pc[p] # "done"
        BY <1>2 DEF Step, LookInstall, LookUpdate, Truncate, Fill, WriteFails, ChooseName,
                    Rename, RenameFails, Kill
    <2>6. /\ todo[p] \in Seq(Items) /\ todo[p] # <<>> /\ Item(p) = Head(todo[p])
          /\ Target(p) = link[Item(p).path]
        BY <2>2, <2>5, TargetType DEF Item, Target
    <2>7. CASE todo' = todo
        BY <1>h, <2>3, <2>4, <2>7 DEF s
    <2>8. ASSUME todo'[p] = Tail(todo[p]), Item(p) # copy, Item(p) = retire => Gone(p, f)'
          PROVE  Handled(p, s, old)'
        <3>1. copy \in ToSet(todo[p]) => copy \in ToSet(todo'[p])
            BY <2>6, <2>8, ToSetTail
        <3>2. retire \in ToSet(todo[p]) => retire \in ToSet(todo'[p]) \/ Gone(p, f)'
            BY <2>6, <2>8, ToSetTail
        <3>. QED
            BY <1>h, <2>3, <2>4, <3>1, <3>2
    <2>9. CASE LookInstall(p) \/ LookUpdate(p) \/ Truncate(p)
        <3>1. todo' = todo
            BY <1>d, <1>j, <2>1, <2>2, <2>9 DEF LookInstall, LookUpdate, Truncate, Report, DataType
        <3>. QED
            BY <2>7, <3>1
    <2>10. CASE Fill(p)
        <3>1. pc[p] = "fill" /\ todo'[p] = Supersede(p) \o Tail(todo[p])
            BY <1>d, <2>10 DEF Fill, Installed, Proceed, WorkType
        <3>2. Supersede(p) \in Seq(Items) /\ Tail(todo[p]) \in Seq(Items)
            BY <2>6, <3>1, SupersedeType
        <3>3. ~Item(p).retires
            BY <1>d, <3>1 DEF AtWork
        <3>4. \A x \in ToSet(Supersede(p)) \cup ToSet(Tail(todo[p])) : x \in ToSet(todo'[p])
            BY <3>1, <3>2, ToSetConcat
        <3>5. CASE Item(p) = copy
            <4>1. Item(p).path[2] = s
                BY <1>x, <3>5
            <4>2. retire \in ToSet(Supersede(p))
                BY <1>j, <2>2, <3>1, <4>1, SupersedeType DEF retire, r, s
            <4>. QED
                BY <1>h, <3>4, <4>2 DEF s
        <3>6. CASE Item(p) # copy
            <4>1. retire # Item(p)
                BY <1>x, <3>3
            <4>2. \A x \in {copy, retire} : x \in ToSet(todo[p]) => x \in ToSet(Tail(todo[p]))
                BY <2>6, <3>6, <4>1, ToSetTail
            <4>. QED
                BY <1>h, <2>3, <2>4, <3>4, <4>2 DEF s
        <3>. QED
            BY <3>5, <3>6
    <2>11. CASE ChooseName(p)
        <3>1. CASE Proceed(p, Tail(todo[p]))
            <4>1. file[Target(p)] = "absent" /\ file' = file /\ pc[p] = "retire"
                BY <1>d, <1>j, <2>6, <2>11, <3>1 DEF ChooseName, disk, Proceed, Goto, AtWork, WorkType
            <4>2. Item(p) = retire => Gone(p, f)'
                BY <1>f, <1>x, <2>6, <4>1 DEF f
            <4>3. Item(p) # copy /\ todo'[p] = Tail(todo[p])
                BY <1>d, <1>x, <3>1, <4>1 DEF Proceed, AtWork, WorkType
            <4>. QED
                BY <2>8, <4>2, <4>3 DEF s
        <3>2. CASE todo' = todo
            BY <2>7, <3>2
        <3>. QED
            BY <2>11, <3>1, <3>2 DEF ChooseName
    <2>12. CASE Rename(p)
        <3>1. pc[p] = "rename" /\ todo'[p] = Tail(todo[p])
            BY <1>d, <2>12 DEF Rename, Proceed, WorkType
        <3>2. file' = [file EXCEPT ![Target(p)] = "absent"]
            BY <1>d, <2>1, <2>12 DEF Rename, Warn, Report, DataType
        <3>3. Item(p) = retire => Gone(p, f)'
            BY <1>d, <1>f, <1>o, <1>x, <2>6, <3>2 DEF f, DataType
        <3>. QED
            BY <1>d, <1>x, <2>8, <3>1, <3>3 DEF AtWork, s
    <2>13. CASE RenameFails(p) \/ WriteFails(p) \/ Kill(p)
        BY <1>d, <2>1, <2>13 DEF RenameFails, WriteFails, Kill, Warn, Report, DataType
    <2>. QED
        BY <1>2, <2>9, <2>10, <2>11, <2>12, <2>13 DEF Step, s
<1>. QED
    BY <1>1, <1>2

\* Steps of others leave a run its items, and what is gone.
LEMMA HandledByOthers ==
    ASSUME SkillsAssumption, RunInv, RetireInv, Next, NEW p \in Run, UNCHANGED <<link, job>>,
           result'[p] = result[p], todo'[p] = todo[p], Supersedes(p)',
           NEW i \in DOMAIN job[p].skills, NEW old \in ToSet(Replaces[job[p].skills[i]])
    PROVE  Handled(p, job[p].skills[i], old)'
<1>1. Supersedes(p)
    BY DEF Supersedes
<1>2. Handled(p, job[p].skills[i], old) /\ pc[p] # "start" /\ job[p].root \in ToSet(Home)
    BY <1>1 DEF RetireInv, Supersedes
<1>3. link[<<job[p].root, old>>] \in File
    BY <1>2, OldFile
<1>4. Gone(p, link[<<job[p].root, old>>]) => Gone(p, link[<<job[p].root, old>>])'
    BY <1>2, <1>3, GoneStays
<1>. QED
    BY <1>2, <1>4 DEF Handled

LEMMA RetireStep ==
    ASSUME SkillsAssumption, RunInv, RetireInv, [Next]_vars
    PROVE  RetireInv'
<1>d. DataType /\ WorkType /\ \A q \in Run : AtWork(q)
    BY DEF RunInv
<1>1. CASE UNCHANGED vars
    BY <1>1 DEF vars, RetireInv, Supersedes, Handled, Gone, CopyFiles
<1>2. CASE Next
    <2>. SUFFICES ASSUME NEW p \in Run
                  PROVE  (/\ result[p] = "installed" => pc[p] # "start" /\ job[p].kind = "install"
                          /\ Supersedes(p) =>
                                 \A i \in DOMAIN job[p].skills :
                                     \A old \in ToSet(Replaces[job[p].skills[i]]) :
                                         Handled(p, job[p].skills[i], old))'
        BY DEF RetireInv
    <2>1. ASSUME Step(p)
          PROVE  (/\ result[p] = "installed" => pc[p] # "start" /\ job[p].kind = "install"
                  /\ Supersedes(p) =>
                         \A i \in DOMAIN job[p].skills :
                             \A old \in ToSet(Replaces[job[p].skills[i]]) :
                                 Handled(p, job[p].skills[i], old))'
        <3>1. UNCHANGED job
            BY <2>1 DEF Step, Start, LookInstall, LookUpdate, Truncate, Fill, WriteFails,
                        ChooseName, Rename, RenameFails, Kill
        <3>2. pc'[p] # "start"
            BY <1>d, <2>1 DEF Step, Start, LookInstall, LookUpdate, Truncate, Fill, WriteFails,
                              ChooseName, Rename, RenameFails, Kill, Proceed, Goto, Installed,
                              WorkType
        <3>3. result'[p] = "installed" => job[p].kind = "install"
            <4>1. CASE Start(p)
                <5>1. job[p].kind \in {"install", "update"}
                    BY <1>d, JobType DEF DataType
                <5>. QED
                    BY <4>1, <5>1 DEF Start, RetireInv
            <4>2. CASE ~Start(p)
                <5>1. result'[p] = "installed" => result[p] = "installed"
                    BY <1>d, <2>1, <4>2 DEF Step, LookInstall, LookUpdate, Truncate, Fill, WriteFails,
                                           ChooseName, Rename, RenameFails, Kill, Report, Warn, DataType
                <5>. QED
                    BY <5>1 DEF RetireInv
            <4>. QED
                BY <4>1, <4>2
        <3>. QED
            BY <1>2, <2>1, <3>1, <3>2, <3>3, HandledStep
    <2>2. ASSUME UNCHANGED <<link, job>>, result'[p] = result[p], todo'[p] = todo[p], pc'[p] = pc[p]
          PROVE  (/\ result[p] = "installed" => pc[p] # "start" /\ job[p].kind = "install"
                  /\ Supersedes(p) =>
                         \A i \in DOMAIN job[p].skills :
                             \A old \in ToSet(Replaces[job[p].skills[i]]) :
                                 Handled(p, job[p].skills[i], old))'
        BY <1>2, <2>2, HandledByOthers DEF RetireInv
    <2>3. ASSUME NEW q \in Run \ {p}, Step(q)
          PROVE  UNCHANGED <<link, job>> /\ result'[p] = result[p] /\ todo'[p] = todo[p]
                 /\ pc'[p] = pc[p]
        <3>1. UNCHANGED <<link, job>>
            BY <2>3 DEF Step, Start, LookInstall, LookUpdate, Truncate, Fill, WriteFails, ChooseName,
                        Rename, RenameFails, Kill, disk
        <3>2. result'[p] = result[p]
            BY <1>d, <2>3 DEF Step, Start, LookInstall, LookUpdate, Truncate, Fill, WriteFails,
                              ChooseName, Rename, RenameFails, Kill, Report, Warn, DataType
        <3>3. todo'[p] = todo[p] /\ pc'[p] = pc[p]
            BY <1>d, <2>3 DEF Step, Start, LookInstall, LookUpdate, Truncate, Fill, WriteFails,
                              ChooseName, Rename, RenameFails, Kill, Proceed, Goto, Installed,
                              WorkType
        <3>. QED
            BY <3>1, <3>2, <3>3
    <2>4. ASSUME \/ \E f \in File, e \in Edit : Save(f, e)
                 \/ \E d \in OldSkill : OldInstall(d)
          PROVE  UNCHANGED <<link, job>> /\ result'[p] = result[p] /\ todo'[p] = todo[p]
                 /\ pc'[p] = pc[p]
        BY <2>4 DEF Save, OldInstall
    <2>. QED
        BY <1>2, <2>1, <2>2, <2>3, <2>4 DEF Next
<1>. QED
    BY <1>1, <1>2

LEMMA RetireAlways == Spec => []RetireInv
<1>1. Init => RetireInv
    BY DEF Init, RetireInv, Supersedes
<1>2. SkillsAssumption /\ RunInv /\ RetireInv /\ [Next]_vars => RetireInv'
    BY RetireStep
<1>. QED
    BY <1>1, <1>2, RunAlways, SkillsAssumption, PTL DEF Spec

(* An install that ends reporting nothing amiss leaves no copy of a skill it *)
(* supersedes, but one that somebody put there under it, or that a link      *)
(* makes the copy of a skill there is.                                       *)
THEOREM NeverBothSkills == Spec => NeverBoth
<1>. DEFINE End(p) ==
         /\ pc[p] # "done" /\ pc'[p] = "done" /\ result'[p] = "installed"
         /\ ~job[p].dry /\ ~job[p].dir /\ job[p].root \in ToSet(Home)
<1>1. RunInv' /\ RetireInv' /\ [Next]_vars => [\A p \in Run : End(p) => OldGone(p)']_vars
    <2>. SUFFICES ASSUME RunInv', RetireInv', Next, NEW p \in Run, End(p)
                  PROVE  OldGone(p)'
        OBVIOUS
    <2>1. UNCHANGED job
        BY DEF Next, Step, Start, LookInstall, LookUpdate, Truncate, Fill, WriteFails,
               ChooseName, Rename, RenameFails, Kill, Save, OldInstall
    <2>2. todo'[p] = <<>>
        BY DEF RunInv, AtWork
    <2>3. \A x : x \notin ToSet(todo'[p])
        BY <2>2 DEF ToSet
    <2>4. Supersedes(p)'
        BY <2>1 DEF Supersedes
    <2>5. \A i \in DOMAIN job'[p].skills : \A old \in ToSet(Replaces[job'[p].skills[i]]) :
              Handled(p, job[p].skills[i], old)'
        BY <2>4 DEF RetireInv
    <2>. QED
        BY <2>3, <2>5 DEF Handled, Gone, OldGone
<1>. QED
    BY <1>1, RunAlways, RetireAlways, PTL DEF Spec, NeverBoth
=============================================================================
