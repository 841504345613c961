------------------------------- MODULE Skills -------------------------------
(***************************************************************************)
(* plivo skill install and plivo skill update: runs that write the skills  *)
(* bundled in the binary over files their owner edits, links other tools   *)
(* made, and other runs write too.  No lock is taken: a run reads a copy,  *)
(* decides whether it holds edits, and writes it.                          *)
(***************************************************************************)
EXTENDS Integers, FiniteSets, Sequences, SequencesExt

CONSTANTS
    Run,        \* runs of the CLI
    Skills,     \* bundledSkills, in their order
    OldSkill,   \* the skills earlier releases had
    Replaces,   \* Replaces[s]: the old skills that s supersedes, in their order
    Home,       \* the agents' skills folders in the home directory
    Repo,       \* and in the repository, in the order an update visits them
    Claude,     \* the home folder that can hold an old skill
    File,       \* what SKILL.md paths resolve to
    Outside,    \* the files among them outside the repository
    Links,      \* the ways paths may resolve to files
    Initial,    \* what may be installed before
    Edit,       \* versions someone saves
    Jobs,       \* what a run may be asked
    MaxRetired  \* bound: retired copies of one skill before it is installed again

VARIABLES
    link,      \* the file each path resolves to
    file,      \* the file's content
    retired,   \* what was kept beside the file as SKILL.md.retired, .2, ...
    job, pc,
    todo,      \* what the run has still to do
    seen,      \* files an update has looked at
    name,      \* the .retired name a run has chosen
    result,
    saved,     \* edits saved so far
    excused,   \* edits whose loss the command does not rule out
    again      \* files someone else wrote while the run was under way

vars == <<link, file, retired, job, pc, todo, seen, name, result, saved, excused, again>>

Root == ToSet(Home) \cup ToSet(Repo)
Path == (Root \X ToSet(Skills)) \cup (ToSet(Home) \X OldSkill)

\* "partial": truncated, and not yet or never filled.
Contents == {"absent", "partial", "shipped", "bundled"} \cup Edit

AllJobs == [kind : {"install", "update"}, skills : {Skills} \cup {<<s>> : s \in ToSet(Skills)},
            root : Root, dir : BOOLEAN, force : BOOLEAN, dry : BOOLEAN]

ASSUME SkillsAssumption ==
    /\ Skills \in Seq(ToSet(Skills)) /\ Replaces \in [ToSet(Skills) -> Seq(OldSkill)]
    /\ Home \in Seq(ToSet(Home)) /\ Repo \in Seq(ToSet(Repo))
    /\ Claude \in ToSet(Home) /\ ToSet(Home) \cap ToSet(Repo) = {}
    /\ Outside \subseteq File /\ Links \subseteq [Path -> File]
    /\ Initial \subseteq [File -> {"absent", "shipped"}]
    /\ Jobs \subseteq AllJobs /\ MaxRetired \in Nat
    /\ Edit \cap {"absent", "partial", "shipped", "bundled"} = {}

Copy(root, s)     == [retires |-> FALSE, path |-> <<root, s>>]
Retire(root, old) == [retires |-> TRUE, path |-> <<root, old>>]

Installs(j) == [i \in DOMAIN j.skills |-> Copy(j.root, j.skills[i])]

\* Every folder, and every skill in each.
Updates ==
    LET Roots == Home \o Repo
        n     == Len(Skills)
    IN  [i \in 1 .. Len(Roots) * n |-> Copy(Roots[((i - 1) \div n) + 1], Skills[((i - 1) % n) + 1])]

Init ==
    /\ link \in Links
    /\ file \in Initial
    /\ retired = [f \in File |-> <<>>]
    /\ job \in [Run -> Jobs]
    /\ pc = [p \in Run |-> "start"]
    /\ todo = [p \in Run |-> <<>>]
    /\ seen = [p \in Run |-> {}]
    /\ name = [p \in Run |-> 0]
    /\ result = [p \in Run |-> "none"]
    /\ saved = {} /\ excused = {}
    /\ again = [p \in Run |-> {}]

-----------------------------------------------------------------------------

Item(p)   == Head(todo[p])
Target(p) == link[Item(p).path]

\* skillEdited: neither the bundled version nor one a release shipped.
Edited(c) == c \notin {"bundled", "shipped"}

Goto(p, where) == pc' = [pc EXCEPT ![p] = where]
disk  == <<link, file, retired>>
ghost == <<saved, excused, again>>

\* The next thing to do, or the end.
Proceed(p, rest) ==
    /\ todo' = [todo EXCEPT ![p] = rest]
    /\ Goto(p, IF rest = <<>> THEN "done" ELSE IF Head(rest).retires THEN "retire" ELSE "copy")
Report(p, r) == result' = [result EXCEPT ![p] = r]

\* A skill is installed: what it replaces is retired next, in the folder it went
\* to; --dir and --project retire nothing.
Supersede(p) ==
    LET j == job[p]
        olds == Replaces[Item(p).path[2]]
    IN  IF j.kind = "update" \/ j.dir \/ j.root \in ToSet(Repo) THEN <<>>
        ELSE [i \in DOMAIN olds |-> Retire(j.root, olds[i])]
Installed(p) == Proceed(p, Supersede(p) \o Tail(todo[p]))

InsideAll_First(j) ==   \* mutant: only the first skill's path
    j.root \in ToSet(Repo) => link[<<j.root, j.skills[1]>>] \notin Outside
\* projectWritesInside: every path of the install, before any is written.
InsideAll(j) ==
    j.root \in ToSet(Repo) =>
        \A i \in DOMAIN j.skills : link[<<j.root, j.skills[i]>>] \notin Outside

Start(p) ==
    /\ pc[p] = "start"
    /\ IF job[p].kind = "update"
       THEN Proceed(p, Updates) /\ UNCHANGED result
       ELSE IF InsideAll(job[p])
       THEN Proceed(p, Installs(job[p])) /\ Report(p, "installed")
       ELSE Proceed(p, <<>>) /\ Report(p, "refused")
    /\ UNCHANGED <<disk, job, seen, name, ghost>>

LookInstall_Silent(p) ==   \* mutant: a kept copy does not fail the install
    /\ pc[p] = "copy" /\ job[p].kind = "install"
    /\ LET c == file[Target(p)]
       IN  IF ~job[p].force /\ c # "absent" /\ Edited(c) THEN Proceed(p, Tail(todo[p]))
           ELSE IF job[p].dry THEN Installed(p)
           ELSE Goto(p, "write") /\ UNCHANGED todo
    /\ UNCHANGED <<disk, job, seen, name, result, ghost>>

\* installSkill: a copy that holds edits is kept, and so is what the skill
\* replaces; of a preview nothing is written.
LookInstall(p) ==
    /\ pc[p] = "copy" /\ job[p].kind = "install"
    /\ LET c == file[Target(p)]
       IN  IF ~job[p].force /\ c # "absent" /\ Edited(c)
           THEN Proceed(p, Tail(todo[p])) /\ Report(p, "kept")
           ELSE IF job[p].dry
           THEN Installed(p) /\ UNCHANGED result
           ELSE Goto(p, "write") /\ UNCHANGED <<todo, result>>
    /\ UNCHANGED <<disk, job, seen, name, ghost>>

\* runSkillUpdate: a copy that is there, not seen through another link, old,
\* unedited, and inside the repository when it was found through it.
LookUpdate(p) ==
    /\ pc[p] = "copy" /\ job[p].kind = "update"
    /\ LET f == Target(p)
           outdated == /\ f \notin seen[p] /\ file[f] \notin {"absent", "bundled"}
                       /\ job[p].force \/ ~Edited(file[f])
                       /\ Item(p).path[1] \in ToSet(Repo) => f \notin Outside
       IN  /\ IF outdated /\ ~job[p].dry
              THEN Goto(p, "write") /\ UNCHANGED todo
              ELSE Proceed(p, Tail(todo[p]))
           /\ seen' = IF file[f] = "absent" THEN seen ELSE [seen EXCEPT ![p] = @ \cup {f}]
    /\ UNCHANGED <<disk, job, name, result, ghost>>

\* os.WriteFile empties the file, then fills it.
Truncate(p) ==
    /\ pc[p] = "write"
    /\ file' = [file EXCEPT ![Target(p)] = "partial"]
    /\ excused' = excused \cup (IF job[p].force THEN {file[Target(p)]} \cap Edit ELSE {})
    /\ Goto(p, "fill")
    /\ UNCHANGED <<link, retired, job, todo, seen, name, result, saved, again>>

Fill(p) ==
    /\ pc[p] = "fill"
    /\ file' = [file EXCEPT ![Target(p)] = "bundled"]
    /\ Installed(p)
    /\ UNCHANGED <<link, retired, job, seen, name, result, ghost>>

\* A copy that update cannot read, a folder that cannot be made, or a full disk.
WriteFails(p) ==
    /\ pc[p] \in {"write", "fill"} \/ (pc[p] = "copy" /\ job[p].kind = "update")
    /\ Proceed(p, <<>>) /\ Report(p, "failed")
    /\ UNCHANGED <<disk, job, seen, name, ghost>>

ChooseName_First(p) ==   \* mutant: SKILL.md.retired, taken or not
    /\ pc[p] = "retire"
    /\ IF file[Target(p)] = "absent" \/ job[p].dry
       THEN Proceed(p, Tail(todo[p])) /\ UNCHANGED name
       ELSE name' = [name EXCEPT ![p] = 1] /\ Goto(p, "rename") /\ UNCHANGED todo
    /\ UNCHANGED <<disk, job, seen, result, ghost>>

ChooseName_Zero(p) ==   \* mutant: names counted from 0
    /\ pc[p] = "retire"
    /\ name' = [name EXCEPT ![p] = Len(retired[Target(p)])]
    /\ Goto(p, "rename")
    /\ UNCHANGED <<disk, job, todo, seen, result, ghost>>

\* retireReplacedSkills: the first free name, if there is a copy to retire.
ChooseName(p) ==
    /\ pc[p] = "retire"
    /\ IF file[Target(p)] = "absent" \/ job[p].dry
       THEN Proceed(p, Tail(todo[p])) /\ UNCHANGED name
       ELSE /\ name' = [name EXCEPT ![p] = Len(retired[Target(p)]) + 1]
            /\ Goto(p, "rename") /\ UNCHANGED todo
    /\ UNCHANGED <<disk, job, seen, result, ghost>>

Warn(p) == Report(p, IF result[p] = "installed" THEN "warned" ELSE result[p])

\* What is renamed to a name another run has chosen too may be replaced by it.
Rename(p) ==
    /\ pc[p] = "rename"
    /\ LET f == Target(p)
           c == file[f]
           contested == \E q \in Run \ {p} :
                            pc[q] = "rename" /\ Target(q) = f /\ name[q] = name[p]
       IN  IF c = "absent"
           THEN Warn(p) /\ UNCHANGED <<file, retired, excused>>
           ELSE /\ file' = [file EXCEPT ![f] = "absent"]
                /\ retired' = [retired EXCEPT ![f] =
                                IF name[p] <= Len(@) THEN [@ EXCEPT ![name[p]] = c]
                                ELSE Append(@, c)]
                /\ excused' = IF contested THEN excused \cup ({c} \cap Edit) ELSE excused
                /\ UNCHANGED result
    /\ Proceed(p, Tail(todo[p]))
    /\ UNCHANGED <<link, job, seen, name, saved, again>>

RenameFails(p) ==
    /\ pc[p] = "rename"
    /\ Proceed(p, Tail(todo[p])) /\ Warn(p)
    /\ UNCHANGED <<disk, job, seen, name, ghost>>

Kill(p) ==
    /\ pc[p] \notin {"start", "done"}
    /\ Proceed(p, <<>>) /\ Report(p, "killed")
    /\ UNCHANGED <<disk, job, seen, name, ghost>>

-----------------------------------------------------------------------------
(* Everyone else *)

Written(f) == again' = [p \in Run |-> IF pc[p] = "start" THEN again[p] ELSE again[p] \cup {f}]

\* Someone saves a version of their own, over their last one if there was one.
\* A run past its look does not see it.
Save(f, e) ==
    /\ e \notin saved
    /\ saved' = saved \cup {e}
    /\ file' = [file EXCEPT ![f] = e]
    /\ excused' = excused \cup ({file[f]} \cap Edit)
                  \cup (IF \E p \in Run : pc[p] \in {"write", "fill"} /\ Target(p) = f
                        THEN {e} ELSE {})
    /\ Written(f)
    /\ UNCHANGED <<link, retired, job, pc, todo, seen, name, result>>

\* An older binary installs the skill it has, as it always did.
OldInstall(d) ==
    /\ file[link[<<Claude, d>>]] = "absent"
    /\ Len(retired[link[<<Claude, d>>]]) < MaxRetired
    /\ file' = [file EXCEPT ![link[<<Claude, d>>]] = "shipped"]
    /\ Written(link[<<Claude, d>>])
    /\ UNCHANGED <<link, retired, job, pc, todo, seen, name, result, saved, excused>>

Step(p) ==
    \/ Start(p) \/ LookInstall(p) \/ LookUpdate(p) \/ Truncate(p) \/ Fill(p) \/ WriteFails(p)
    \/ ChooseName(p) \/ Rename(p) \/ RenameFails(p) \/ Kill(p)

Next ==
    \/ \E p \in Run : Step(p)
    \/ \E f \in File, e \in Edit : Save(f, e)
    \/ \E d \in OldSkill : OldInstall(d)

Spec == Init /\ [][Next]_vars

-----------------------------------------------------------------------------
(* Correctness *)

TypeOK ==
    /\ link \in Links
    /\ file \in [File -> Contents]
    /\ retired \in [File -> Seq(Contents \ {"absent"})]
    /\ job \in [Run -> Jobs]
    /\ pc \in [Run -> {"start", "copy", "write", "fill", "retire", "rename", "done"}]
    /\ \A p \in Run :
        /\ pc[p] \notin {"start", "done"} => todo[p] # <<>>
        /\ seen[p] \subseteq File /\ again[p] \subseteq File
        /\ pc[p] = "rename" => name[p] > 0
    /\ result \in [Run -> {"none", "installed", "kept", "refused", "warned", "failed", "killed"}]
    /\ saved \subseteq Edit /\ excused \subseteq saved

OnDisk(e) ==
    \/ \E f \in File : file[f] = e
    \/ \E f \in File : e \in ToSet(retired[f])

(***************************************************************************)
(* "A copy that matches no released version holds someone's edits, so it   *)
(* was kept", and a retired one is renamed to a free name "since the copy  *)
(* may hold edits": an edit is lost only to its owner, to --force, or when *)
(* it was saved or retired under a run that had looked already.            *)
(***************************************************************************)
EditsSurvive == \A e \in saved \ excused : OnDisk(e)

(***************************************************************************)
(* "A clone brings its links along, so one could aim the write at any file *)
(* the user can write": a file outside the repository that only paths of   *)
(* the repository resolve to is written by its owner alone.                *)
(***************************************************************************)
HomeFiles == {link[q] : q \in {r \in Path : r[1] \in ToSet(Home)}}
StaysInside ==
    \A f \in Outside \ HomeFiles :
        file[f] # "bundled" /\ \A p \in Run : pc[p] = "fill" => Target(p) # f

(***************************************************************************)
(* "So an agent never loads both": an install that reports nothing amiss   *)
(* leaves no copy of a skill it supersedes, unless someone put it back, or *)
(* a link makes it the copy of a skill there is.                           *)
(***************************************************************************)
CopyFiles == {link[q] : q \in Root \X ToSet(Skills)}
OldGone(p) ==
    \A i \in DOMAIN job[p].skills : \A old \in ToSet(Replaces[job[p].skills[i]]) :
        LET f == link[<<job[p].root, old>>]
        IN  file[f] = "absent" \/ f \in again[p] \/ f \in CopyFiles
NeverBoth ==
    [][\A p \in Run :
        /\ pc[p] # "done" /\ pc'[p] = "done" /\ result'[p] = "installed"
        /\ ~job[p].dry /\ ~job[p].dir /\ job[p].root \in ToSet(Home)
        => OldGone(p)']_vars
=============================================================================
