------------------------------ MODULE Upgrade ------------------------------
(***************************************************************************)
(* `plivo upgrade` (cmd/upgrade.go, internal/release): download a release  *)
(* to <exe>.upgrade.tmp, check its SHA-256 and the signature over the      *)
(* checksums, and rename it over the running binary.  All upgrades of one  *)
(* binary write the same temporary file, and nothing keeps two of them     *)
(* apart.                                                                  *)
(*                                                                         *)
(* Files are inodes behind names: an upgrade goes on writing the inode it  *)
(* opened when the name has meanwhile been removed or renamed.             *)
(***************************************************************************)
EXTENDS Naturals, FiniteSets

CONSTANTS
    Proc,           \* invocations of `plivo upgrade`
    Release,        \* release tags, as numbers in the order of versions
    FirstSigned,    \* FirstSignedRelease
    SigOf,          \* the signature each release is published with
    Size,           \* pieces a binary is downloaded in
    Machines,       \* machines considered: with cosign or not, Windows or not
    Overlap,        \* BOOLEAN: may two upgrades run at once
    MaxFaults,      \* bound: downloads, renames and reads that go wrong
    MaxKills,       \* bound: upgrades killed
    NoFile

Name == {"exe", "tmp", "old"}
Inode == 1..(Cardinality(Name) + Cardinality(Proc))

ASSUME UpgradeAssumption ==
    /\ IsFiniteSet(Proc)
    /\ Release \subseteq Nat \ {0} /\ FirstSigned \in Nat
    /\ SigOf \in [Release -> {"none", "valid", "invalid"}]
    /\ Size \in Nat \ {0} /\ MaxFaults \in Nat /\ MaxKills \in Nat
    /\ Machines \subseteq [cosign : BOOLEAN, windows : BOOLEAN]
    \* Two upgrades at once also lock each other's files on Windows, which is
    \* not modelled.
    /\ Overlap \in BOOLEAN /\ (Overlap => \A m \in Machines : ~m.windows)
    /\ NoFile \notin Inode

VARIABLES
    name,       \* the inode behind each name, or NoFile
    data,       \* the pieces of each inode: 0 where nothing is written
    machine,    \* the machine
    pc,         \* where each upgrade is
    current,    \* the version it runs
    target,     \* the release it installs
    unsigned,   \* PLIVO_ALLOW_UNSIGNED
    fd, pos,    \* the inode it downloads to, and the pieces it has written
    faults, kills

files == <<name, data>>
args == <<current, target, unsigned>>
vars == <<files, machine, pc, args, fd, pos, faults, kills>>

Stages == {"idle", "open", "download", "sums", "signature", "swap", "aside",
           "done", "failed", "killed"}
Working(p) == pc[p] \notin {"idle", "done", "failed", "killed"}

Blank == [i \in 1..Size |-> 0]
Binary(v) == [i \in 1..Size |-> v]

\* The file called n is release v, whole.
Holds(n, v) == name[n] # NoFile /\ data[name[n]] = Binary(v)

TypeOK ==
    /\ name \in [Name -> Inode \cup {NoFile}]
    /\ data \in [Inode -> [1..Size -> Release \cup {0}]]
    /\ machine \in Machines
    /\ pc \in [Proc -> Stages]
    /\ current \in [Proc -> Release \cup {0}] /\ target \in [Proc -> Release \cup {0}]
    /\ unsigned \in [Proc -> BOOLEAN]
    /\ fd \in [Proc -> Inode \cup {NoFile}] /\ pos \in [Proc -> 0..Size]
    /\ \A p \in Proc : (fd[p] # NoFile) <=> (pc[p] = "download")
    /\ \A m, n \in Name : m # n /\ name[m] # NoFile => name[m] # name[n]
    /\ faults \in 0..MaxFaults /\ kills \in 0..MaxKills

Init ==
    /\ name = [n \in Name |-> IF n = "exe" THEN 1 ELSE NoFile]
    /\ \E v \in Release : data = [i \in Inode |-> IF i = 1 THEN Binary(v) ELSE Blank]
    /\ machine \in Machines
    /\ pc = [p \in Proc |-> "idle"]
    /\ current = [p \in Proc |-> 0] /\ target = [p \in Proc |-> 0]
    /\ unsigned = [p \in Proc |-> FALSE]
    /\ fd = [p \in Proc |-> NoFile] /\ pos = [p \in Proc |-> 0]
    /\ faults = 0 /\ kills = 0

-----------------------------------------------------------------------------
Fault == faults < MaxFaults /\ faults' = faults + 1
Goto(p, stage) == pc' = [pc EXCEPT ![p] = stage]
Close(p) == fd' = [fd EXCEPT ![p] = NoFile] /\ pos' = [pos EXCEPT ![p] = 0]

\* Inodes nobody names or writes any more hold nothing.
Reclaim(d) == [i \in Inode |->
    IF (\E n \in Name : name'[n] = i) \/ (\E p \in Proc : fd'[p] = i) THEN d[i] ELSE Blank]

Remove(n) == name' = [name EXCEPT ![n] = NoFile]
Rename(m, n) == name' = [name EXCEPT ![n] = name[m], ![m] = NoFile]

\* The download is of no use: it is removed, under the name all upgrades share.
GiveUp(p) ==
    /\ Goto(p, "failed")
    /\ Close(p)
    /\ Remove("tmp")
    /\ data' = Reclaim(data)

IsNewer(v, w) == w > v

\* The release is looked up, and is newer than the binary that runs, or
\* --force is given.  Everything else ends the command here.
Start(p) ==
    /\ pc[p] = "idle"
    /\ Overlap \/ \A q \in Proc : ~Working(q)
    /\ \E v, w \in Release, force, allow \in BOOLEAN :
        /\ Holds("exe", v)
        /\ IsNewer(v, w) \/ force
        /\ current' = [current EXCEPT ![p] = v]
        /\ target' = [target EXCEPT ![p] = w]
        /\ unsigned' = [unsigned EXCEPT ![p] = allow]
    /\ Goto(p, "open")
    /\ UNCHANGED <<files, machine, fd, pos, faults, kills>>

NewInode == CHOOSE i \in Inode : (\A n \in Name : name[n] # i) /\ (\A q \in Proc : fd[q] # i)

\* O_CREATE|O_TRUNC: a file left by another upgrade is emptied and used.
Open(p) ==
    /\ pc[p] = "open"
    /\ LET i == IF name["tmp"] # NoFile THEN name["tmp"] ELSE NewInode IN
           /\ name' = [name EXCEPT !["tmp"] = i]
           /\ data' = [data EXCEPT ![i] = Blank]
           /\ fd' = [fd EXCEPT ![p] = i]
    /\ pos' = [pos EXCEPT ![p] = 0]
    /\ Goto(p, "download")
    /\ UNCHANGED <<machine, args, faults, kills>>

OpenFails(p) ==
    /\ pc[p] = "open"
    /\ Fault
    /\ Goto(p, "failed")
    /\ UNCHANGED <<files, machine, args, fd, pos, kills>>

\* One piece of the answer is written; the server may send another one.
Download(p) ==
    /\ pc[p] = "download" /\ pos[p] < Size
    /\ pos' = [pos EXCEPT ![p] = @ + 1]
    /\ \/ data' = [data EXCEPT ![fd[p]][pos[p] + 1] = target[p]] /\ UNCHANGED faults
       \/ Fault /\ UNCHANGED data
    /\ UNCHANGED <<name, machine, pc, args, fd, kills>>

\* The answer is an error, ends early, or takes longer than 60 seconds.
DownloadFails(p) ==
    /\ pc[p] = "download" /\ pos[p] < Size
    /\ Fault
    /\ GiveUp(p)
    /\ UNCHANGED <<machine, args, kills>>

\* Mutant: the file is not closed.
Downloaded_LeavesOpen(p) ==
    /\ pc[p] = "download" /\ pos[p] = Size
    /\ Goto(p, "sums")
    /\ UNCHANGED <<files, machine, args, fd, pos, faults, kills>>

Downloaded(p) ==
    /\ pc[p] = "download" /\ pos[p] = Size
    /\ Close(p)
    /\ Goto(p, "sums")
    /\ UNCHANGED <<files, machine, args, faults, kills>>

-----------------------------------------------------------------------------
(* Verification *)

\* Mutant: a file of the right size is taken for the release.
CheckSums_SizeOnly(p) ==
    /\ pc[p] = "sums"
    /\ IF name["tmp"] # NoFile
       THEN Goto(p, "signature") /\ UNCHANGED <<files, fd, pos, faults>>
       ELSE GiveUp(p) /\ UNCHANGED faults
    /\ UNCHANGED <<machine, args, kills>>

\* The file that has the name now is read.
VerifyChecksum(p) == Holds("tmp", target[p])

\* The manifest may be missing, or not name the binary.
CheckSums(p) ==
    /\ pc[p] = "sums"
    /\ \/ VerifyChecksum(p) /\ Goto(p, "signature") /\ UNCHANGED <<files, fd, pos, faults>>
       \/ ~VerifyChecksum(p) /\ GiveUp(p) /\ UNCHANGED faults
       \/ Fault /\ GiveUp(p)
    /\ UNCHANGED <<machine, args, kills>>

SigningRequired(v) == v >= FirstSigned
MustVerify(p) == SigningRequired(target[p]) /\ ~unsigned[p]

\* One of the trusted identities signed the manifest.
VerifySignature(v) == SigOf[v] = "valid"

\* Mutant: a signature that cannot be fetched is not required.
Unchecked_Skipped(p) == TRUE

\* The signature is not there, or cannot be fetched: fatal if required.
Unchecked(p) == ~MustVerify(p)

\* verifyManifestSignature: a signature that is there and does not verify is
\* always fatal; without cosign one that is there is not looked at.
CheckSignature(p) ==
    /\ pc[p] = "signature"
    /\ \E accepted \in BOOLEAN :
        /\ \/ SigOf[target[p]] = "none" /\ accepted = Unchecked(p) /\ UNCHANGED faults
           \/ SigOf[target[p]] # "none" /\ ~machine.cosign /\ accepted = TRUE /\ UNCHANGED faults
           \/ SigOf[target[p]] # "none" /\ machine.cosign /\
                \/ accepted = VerifySignature(target[p]) /\ UNCHANGED faults
                \/ accepted = Unchecked(p) /\ Fault      \* staging or a download fails
                \/ accepted = FALSE /\ Fault             \* cosign fails or is killed after 30 s
        /\ IF accepted THEN Goto(p, "swap") /\ UNCHANGED <<files, fd, pos>> ELSE GiveUp(p)
    /\ UNCHANGED <<machine, args, kills>>

-----------------------------------------------------------------------------
(* atomicReplace *)

\* Elsewhere than on Windows: one rename, of the file that has the name now.
Swap(p) ==
    /\ pc[p] = "swap" /\ ~machine.windows
    /\ \/ /\ name["tmp"] # NoFile
          /\ UNCHANGED <<fd, pos, faults>>
          /\ Rename("tmp", "exe")
          /\ data' = Reclaim(data)
          /\ Goto(p, "done")
       \/ name["tmp"] = NoFile /\ GiveUp(p) /\ UNCHANGED faults
       \/ Fault /\ GiveUp(p)
    /\ UNCHANGED <<machine, args, kills>>

\* On Windows the binary is moved aside first, over one an earlier upgrade
\* left there.
MoveAside(p) ==
    /\ pc[p] = "swap" /\ machine.windows
    /\ \/ /\ name["exe"] # NoFile
          /\ UNCHANGED <<fd, pos, faults>>
          /\ Rename("exe", "old")
          /\ data' = Reclaim(data)
          /\ Goto(p, "aside")
       \/ name["exe"] = NoFile /\ GiveUp(p) /\ UNCHANGED faults
       \/ Fault /\ GiveUp(p)
    /\ UNCHANGED <<machine, args, kills>>

\* The binary moved aside comes back, and the download is removed.
Revert == name' = [name EXCEPT !["exe"] = name["old"], !["old"] = NoFile, !["tmp"] = NoFile]

\* The new binary gets the name, or the old one gets it back.
MoveIn(p) ==
    /\ pc[p] = "aside"
    /\ \/ name["tmp"] # NoFile /\ Rename("tmp", "exe") /\ Goto(p, "done") /\ UNCHANGED faults
       \/ name["tmp"] = NoFile /\ Revert /\ Goto(p, "failed") /\ UNCHANGED faults
       \/ Fault /\ Revert /\ Goto(p, "failed")
       \* Neither rename works.
       \/ faults + 2 <= MaxFaults /\ faults' = faults + 2 /\ Remove("tmp") /\ Goto(p, "failed")
    /\ UNCHANGED <<machine, args, fd, pos, kills>>
    /\ data' = Reclaim(data)

-----------------------------------------------------------------------------
\* The process ends where it is: Ctrl-C, a lost terminal, SIGKILL.
Kill(p) ==
    /\ Working(p) /\ kills < MaxKills
    /\ kills' = kills + 1
    /\ Goto(p, "killed")
    /\ Close(p)
    /\ UNCHANGED <<name, machine, args, faults>>
    /\ data' = Reclaim(data)

Step(p) ==
    \/ Start(p) \/ Open(p) \/ OpenFails(p)
    \/ Download(p) \/ DownloadFails(p) \/ Downloaded(p)
    \/ CheckSums(p) \/ CheckSignature(p) \/ Swap(p) \/ MoveAside(p) \/ MoveIn(p)

Next == \E p \in Proc : Step(p) \/ Kill(p)

Spec == Init /\ [][Next]_vars

-----------------------------------------------------------------------------
(* Properties *)

(***************************************************************************)
(* "Atomically replaces the running binary": at every moment, whatever     *)
(* fails or is killed, the binary is one whole release.  On Windows it may *)
(* be out of its place, and is then whole where it was moved aside.        *)
(***************************************************************************)
BinaryWhole ==
    \E v \in Release : Holds("exe", v) \/ (machine.windows /\ name["exe"] = NoFile /\ Holds("old", v))

(***************************************************************************)
(* An upgrade that says it is done has installed the release it was asked  *)
(* for, whole; and that release is signed, or need not be, or its          *)
(* signature could not be looked at for want of cosign.                    *)
(***************************************************************************)
Trusted(p) ==
    \/ SigOf[target[p]] = "valid"
    \/ SigOf[target[p]] # "none" /\ ~machine.cosign
    \/ ~MustVerify(p) /\ (SigOf[target[p]] = "none" \/ faults > 0)   \* none, or not fetched

DoneIsInstalled ==
    [][\A p \in Proc : pc[p] # "done" /\ pc'[p] = "done" =>
            Holds("exe", target[p])' /\ Trusted(p)]_vars

(***************************************************************************)
(* An upgrade that fails leaves the binary it was started from in place;   *)
(* on Windows it is still whole aside when it could not be moved back.     *)
(***************************************************************************)
FailedIsUnchanged ==
    [][\A p \in Proc : pc[p] # "failed" /\ pc'[p] = "failed" =>
            \/ Holds("exe", current[p])'
            \/ faults' = faults + 2 /\ Holds("old", current[p])']_vars

\* What an upgrade says of itself at its end, done or failed, is true.
VerdictIsTrue == DoneIsInstalled /\ FailedIsUnchanged
=============================================================================
