----------------------------- MODULE MCUpgrade -----------------------------
(* Instances of Upgrade for TLC. *)
EXTENDS Upgrade, TLC

CONSTANTS p1, p2

\* Release 1 is older than signing; of the others one is signed, one is not,
\* and one carries a signature that does not verify.
Signatures == (1 :> "none" @@ 2 :> "valid" @@ 3 :> "none" @@ 4 :> "invalid")

AnyMachine == [cosign : BOOLEAN, windows : BOOLEAN]
UnixMachine == [cosign : BOOLEAN, windows : {FALSE}]

ProcSymmetry == Permutations(Proc)
=============================================================================
