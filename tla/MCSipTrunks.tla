---------------------------- MODULE MCSipTrunks ----------------------------
(* Instances of SipTrunks for TLC. *)
EXTENDS SipTrunks, TLC

CONSTANTS c1, c2, t1, t2, t3, u1, u2, n1, n2

TwoTrunks == {t1, t2}
OneOrTwoNumbers == {{n1}, {n1, n2}}

\* The row of a third trunk is before or behind the others, and so is that of
\* a second number: together, since only one of the two comes in a behaviour.
AnyPlace ==
    {(t1 :> 1 @@ t2 :> 2 @@ t3 :> i @@ n1 :> 5 @@ n2 :> 4 + i) : i \in {0, 3}}

\* Commands on one URI and one trunk; the initial states and the other
\* changes vary what the rest of the account looks like.
EveryJob ==
    {j \in AllJobs : j.target \in {t1, u1} /\ (j.kind = "trunk update" => j.fallback # u2)}

\* A second number matters to the walk over the numbers, not to the trunks' URIs.
FirstInit ==
    /\ Init
    /\ Cardinality(numbers) > 1 =>
        /\ \A t \in trunks : fields[t] = Unlisted
        /\ \A n \in Number : route[n] \in {t1, NoTrunk}
FirstSpec == FirstInit /\ [][Next]_vars

CmdSymmetry == Permutations(Cmd)
=============================================================================
