--------------------------- MODULE MCCredentials ---------------------------
(* Instances of Credentials for TLC. *)
EXTENDS Credentials, TLC

CONSTANTS A, B

Symmetry == Permutations(Cmd) \cup Permutations(Org)

\* Of the two organizations, A is the one an earlier command logged in first;
\* and of all that the keychain refused or kept before, one trace is left.
Traces ==
    {n \in Name : config.profiles[n].token # NoToken} \cup
    {n \in Name : ~Store!Has(config, n) /\ keychain[n] # NoToken}

FirstInit ==
    /\ Init
    /\ config.profiles[1].org # B
    /\ config.profiles[1].org = NoOrg => config.profiles[2].org # B
    /\ Cardinality(Traces) <= 1

FirstSpec == FirstInit /\ [][Next]_vars /\ Fairness
=============================================================================
