---------------------------- MODULE MCInvocation ----------------------------
(* The commands of Commands as instances of Invocation. *)
EXTENDS Invocation

C == INSTANCE Commands

OneWriteCommands == C!OneWrite
\* Endpoints, with and without --agent.
EndpointCommands == C!runEndpointCreate \cup C!runEndpointUpdate

\* What the theorems ask of a command holds of every one that sends one write,
\* and but for the place of the write of every other.
ASSUME CommandsWellMade ==
    /\ \A p \in OneWriteCommands : ClientFirst(p) /\ Gated(p) /\ OneWriteLast(p)
    /\ \A p \in C!EveryCommand : ClientFirst(p) /\ Gated(p) /\ ListLast(p)
=============================================================================
