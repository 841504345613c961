----------------------------- MODULE MCForward -----------------------------
(* Instances of Forward for TLC. *)
EXTENDS Forward

CONSTANTS own1, own2, domain, stray

\* The owner may already use an ngrok domain.
OwnStart == {own1, domain}
StrayStart == {stray}
AnyStart == OwnStart \cup StrayStart
=============================================================================
