------------------------------ MODULE MCStreams ------------------------------
(* One call of two media frames and one answer: a test through the bridge,   *)
(* tests straight to the endpoint, and simulate with and without its call.   *)
EXTENDS Streams

Run(c, l, b) == [command |-> c, listen |-> l, bridged |-> b]
TheRuns == {Run("test", "expect", TRUE), Run("test", "no", FALSE), Run("test", "count", FALSE),
            Run("simulate", "expect", FALSE), Run("xml-only", "no", FALSE)}
=============================================================================
