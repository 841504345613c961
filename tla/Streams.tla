------------------------------- MODULE Streams -------------------------------
(***************************************************************************)
(* plivo voice streams test and simulate: one synthetic call to the        *)
(* WebSocket endpoint of a voice agent, straight or through the bridge of  *)
(* a running streams forward.  A writer and a reader share the connection, *)
(* the bridge copies each way in a goroutine of its own, and the endpoint  *)
(* answers, hangs up, drops the connection or stops reading as it likes.   *)
(***************************************************************************)
EXTENDS Integers, Sequences, FiniteSets

CONSTANTS
    Runs,     \* the commands: what is run, on which endpoint
    Media,    \* media frames of a call
    Back,     \* bound: frames the endpoint sends
    Buffer    \* frames a connection holds before a write waits

\* expect: --expect-audio; listen without it: --bidirectional, or a <Stream> that is.
Options == [command : {"test", "simulate", "xml-only"}, listen : {"no", "count", "expect"},
            bridged : BOOLEAN]

ASSUME StreamsAssumption ==
    /\ Runs \subseteq Options
    /\ Media \in Nat \ {0} /\ Back \in Nat /\ Buffer \in Nat \ {0}

VARIABLES
    opts,       \* the command
    failed,     \* simulate: the checks that failed
    inbox,      \* frames on their way to each end of a connection
    gone,       \* ends that have dropped it
    probe,      \* where the writer is
    frames,     \* media frames sent
    ctx,        \* "live" or "done": Ctrl-C
    reader,     \* the reader: off, reading, leaving, done
    stopped,    \* its context is cancelled
    rb,         \* streamsReadBack: frames, playAudio and err
    stopErr, early,
    shown,      \* the counters of the result
    verdict,
    copier,     \* the bridge's two: dialing, reading, done or the frame to write
    cancelled,  \* the bridge's context
    sentBack,   \* frames the endpoint has sent
    endFirst,   \* the endpoint ended it before the probe's own close
    slow        \* a deadline passed while the endpoint was not reading

link   == <<inbox, gone>>
result == <<shown, verdict>>
bridge == <<copier, cancelled>>
ghost  == <<sentBack, endFirst, slow>>
back   == <<reader, stopped, rb>>
vars   == <<opts, failed, link, probe, frames, ctx, back, stopErr, early, result, bridge, ghost>>

Near(end) == <<"near", end>>
Far(end)  == <<"far", end>>
Ends == {"near", "far"} \X {"client", "server"}
Peer(e) == <<e[1], IF e[2] = "client" THEN "server" ELSE "client">>

P == Near("client")                                            \* the probe's end
E == IF opts.bridged THEN Far("server") ELSE Near("server")    \* the endpoint's

Checks  == {"answer_url", "xml", "stream", "contentType", "audioTrack", "keepCallAlive"}
Source  == [out |-> Near("server"), in |-> Far("client")]
Target  == [out |-> Far("client"), in |-> Near("server")]

Init ==
    /\ opts \in Runs
    /\ failed = {}
    /\ inbox = [e \in Ends |-> <<>>] /\ gone = {}
    /\ probe = IF opts.command = "test" THEN "dial" ELSE "fetch"
    /\ frames = 0 /\ ctx = "live"
    /\ reader = "off" /\ stopped = FALSE
    /\ rb = [frames |-> 0, playAudio |-> 0, err |-> "none"]
    /\ stopErr = FALSE /\ early = FALSE
    /\ shown = <<0, 0>> /\ verdict = "none"
    /\ copier = [k \in {"out", "in"} |-> "off"] /\ cancelled = FALSE
    /\ sentBack = 0 /\ endFirst = FALSE /\ slow = FALSE

-----------------------------------------------------------------------------
(* Connections: what was sent before an end dropped can still be read; a    *)
(* write to a dropped end is lost or fails.                                 *)

Room(e)   == e \notin gone /\ (Peer(e) \in gone \/ Len(inbox[Peer(e)]) < Buffer)
Full(e)   == {e, Peer(e)} \cap gone = {} /\ Len(inbox[Peer(e)]) >= Buffer
Broken(e) == {e, Peer(e)} \cap gone # {}
Put(e, f) == inbox' = IF Peer(e) \in gone THEN inbox ELSE [inbox EXCEPT ![Peer(e)] = Append(@, f)]
Take(e)   == e \notin gone /\ inbox[e] # <<>> /\ inbox' = [inbox EXCEPT ![e] = Tail(@)]
Drop(es)  == gone' = gone \cup es

\* A write succeeds, fails, or is dropped by its deadline or its context.
Write(e, f) == Room(e) /\ Put(e, f) /\ UNCHANGED <<gone, slow>>
WriteFails(e) ==
    /\ \/ Broken(e) /\ UNCHANGED slow
       \/ Full(e) /\ slow' = TRUE
       \/ ctx = "done" /\ UNCHANGED slow
    /\ Drop({e}) /\ UNCHANGED inbox

-----------------------------------------------------------------------------
(* simulate: the answer URL's checks                                        *)

End(v) == verdict' = v /\ probe' = "ended"
unsent == <<link, frames, back, stopErr, early, shown, bridge, ghost>>

\* hostCheck, fetch and checkXML: the first that fails is the last.
Fetch ==
    /\ probe = "fetch"
    /\ \/ \E c \in {"answer_url", "xml"} : failed' = {c} /\ End("checks")
       \/ probe' = "document" /\ UNCHANGED <<failed, verdict>>
    /\ UNCHANGED <<opts, ctx, unsent>>

\* checkStream makes all of its checks.  A socket is opened only if none failed.
CheckStream_Anyway ==   \* mutant: a failed check does not keep it from streaming
    /\ probe = "document"
    /\ \E cs \in SUBSET {"stream", "contentType"} :
        /\ failed' = cs
        /\ IF opts.command = "xml-only" THEN End(IF cs = {} THEN "passed" ELSE "checks")
           ELSE probe' = "dial" /\ UNCHANGED verdict
    /\ UNCHANGED <<opts, ctx, unsent>>

CheckStream ==
    /\ probe = "document"
    /\ \E cs \in SUBSET {"stream", "contentType", "audioTrack", "keepCallAlive"} :
        /\ failed' = cs
        /\ CASE cs # {} -> End("checks")
             [] cs = {} /\ opts.command = "xml-only" -> End("passed")
             [] OTHER -> probe' = "dial" /\ UNCHANGED verdict
    /\ UNCHANGED <<opts, ctx, unsent>>

-----------------------------------------------------------------------------
(* streamsProbe.run                                                         *)

\* The run's verdict; to simulate it is one more check.
CallEnds(v) ==
    /\ End(v)
    /\ failed' = IF opts.command = "simulate" /\ v # "passed" THEN failed \cup {"websocket"}
                 ELSE failed

Dial ==
    /\ probe = "dial"
    /\ \/ \E v \in {"refused", "unreachable"} : CallEnds(v) /\ UNCHANGED copier
       \/ /\ ctx = "live" /\ probe' = "start" /\ UNCHANGED <<verdict, failed>>
          /\ copier' = IF opts.bridged THEN [k \in {"out", "in"} |-> "dialing"] ELSE copier
    /\ UNCHANGED <<opts, link, frames, ctx, back, stopErr, early, shown, cancelled, ghost>>

\* The start frame; the reader starts before the first media frame.
SendStart ==
    /\ probe = "start"
    /\ \/ Write(P, "start") /\ probe' = "send" /\ reader' = "reading" /\ UNCHANGED <<verdict, failed>>
       \/ WriteFails(P) /\ CallEnds("lost") /\ UNCHANGED reader
    /\ UNCHANGED <<opts, frames, ctx, stopped, rb, stopErr, early, shown, bridge,
                   sentBack, endFirst>>

SendMedia_OneMore ==   \* mutant: the last frame is sent twice
    /\ probe = "send" /\ frames <= Media
    /\ Write(P, "media") /\ frames' = frames + 1
    /\ UNCHANGED <<opts, failed, probe, ctx, back, stopErr, early, result, bridge, sentBack,
                   endFirst>>

SendMedia_BreaksOff ==   \* mutant: a failed write ends the loop as Ctrl-C does
    /\ probe = "send"
    /\ \/ frames = Media /\ probe' = "wait" /\ UNCHANGED <<link, frames, slow>>
       \/ /\ frames < Media
          /\ \/ Write(P, "media") /\ frames' = frames + 1 /\ UNCHANGED probe
             \/ WriteFails(P) /\ probe' = "stop" /\ UNCHANGED frames
    /\ UNCHANGED <<opts, failed, ctx, back, stopErr, early, result, bridge, sentBack, endFirst>>

SendMedia ==
    /\ probe = "send"
    /\ \/ ctx = "done" /\ probe' = "stop" /\ UNCHANGED <<link, frames, slow>>
       \/ frames = Media /\ probe' = (IF opts.listen # "no" THEN "wait" ELSE "stop")
          /\ UNCHANGED <<link, frames, slow>>
       \/ /\ frames < Media
          /\ \/ Write(P, "media") /\ frames' = frames + 1 /\ UNCHANGED probe
             \/ /\ WriteFails(P) /\ UNCHANGED frames
                /\ probe' = IF ctx = "done" THEN "stop" ELSE "fail"
    /\ UNCHANGED <<opts, failed, ctx, back, stopErr, early, result, bridge, sentBack, endFirst>>

\* waitForAnswer: an answer and a quiet second, the window's end, the end of
\* reading, or Ctrl-C.
Wait ==
    /\ probe = "wait"
    /\ probe' = "stop"
    /\ UNCHANGED <<opts, failed, link, frames, ctx, back, stopErr, early, result, bridge, ghost>>

SendStop_ReaderFirst ==   \* mutant: the reader is stopped before the stop frame
    /\ probe = "stop"
    /\ stopped' = TRUE
    /\ \/ ~stopped /\ UNCHANGED <<link, probe, stopErr, slow>>
       \/ /\ reader = "done"
          /\ \/ Write(P, "stop") /\ probe' = "hungup" /\ UNCHANGED stopErr
             \/ WriteFails(P) /\ stopErr' = TRUE /\ probe' = "moment"
    /\ UNCHANGED <<opts, failed, frames, ctx, reader, rb, early, result, bridge,
                   sentBack, endFirst>>

\* The stop frame has a context of its own.
SendStop ==
    /\ probe = "stop"
    /\ \/ Write(P, "stop") /\ probe' = "hungup" /\ UNCHANGED stopErr
       \/ /\ Broken(P) \/ Full(P)
          /\ WriteFails(P) /\ stopErr' = TRUE /\ probe' = "moment"
    /\ UNCHANGED <<opts, failed, frames, ctx, back, early, result, bridge, sentBack, endFirst>>

\* "Give it a moment": until the reader is done or 100 ms later.
Moment ==
    /\ probe = "moment"
    /\ probe' = "hungup"
    /\ UNCHANGED <<opts, failed, link, frames, ctx, back, stopErr, early, result, bridge, ghost>>

HungUp ==
    /\ probe = "hungup"
    /\ early' = (ctx = "live" /\ reader = "done")
    /\ probe' = "close"
    /\ UNCHANGED <<opts, failed, link, frames, ctx, back, stopErr, result, bridge, ghost>>

\* conn.Close sends a close frame and waits five seconds for the other's.
Close ==
    /\ probe = "close"
    /\ IF P \in gone THEN UNCHANGED inbox ELSE Put(P, "close")
    /\ probe' = "closing"
    /\ UNCHANGED <<opts, failed, gone, frames, ctx, back, stopErr, early, result, bridge, ghost>>

StopReader(where) ==
    /\ probe = where
    /\ ~stopped /\ stopped' = TRUE
    /\ UNCHANGED <<opts, failed, link, probe, frames, ctx, reader, rb, stopErr, early, result,
                   bridge, ghost>>

Blame == IF rb.err = "close" THEN "hungup" ELSE "lost"

\* A failed send: the connection is dropped, the reader is stopped, and what it
\* saw is the reason.
Fail ==
    /\ probe = "fail" /\ reader = "done"
    /\ CallEnds(Blame)
    /\ UNCHANGED <<opts, link, frames, ctx, back, stopErr, early, shown, bridge, ghost>>

Verdict ==
    CASE early -> Blame
      [] ~early /\ opts.listen = "expect" /\ rb.playAudio = 0 -> "silent"
      [] OTHER -> "passed"

Finish ==
    /\ probe = "closing" /\ stopped /\ reader = "done"
    /\ shown' = IF early \/ opts.listen = "no" THEN shown ELSE <<rb.frames, rb.playAudio>>
    /\ Drop({P}) /\ CallEnds(Verdict)
    /\ UNCHANGED <<opts, inbox, frames, ctx, back, stopErr, early, bridge, ghost>>

-----------------------------------------------------------------------------
(* The reader.  The library answers a close frame and drops the connection; *)
(* so does a Read whose context ends.                                       *)

Read ==
    /\ reader = "reading" /\ Take(P)
    /\ LET f == Head(inbox[P])
       IN  IF f = "close"
           THEN rb' = [rb EXCEPT !.err = "close"] /\ reader' = "leaving" /\ Drop({P})
           ELSE /\ rb' = [rb EXCEPT !.frames = @ + 1,
                                    !.playAudio = IF f = "audio" THEN @ + 1 ELSE @]
                /\ UNCHANGED <<reader, gone>>
    /\ UNCHANGED <<opts, failed, probe, frames, ctx, stopped, stopErr, early, result, bridge, ghost>>

ReadFails ==
    /\ reader = "reading"
    /\ Broken(P) \/ stopped
    /\ rb' = [rb EXCEPT !.err = IF stopped THEN "stopped" ELSE "lost"]
    /\ reader' = "leaving" /\ Drop({P})
    /\ UNCHANGED <<opts, failed, inbox, probe, frames, ctx, stopped, stopErr, early, result, bridge,
                   ghost>>

Leave ==
    /\ reader = "leaving" /\ reader' = "done"
    /\ UNCHANGED <<opts, failed, link, probe, frames, ctx, stopped, rb, stopErr, early, result,
                   bridge, ghost>>

-----------------------------------------------------------------------------
(* wsproxy.Bridge                                                           *)

kept == <<opts, failed, probe, frames, ctx, back, stopErr, early, result, ghost>>

\* The stream is accepted before the endpoint is dialled; an endpoint that cannot
\* be reached is a close frame to the caller.
BridgeDials ==
    /\ copier["out"] = "dialing"
    /\ \/ /\ copier' = [k \in {"out", "in"} |-> "reading"]
          /\ UNCHANGED <<link, endFirst>>
       \/ /\ copier' = [k \in {"out", "in"} |-> "done"]
          /\ Put(Near("server"), "close")
          /\ Drop({Near("server"), Far("client"), Far("server")})
          /\ endFirst' = TRUE
    /\ UNCHANGED <<opts, failed, probe, frames, ctx, back, stopErr, early, result, cancelled,
                   sentBack, slow>>

CopyEnds_Alone(k, dropped) ==   \* mutant: the first to end does not cancel the other
    /\ copier' = [copier EXCEPT ![k] = "done"]
    /\ Drop(dropped) /\ UNCHANGED cancelled

CopyEnds(k, dropped) ==
    /\ copier' = [copier EXCEPT ![k] = "done"]
    /\ cancelled' = TRUE
    /\ Drop(dropped)

CopyRead(k) ==
    /\ copier[k] = "reading" /\ Take(Source[k])
    /\ LET f == Head(inbox[Source[k]])
       IN  IF f = "close" THEN CopyEnds(k, {Source[k]})
           ELSE copier' = [copier EXCEPT ![k] = f] /\ UNCHANGED <<gone, cancelled>>
    /\ UNCHANGED kept

CopyReadFails(k) ==
    /\ copier[k] = "reading" /\ Broken(Source[k])
    /\ CopyEnds(k, {Source[k]}) /\ UNCHANGED <<inbox, kept>>

Holding(k) == copier[k] \notin {"off", "dialing", "reading", "done"}

CopyWrite(k) ==
    /\ Holding(k) /\ Room(Target[k]) /\ Put(Target[k], copier[k])
    /\ copier' = [copier EXCEPT ![k] = "reading"]
    /\ UNCHANGED <<gone, cancelled, kept>>

CopyWriteFails(k) ==
    /\ Holding(k) /\ Broken(Target[k])
    /\ CopyEnds(k, {Target[k]}) /\ UNCHANGED <<inbox, kept>>

\* A cancelled Read or Write drops its connection.
Cancelled(k) ==
    /\ cancelled /\ copier[k] # "done"
    /\ CopyEnds(k, {IF copier[k] = "reading" THEN Source[k] ELSE Target[k]})
    /\ UNCHANGED <<inbox, kept>>

\* The handler's deferred closes, once Bridge has returned.
BridgeCloses ==
    /\ copier["out"] = "done" /\ copier["in"] = "done"
    /\ {Near("server"), Far("client")} \ gone # {}
    /\ inbox' = [e \in Ends |->
                    IF Peer(e) \in {Near("server"), Far("client")} \ gone /\ e \notin gone
                    THEN Append(inbox[e], "close") ELSE inbox[e]]
    /\ Drop({Near("server"), Far("client")})
    /\ UNCHANGED <<bridge, kept>>

-----------------------------------------------------------------------------
(* The endpoint, and Ctrl-C                                                 *)

calling == reader # "off" /\ probe # "ended" /\ copier["out"] # "dialing"
others  == <<opts, failed, probe, frames, ctx, back, stopErr, early, result, bridge, slow>>

First == endFirst' = (endFirst \/ probe \notin {"closing", "ended"})

EndpointReads ==
    /\ Take(E)
    /\ UNCHANGED <<gone, sentBack, endFirst, others>>
    /\ Head(inbox[E]) # "close"

\* It answers a close with its own.
EndpointAnswersClose ==
    /\ E \notin gone /\ inbox[E] # <<>> /\ Head(inbox[E]) = "close"
    /\ Put(E, "close") /\ Drop({E})
    /\ UNCHANGED <<sentBack, endFirst, others>>

EndpointSends ==
    /\ calling /\ sentBack < Back /\ Room(E)
    /\ \E f \in {"audio", "other"} : Put(E, f)
    /\ sentBack' = sentBack + 1
    /\ UNCHANGED <<gone, endFirst, others>>

EndpointHangsUp ==
    /\ calling /\ E \notin gone
    /\ Put(E, "close") /\ Drop({E}) /\ First
    /\ UNCHANGED <<sentBack, others>>

EndpointDrops ==
    /\ calling /\ E \notin gone
    /\ Drop({E}) /\ First
    /\ UNCHANGED <<inbox, sentBack, others>>

Interrupt ==
    /\ ctx = "live" /\ probe # "ended" /\ ctx' = "done"
    /\ UNCHANGED <<opts, failed, link, probe, frames, back, stopErr, early, result, bridge, ghost>>

Probe ==
    \/ Fetch \/ CheckStream \/ Dial \/ SendStart \/ SendMedia \/ Wait \/ SendStop \/ Moment
    \/ HungUp \/ Close \/ StopReader("fail") \/ StopReader("closing") \/ Fail \/ Finish
Reader == Read \/ ReadFails \/ Leave
Copier(k) == CopyRead(k) \/ CopyReadFails(k) \/ CopyWrite(k) \/ CopyWriteFails(k) \/ Cancelled(k)
Endpoint ==
    \/ EndpointReads \/ EndpointAnswersClose \/ EndpointSends \/ EndpointHangsUp \/ EndpointDrops

Next ==
    \/ Probe \/ Reader \/ (\E k \in {"out", "in"} : Copier(k))
    \/ BridgeDials \/ BridgeCloses
    \/ Endpoint \/ Interrupt

\* The process's goroutines run; every wait of the probe has a deadline.  The
\* endpoint owes nothing.
Spec ==
    /\ Init /\ [][Next]_vars
    /\ WF_vars(Probe) /\ WF_vars(Reader) /\ WF_vars(BridgeDials \/ BridgeCloses)
    /\ \A k \in {"out", "in"} : WF_vars(Copier(k))

-----------------------------------------------------------------------------
(* Correctness *)

TypeOK ==
    /\ opts \in Runs
    /\ failed \subseteq Checks \cup {"websocket"}
    /\ \A e \in Ends : inbox[e] \in Seq({"start", "media", "stop", "audio", "other", "close"})
    /\ gone \subseteq Ends
    /\ probe \in {"fetch", "document", "dial", "start", "send", "wait", "stop", "moment",
                  "hungup", "close", "closing", "fail", "ended"}
    /\ frames \in 0 .. Media /\ sentBack \in 0 .. Back
    /\ ctx \in {"live", "done"}
    /\ reader \in {"off", "reading", "leaving", "done"}
    /\ rb.playAudio \in 0 .. rb.frames /\ rb.frames \in 0 .. sentBack
    /\ rb.err \in {"none", "close", "lost", "stopped"}
    /\ rb.err = "none" <=> reader \in {"off", "reading"}
    /\ <<stopped, stopErr, early, cancelled, endFirst, slow>> \in [1 .. 6 -> BOOLEAN]
    /\ verdict \in {"none", "checks", "refused", "unreachable", "lost", "hungup", "silent",
                    "passed"}
    /\ verdict = "none" <=> probe # "ended"

(***************************************************************************)
(* A pass of a call that was not interrupted means that every frame was    *)
(* sent and, under --expect-audio, audio came back: whatever ended the     *)
(* connection meanwhile.  The counts it shows are final: "after stop they  *)
(* are", so they hold all that the reader has taken.                       *)
(***************************************************************************)
PassIsEarned ==
    verdict = "passed" /\ opts.command # "xml-only" =>
        /\ failed = {}
        /\ opts.listen # "no" => shown = <<rb.frames, rb.playAudio>>
        /\ opts.listen = "expect" => shown[2] > 0
        /\ ctx = "live" => frames = Media

(***************************************************************************)
(* The probe never blames the endpoint for what it did itself: a call      *)
(* reported as hung up or lost, or a stop frame reported as not sent, was  *)
(* ended by the endpoint first, held up by it, or interrupted.             *)
(***************************************************************************)
BlameIsFair ==
    verdict \in {"hungup", "lost"} \/ stopErr => endFirst \/ slow \/ ctx = "done"

(***************************************************************************)
(* simulate opens a socket only to a <Stream> every check of which passed, *)
(* and a failed check is never reported as a pass.                         *)
(***************************************************************************)
NothingAfterFailedCheck ==
    failed # {} =>
        /\ verdict \notin {"passed", "none"}
        /\ failed # {"websocket"} => reader = "off"

(***************************************************************************)
(* A test ends, whatever the endpoint does or leaves undone.               *)
(***************************************************************************)
ProbeEnds == <>(probe = "ended")

(***************************************************************************)
(* "Returns when either side closes": once the caller's side is gone the   *)
(* bridge returns and lets both connections go, unless the endpoint never  *)
(* again takes what the bridge has for it.                                 *)
(***************************************************************************)
BridgeEnds ==
    [](opts.bridged /\ P \in gone =>
        <>({Near("server"), Far("client")} \subseteq gone \/ Holding("out")))

\* Both, of every call: nobody waits for ever.
CallsEnd == ProbeEnds /\ BridgeEnds
=============================================================================
