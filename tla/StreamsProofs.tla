---------------------------- MODULE StreamsProofs ----------------------------
(***************************************************************************)
(* Proofs about Streams: what a pass means, that the endpoint is blamed    *)
(* for its own doings only, that no socket follows a failed check, and     *)
(* that a call goes round in no circles, for any commands, any number of   *)
(* frames and any buffer.                                                  *)
(***************************************************************************)
EXTENDS Streams, FiniteSetTheorems, TLAPS

Frames == {"start", "media", "stop", "audio", "other", "close"}
Call   == Frames \ {"close"}

Stages == {"fetch", "document", "dial", "start", "send", "wait", "stop", "moment",
           "hungup", "close", "closing", "fail", "ended"}
Verdicts == {"none", "checks", "refused", "unreachable", "lost", "hungup", "silent", "passed"}

\* The connections and the bridge.
LinkType ==
    /\ inbox \in [Ends -> Seq(Frames)]
    /\ gone \subseteq Ends
    /\ copier \in [{"out", "in"} -> {"off", "dialing", "reading", "done"} \cup Call]

\* The command, its writer and its reader.
ProbeType ==
    /\ opts \in Options
    /\ probe \in Stages
    /\ frames \in 0 .. Media
    /\ ctx \in {"live", "done"}
    /\ reader \in {"off", "reading", "leaving", "done"}
    /\ rb \in [frames : Nat, playAudio : Nat, err : {"none", "close", "lost", "stopped"}]
    /\ rb.err = "none" <=> reader \in {"off", "reading"}
    /\ probe \in {"fetch", "document", "dial", "start"} => reader = "off"
    /\ verdict \in Verdicts
    /\ verdict = "none" <=> probe # "ended"

FlagType ==
    /\ stopped \in BOOLEAN /\ stopErr \in BOOLEAN /\ early \in BOOLEAN
    /\ cancelled \in BOOLEAN /\ endFirst \in BOOLEAN /\ slow \in BOOLEAN

TypeInv == LinkType /\ ProbeType /\ FlagType

-----------------------------------------------------------------------------
(* Frames travel as they are. *)

LEMMA PutKeeps ==
    ASSUME NEW F, inbox \in [Ends -> Seq(F)], NEW e \in Ends, NEW f \in F, Put(e, f)
    PROVE  inbox' \in [Ends -> Seq(F)]
<1>1. Peer(e) \in Ends
    BY DEF Peer, Ends
<1>2. CASE Peer(e) \in gone
    BY <1>2 DEF Put
<1>3. CASE Peer(e) \notin gone
    <2>1. Append(inbox[Peer(e)], f) \in Seq(F)
        BY <1>1
    <2>. QED
        BY <1>1, <1>3, <2>1 DEF Put
<1>. QED
    BY <1>2, <1>3

LEMMA TakeKeeps ==
    ASSUME NEW F, inbox \in [Ends -> Seq(F)], NEW e \in Ends, Take(e)
    PROVE  /\ inbox' \in [Ends -> Seq(F)]
           /\ Head(inbox[e]) \in F
<1>1. inbox[e] \in Seq(F) /\ inbox[e] # <<>>
    BY DEF Take
<1>2. Head(inbox[e]) \in F /\ Tail(inbox[e]) \in Seq(F)
    BY <1>1
<1>. QED
    BY <1>2 DEF Take

\* A read, a write or a drop at an end of the system is one at an end.
LEMMA TheEnds ==
    /\ P \in Ends /\ E \in Ends
    /\ \A k \in {"out", "in"} : Source[k] \in Ends /\ Target[k] \in Ends
    /\ {Near("server"), Far("client"), Far("server")} \subseteq Ends
BY DEF P, E, Ends, Near, Far, Source, Target

-----------------------------------------------------------------------------
(* What a step at the bridge or the endpoint leaves alone. *)

Elsewhere == (\E k \in {"out", "in"} : Copier(k)) \/ BridgeDials \/ BridgeCloses \/ Endpoint

LEMMA ElsewhereKeeps ==
    ASSUME Elsewhere
    PROVE  UNCHANGED <<opts, failed, probe, frames, ctx, back, stopErr, early, result, slow>>
<1>1. ASSUME NEW k \in {"out", "in"}, Copier(k)
      PROVE  UNCHANGED <<opts, failed, probe, frames, ctx, back, stopErr, early, result, slow>>
    BY <1>1 DEF Copier, CopyRead, CopyReadFails, CopyWrite, CopyWriteFails, Cancelled, kept, ghost
<1>2. CASE BridgeDials
    BY <1>2 DEF BridgeDials
<1>3. CASE BridgeCloses
    BY <1>3 DEF BridgeCloses, kept, ghost
<1>4. CASE Endpoint
    BY <1>4 DEF Endpoint, EndpointReads, EndpointAnswersClose, EndpointSends, EndpointHangsUp,
                EndpointDrops, others
<1>. QED
    BY <1>1, <1>2, <1>3, <1>4 DEF Elsewhere

-----------------------------------------------------------------------------
(* Types. *)

LEMMA TypeInvInit == Init => TypeInv
<1>. SUFFICES ASSUME Init PROVE TypeInv
    OBVIOUS
<1>1. LinkType
    BY DEF Init, LinkType, Call, Frames
<1>2. ProbeType
    BY StreamsAssumption DEF Init, ProbeType, Stages, Verdicts
<1>3. FlagType
    BY DEF Init, FlagType
<1>. QED
    BY <1>1, <1>2, <1>3 DEF TypeInv

LEMMA ProbeTypeStep == TypeInv /\ Next => ProbeType'
<1>. SUFFICES ASSUME ProbeType, LinkType, Next PROVE ProbeType'
    BY DEF TypeInv
<1>. USE DEF ProbeType, Stages, Verdicts
<1>k. CASE Elsewhere
    BY <1>k, ElsewhereKeeps DEF back, result
<1>1. CASE Fetch
    BY <1>1 DEF Fetch, End, unsent, back
<1>2. CASE CheckStream
    <2>1. PICK cs : cs = failed' /\ CASE cs # {} -> End("checks")
                      [] cs = {} /\ opts.command = "xml-only" -> End("passed")
                      [] OTHER -> probe' = "dial" /\ UNCHANGED verdict
        BY <1>2 DEF CheckStream
    <2>2. End("checks") \/ End("passed") \/ (probe' = "dial" /\ UNCHANGED verdict)
        BY <2>1, Zenon
    <2>3. probe = "document" /\ UNCHANGED <<opts, ctx, frames, reader, rb>>
        BY <1>2 DEF CheckStream, unsent, back
    <2>. QED
        BY <2>2, <2>3 DEF End
<1>3. CASE Dial
    BY <1>3 DEF Dial, CallEnds, End, back
<1>4. CASE SendStart
    BY <1>4 DEF SendStart, CallEnds, End
<1>5. CASE SendMedia
    <2>1. frames' \in 0 .. Media
        BY <1>5, StreamsAssumption DEF SendMedia
    <2>. QED
        BY <1>5, <2>1 DEF SendMedia, back, result
<1>6. CASE Wait \/ SendStop \/ Moment \/ HungUp \/ Close
    BY <1>6 DEF Wait, SendStop, Moment, HungUp, Close, back, result
<1>7. CASE StopReader("fail") \/ StopReader("closing")
    BY <1>7 DEF StopReader, result
<1>8. CASE Fail
    BY <1>8 DEF Fail, CallEnds, End, Blame, back
<1>9. CASE Finish
    <2>1. Verdict \in {"hungup", "lost", "silent", "passed"}
        BY DEF Verdict, Blame
    <2>. QED
        BY <1>9, <2>1 DEF Finish, CallEnds, End, back
<1>10. CASE Read
    <2>1. CASE Head(inbox[P]) = "close"
        BY <1>10, <2>1 DEF Read, result
    <2>2. CASE Head(inbox[P]) # "close"
        <3>1. /\ rb' = [rb EXCEPT !.frames = @ + 1,
                                 !.playAudio = IF Head(inbox[P]) = "audio" THEN @ + 1 ELSE @]
              /\ reader' = reader
            BY <1>10, <2>2 DEF Read
        <3>2. /\ rb' \in [frames : Nat, playAudio : Nat, err : {"none", "close", "lost", "stopped"}]
              /\ rb'.err = rb.err
            <4>1. rb.frames + 1 \in Nat /\ rb.playAudio + 1 \in Nat
                OBVIOUS
            <4>2. CASE Head(inbox[P]) = "audio"
                BY <3>1, <4>1, <4>2
            <4>3. CASE Head(inbox[P]) # "audio"
                BY <3>1, <4>1, <4>3
            <4>. QED
                BY <4>2, <4>3
        <3>. QED
            BY <1>10, <3>1, <3>2 DEF Read, result
    <2>. QED
        BY <2>1, <2>2
<1>11. CASE ReadFails
    BY <1>11 DEF ReadFails, result
<1>12. CASE Leave
    BY <1>12 DEF Leave, result
<1>13. CASE Interrupt
    BY <1>13 DEF Interrupt, back, result
<1>. QED
    BY <1>k, <1>1, <1>2, <1>3, <1>4, <1>5, <1>6, <1>7, <1>8, <1>9, <1>10, <1>11, <1>12, <1>13
    DEF Next, Probe, Reader, Elsewhere

LEMMA FlagTypeStep == TypeInv /\ Next => FlagType'
<1>. SUFFICES ASSUME FlagType, Next PROVE FlagType'
    BY DEF TypeInv
<1>. USE DEF FlagType, bridge, ghost, back
<1>1. CASE Fetch \/ CheckStream \/ Dial \/ SendStart \/ SendMedia \/ Wait
    BY <1>1 DEF Fetch, CheckStream, Dial, SendStart, SendMedia, Wait, Write, WriteFails, unsent
<1>2. CASE SendStop \/ Moment \/ HungUp \/ Close
    BY <1>2 DEF SendStop, Moment, HungUp, Close, Write, WriteFails
<1>3. CASE StopReader("fail") \/ StopReader("closing") \/ Fail \/ Finish
    BY <1>3 DEF StopReader, Fail, Finish
<1>4. CASE Reader
    BY <1>4 DEF Reader, Read, ReadFails, Leave
<1>5. ASSUME NEW k \in {"out", "in"}, Copier(k) PROVE FlagType'
    BY <1>5 DEF Copier, CopyRead, CopyReadFails, CopyWrite, CopyWriteFails, Cancelled, CopyEnds,
                kept
<1>6. CASE BridgeDials \/ BridgeCloses
    BY <1>6 DEF BridgeDials, BridgeCloses, kept
<1>7. CASE Endpoint
    BY <1>7 DEF Endpoint, EndpointReads, EndpointAnswersClose, EndpointSends, EndpointHangsUp,
                EndpointDrops, First, others
<1>8. CASE Interrupt
    BY <1>8 DEF Interrupt
<1>. QED
    BY <1>1, <1>2, <1>3, <1>4, <1>5, <1>6, <1>7, <1>8 DEF Next, Probe

LEMMA LinkTypeStep == TypeInv /\ Next => LinkType'
<1>. SUFFICES ASSUME LinkType, Next PROVE LinkType'
    BY DEF TypeInv
<1>p. inbox \in [Ends -> Seq(Frames)]
    BY DEF LinkType
<1>1. CASE Fetch \/ CheckStream \/ Dial
    BY <1>1 DEF Fetch, CheckStream, Dial, unsent, LinkType, link, bridge
<1>2. CASE SendStart \/ SendMedia \/ SendStop
    <2>1. ASSUME NEW f \in Frames, Write(P, f) PROVE inbox' \in [Ends -> Seq(Frames)] /\ gone' = gone
        BY <1>p, <2>1, PutKeeps, TheEnds DEF Write
    <2>2. ASSUME WriteFails(P) PROVE inbox' = inbox /\ gone' \subseteq Ends
        BY <2>2, TheEnds DEF WriteFails, Drop, LinkType
    <2>3. {"start", "media", "stop"} \subseteq Frames
        BY DEF Frames
    <2>4. CASE SendStart
        BY <2>1, <2>2, <2>3, <2>4 DEF SendStart, LinkType, bridge
    <2>5. CASE SendMedia
        BY <2>1, <2>2, <2>3, <2>5 DEF SendMedia, LinkType, bridge, link
    <2>6. CASE SendStop
        BY <2>1, <2>2, <2>3, <2>6 DEF SendStop, LinkType, bridge
    <2>. QED
        BY <1>2, <2>4, <2>5, <2>6
<1>3. CASE Wait \/ Moment \/ HungUp \/ Fail \/ StopReader("fail") \/ StopReader("closing") \/ Interrupt
    BY <1>3 DEF Wait, Moment, HungUp, Fail, StopReader, Interrupt, LinkType, link, bridge
<1>4. CASE Close
    <2>1. inbox' \in [Ends -> Seq(Frames)]
        <3>1. CASE P \in gone
            BY <1>p, <1>4, <3>1 DEF Close
        <3>2. CASE P \notin gone
            BY <1>p, <1>4, <3>2, PutKeeps, TheEnds DEF Close, Frames
        <3>. QED
            BY <3>1, <3>2
    <2>. QED
        BY <1>4, <2>1 DEF Close, LinkType, bridge
<1>5. CASE Finish
    BY <1>5, TheEnds DEF Finish, Drop, LinkType, bridge
<1>6. CASE Reader
    <2>1. CASE Read
        <3>1. inbox' \in [Ends -> Seq(Frames)]
            BY <1>p, <2>1, TakeKeeps, TheEnds DEF Read
        <3>. QED
            BY <2>1, <3>1, TheEnds DEF Read, Drop, LinkType, bridge
    <2>2. CASE ReadFails
        BY <2>2, TheEnds DEF ReadFails, Drop, LinkType, bridge
    <2>3. CASE Leave
        BY <2>3 DEF Leave, LinkType, link, bridge
    <2>. QED
        BY <1>6, <2>1, <2>2, <2>3 DEF Reader
<1>7. ASSUME NEW k \in {"out", "in"}, Copier(k) PROVE LinkType'
    <2>s. Source[k] \in Ends /\ Target[k] \in Ends
        BY TheEnds
    <2>1. ASSUME NEW D \in SUBSET Ends, CopyEnds(k, D)
          PROVE  /\ gone' \subseteq Ends
                 /\ copier' \in [{"out", "in"} -> {"off", "dialing", "reading", "done"} \cup Call]
        BY <2>1 DEF CopyEnds, Drop, LinkType
    <2>2. CASE CopyRead(k)
        <3>1. inbox' \in [Ends -> Seq(Frames)] /\ Head(inbox[Source[k]]) \in Frames
            BY <1>p, <2>2, <2>s, TakeKeeps DEF CopyRead
        <3>2. CASE Head(inbox[Source[k]]) = "close"
            BY <2>2, <2>s, <2>1, <3>1, <3>2 DEF CopyRead, LinkType
        <3>3. CASE Head(inbox[Source[k]]) # "close"
            BY <2>2, <3>1, <3>3 DEF CopyRead, LinkType, Call
        <3>. QED
            BY <3>2, <3>3
    <2>3. CASE CopyReadFails(k)
        BY <2>3, <2>s, <2>1 DEF CopyReadFails, LinkType
    <2>4. CASE CopyWrite(k)
        <3>1. copier[k] \in Frames
            BY <2>4 DEF CopyWrite, Holding, LinkType, Call
        <3>2. inbox' \in [Ends -> Seq(Frames)]
            BY <1>p, <2>4, <2>s, <3>1, PutKeeps DEF CopyWrite
        <3>. QED
            BY <2>4, <3>2 DEF CopyWrite, LinkType
    <2>5. CASE CopyWriteFails(k)
        BY <2>5, <2>s, <2>1 DEF CopyWriteFails, LinkType
    <2>6. CASE Cancelled(k)
        BY <2>6, <2>s, <2>1 DEF Cancelled, LinkType
    <2>. QED
        BY <1>7, <2>2, <2>3, <2>4, <2>5, <2>6 DEF Copier
<1>8. CASE BridgeDials
    <2>1. inbox' \in [Ends -> Seq(Frames)]
        <3>1. CASE inbox' = inbox
            BY <1>p, <3>1
        <3>2. CASE Put(Near("server"), "close")
            BY <1>p, <3>2, PutKeeps, TheEnds DEF Frames
        <3>. QED
            BY <1>8, <3>1, <3>2 DEF BridgeDials, link
    <2>2. gone' \subseteq Ends
        BY <1>8, TheEnds DEF BridgeDials, Drop, link, LinkType
    <2>3. copier' \in [{"out", "in"} -> {"off", "dialing", "reading", "done"} \cup Call]
        BY <1>8 DEF BridgeDials
    <2>. QED
        BY <2>1, <2>2, <2>3 DEF LinkType
<1>9. CASE BridgeCloses
    <2>1. inbox' \in [Ends -> Seq(Frames)]
        <3>1. \A e \in Ends : Append(inbox[e], "close") \in Seq(Frames) /\ inbox[e] \in Seq(Frames)
            BY <1>p DEF Frames
        <3>. QED
            BY <1>9, <3>1 DEF BridgeCloses
    <2>. QED
        BY <1>9, <2>1, TheEnds DEF BridgeCloses, Drop, LinkType, bridge
<1>10. CASE Endpoint
    <2>1. CASE EndpointReads
        BY <1>p, <2>1, TakeKeeps, TheEnds DEF EndpointReads, LinkType, others, bridge
    <2>2. CASE EndpointAnswersClose
        <3>1. inbox' \in [Ends -> Seq(Frames)]
            BY <1>p, <2>2, PutKeeps, TheEnds DEF EndpointAnswersClose, Frames
        <3>. QED
            BY <2>2, <3>1, TheEnds DEF EndpointAnswersClose, Drop, LinkType, others, bridge
    <2>3. CASE EndpointSends
        <3>1. PICK f \in {"audio", "other"} : Put(E, f)
            BY <2>3 DEF EndpointSends
        <3>2. inbox' \in [Ends -> Seq(Frames)]
            BY <1>p, <3>1, PutKeeps, TheEnds DEF Frames
        <3>. QED
            BY <2>3, <3>2 DEF EndpointSends, LinkType, others, bridge
    <2>4. CASE EndpointHangsUp
        <3>1. inbox' \in [Ends -> Seq(Frames)]
            BY <1>p, <2>4, PutKeeps, TheEnds DEF EndpointHangsUp, Frames
        <3>. QED
            BY <2>4, <3>1, TheEnds DEF EndpointHangsUp, Drop, LinkType, others, bridge
    <2>5. CASE EndpointDrops
        BY <2>5, TheEnds DEF EndpointDrops, Drop, LinkType, others, bridge
    <2>. QED
        BY <1>10, <2>1, <2>2, <2>3, <2>4, <2>5 DEF Endpoint
<1>. QED
    BY <1>1, <1>2, <1>3, <1>4, <1>5, <1>6, <1>7, <1>8, <1>9, <1>10 DEF Next, Probe

LEMMA Typing == Spec => []TypeInv
<1>1. TypeInv /\ [Next]_vars => TypeInv'
    <2>1. CASE Next
        BY <2>1, LinkTypeStep, ProbeTypeStep, FlagTypeStep DEF TypeInv
    <2>2. CASE UNCHANGED vars
        BY <2>2 DEF vars, TypeInv, LinkType, ProbeType, FlagType, link, result, bridge, ghost, back
    <2>. QED
        BY <2>1, <2>2
<1>. QED
    BY <1>1, TypeInvInit, PTL DEF Spec

-----------------------------------------------------------------------------
(* What the verdict rests on.  Up to the verdict no check has failed, so    *)
(* the one that fails is the last; past the loop every frame has been sent, *)
(* unless Ctrl-C ended it; and a verdict on the counts comes after the      *)
(* reader has left, so that nothing changes them any more.                  *)

VerdictInv ==
    /\ failed # {} => verdict \notin {"passed", "none"}
    /\ failed \notin {{}, {"websocket"}} => reader = "off"
    /\ (probe \in {"wait", "stop", "moment", "hungup", "close", "closing"} /\ ctx = "live")
           => frames = Media
    /\ PassIsEarned
    /\ (verdict = "passed" /\ opts.command # "xml-only") => reader = "done"

LEMMA VerdictStep == TypeInv /\ VerdictInv /\ Next => VerdictInv'
<1>. SUFFICES ASSUME ProbeType, VerdictInv, Next PROVE VerdictInv'
    BY DEF TypeInv
<1>. USE DEF VerdictInv, PassIsEarned
<1>n. verdict = "none" => failed = {}
    OBVIOUS
<1>k. CASE Elsewhere
    BY <1>k, ElsewhereKeeps DEF back, result
<1>1. CASE Fetch
    BY <1>1 DEF Fetch, End, unsent, back, ProbeType
<1>2. CASE CheckStream
    <2>1. PICK cs : cs = failed' /\ CASE cs # {} -> End("checks")
                      [] cs = {} /\ opts.command = "xml-only" -> End("passed")
                      [] OTHER -> probe' = "dial" /\ UNCHANGED verdict
        BY <1>2 DEF CheckStream
    <2>2. \/ failed' # {} /\ End("checks")
          \/ failed' = {} /\ opts.command = "xml-only" /\ End("passed")
          \/ failed' = {} /\ probe' = "dial" /\ UNCHANGED verdict
        BY <2>1, Zenon
    <2>3. probe = "document" /\ UNCHANGED <<opts, ctx, frames, reader, rb, shown>>
        BY <1>2 DEF CheckStream, unsent, back
    <2>. QED
        BY <2>2, <2>3 DEF End, ProbeType
<1>3. CASE Dial
    BY <1>3, <1>n DEF Dial, CallEnds, End, back, ProbeType
<1>4. CASE SendStart
    BY <1>4, <1>n DEF SendStart, CallEnds, End, ProbeType
<1>5. CASE SendMedia
    BY <1>5 DEF SendMedia, back, result, ProbeType
<1>6. CASE Wait \/ SendStop \/ Moment \/ HungUp \/ Close
    BY <1>6 DEF Wait, SendStop, Moment, HungUp, Close, back, result, ProbeType
<1>7. CASE StopReader("fail") \/ StopReader("closing")
    BY <1>7 DEF StopReader, result
<1>8. CASE Fail
    BY <1>8, <1>n DEF Fail, CallEnds, End, Blame, back, ProbeType
<1>9. CASE Finish
    <2>1. Verdict \in {"hungup", "lost", "silent", "passed"}
        BY DEF Verdict, Blame
    <2>2. Verdict = "passed" /\ opts.listen = "expect" => rb.playAudio # 0
        BY DEF Verdict, Blame
    <2>3. /\ rb.playAudio \in Nat
          /\ Verdict = "passed" /\ opts.listen # "no" => shown' = <<rb.frames, rb.playAudio>>
        BY <1>9 DEF Finish, ProbeType, Verdict, Blame
    <2>4. Verdict = "passed" /\ opts.listen = "expect" => shown'[2] > 0
        BY <2>2, <2>3
    <2>. QED
        BY <1>9, <1>n, <2>1, <2>3, <2>4 DEF Finish, CallEnds, End, back, ProbeType
<1>10. CASE Reader
    BY <1>10 DEF Reader, Read, ReadFails, Leave, result, ProbeType
<1>11. CASE Interrupt
    BY <1>11 DEF Interrupt, back, result, ProbeType
<1>. QED
    BY <1>k, <1>1, <1>2, <1>3, <1>4, <1>5, <1>6, <1>7, <1>8, <1>9, <1>10, <1>11
    DEF Next, Probe, Elsewhere

LEMMA VerdictAlways == Spec => []VerdictInv
<1>1. Init => VerdictInv
    BY DEF Init, VerdictInv, PassIsEarned
<1>2. TypeInv /\ VerdictInv /\ [Next]_vars => VerdictInv'
    <2>1. CASE Next
        BY <2>1, VerdictStep
    <2>2. CASE UNCHANGED vars
        BY <2>2 DEF vars, VerdictInv, PassIsEarned, back, result
    <2>. QED
        BY <2>1, <2>2
<1>. QED
    BY <1>1, <1>2, Typing, PTL DEF Spec

(* A pass of a call nobody interrupted means that every frame was sent, and *)
(* under --expect-audio that audio came back, with counts that are final.   *)
THEOREM PassEarned == Spec => []PassIsEarned
<1>1. VerdictInv => PassIsEarned
    BY DEF VerdictInv
<1>. QED
    BY <1>1, VerdictAlways, PTL

(* No socket is opened once a check has failed, and a failed check is never *)
(* a pass.                                                                  *)
THEOREM FailedCheckIsLast == Spec => []NothingAfterFailedCheck
<1>1. VerdictInv => NothingAfterFailedCheck
    BY DEF VerdictInv, NothingAfterFailedCheck
<1>. QED
    BY <1>1, VerdictAlways, PTL

-----------------------------------------------------------------------------
(* Who ended the call.  As long as the endpoint has left it alone, kept      *)
(* reading, and nobody pressed Ctrl-C, nothing has been closed or dropped    *)
(* before the probe closes it itself, so there is nothing to blame on anyone. *)

Undisturbed == ~endFirst /\ ~slow /\ ctx = "live"
Talking     == probe \notin {"closing", "ended"}

Intact ==
    /\ inbox \in [Ends -> Seq(Call)] /\ gone = {}
    /\ ~stopped /\ reader \in {"off", "reading"}
    /\ ~cancelled /\ \A k \in {"out", "in"} : copier[k] # "done"
    /\ probe # "fail"

Blameless == ~stopErr /\ ~early /\ verdict \notin {"hungup", "lost"}

BlameInv == Undisturbed => Blameless /\ (Talking => Intact)

LEMMA BlameProbe == TypeInv /\ BlameInv /\ (Probe \/ Reader \/ Interrupt) => BlameInv'
<1>. SUFFICES ASSUME TypeInv, BlameInv, Probe \/ Reader \/ Interrupt, Undisturbed'
              PROVE  Blameless' /\ (Talking' => Intact')
    BY DEF BlameInv
<1>u. ~endFirst' /\ ~slow' /\ ctx' = "live"
    BY DEF Undisturbed
<1>b. ASSUME Undisturbed PROVE Blameless /\ (Talking => Intact)
    BY <1>b DEF BlameInv
<1>t. ProbeType /\ FlagType
    BY DEF TypeInv
<1>w. ASSUME Undisturbed, Talking, NEW f \in Call, Write(P, f)
      PROVE  inbox' \in [Ends -> Seq(Call)] /\ gone' = {}
    BY <1>w, <1>b, PutKeeps, TheEnds DEF Write, Intact
<1>f. ASSUME Undisturbed, Talking, WriteFails(P) PROVE FALSE
    BY <1>f, <1>b, <1>u DEF WriteFails, Undisturbed, Broken, Intact
<1>c. {"start", "media", "stop"} \subseteq Call
    BY DEF Call, Frames
<1>1. CASE Fetch
    <2>1. Undisturbed /\ Talking
        BY <1>1, <1>u DEF Fetch, unsent, ghost, Undisturbed, Talking
    <2>. QED
        BY <1>1, <1>b, <2>1 DEF Fetch, End, unsent, link, back, bridge, Intact, Blameless, Talking
<1>2. CASE CheckStream
    <2>1. Undisturbed /\ Talking
        BY <1>2, <1>u DEF CheckStream, unsent, ghost, Undisturbed, Talking
    <2>2. PICK cs : cs = failed' /\ CASE cs # {} -> End("checks")
                      [] cs = {} /\ opts.command = "xml-only" -> End("passed")
                      [] OTHER -> probe' = "dial" /\ UNCHANGED verdict
        BY <1>2 DEF CheckStream
    <2>3. End("checks") \/ End("passed") \/ (probe' = "dial" /\ UNCHANGED verdict)
        BY <2>2, Zenon
    <2>4. UNCHANGED <<inbox, gone, stopped, reader, cancelled, copier, stopErr, early>>
        BY <1>2 DEF CheckStream, unsent, link, back, bridge
    <2>. QED
        BY <1>b, <2>1, <2>3, <2>4 DEF End, Intact, Blameless, Talking
<1>3. CASE Dial
    <2>1. Undisturbed /\ Talking
        BY <1>3, <1>u DEF Dial, ghost, Undisturbed, Talking
    <2>2. \A k \in {"out", "in"} : copier'[k] # "done"
        BY <1>3, <1>b, <2>1 DEF Dial, Intact
    <2>. QED
        BY <1>3, <1>b, <2>1, <2>2 DEF Dial, CallEnds, End, link, back, Intact, Blameless, Talking
<1>4. CASE SendStart
    <2>1. Undisturbed /\ Talking
        BY <1>4, <1>u, <1>t DEF SendStart, Write, WriteFails, Undisturbed, Talking, FlagType
    <2>2. Write(P, "start") /\ probe' = "send" /\ reader' = "reading" /\ UNCHANGED verdict
        BY <1>4, <1>f, <2>1 DEF SendStart
    <2>3. inbox' \in [Ends -> Seq(Call)] /\ gone' = {}
        BY <1>w, <1>c, <2>1, <2>2
    <2>. QED
        BY <1>4, <1>b, <2>1, <2>2, <2>3 DEF SendStart, bridge, Intact, Blameless
<1>5. CASE SendMedia
    <2>1. Undisturbed /\ Talking
        BY <1>5, <1>u, <1>t DEF SendMedia, Write, WriteFails, Undisturbed, Talking, FlagType
    <2>2. /\ (Write(P, "media") /\ UNCHANGED probe) \/ UNCHANGED link
          /\ probe' # "fail"
        BY <1>5, <1>f, <1>b, <2>1 DEF SendMedia, Intact
    <2>3. inbox' \in [Ends -> Seq(Call)] /\ gone' = {}
        BY <1>b, <1>w, <1>c, <2>1, <2>2 DEF link, Intact
    <2>. QED
        BY <1>5, <1>b, <2>1, <2>2, <2>3 DEF SendMedia, back, result, bridge, Intact, Blameless
<1>6. CASE Wait \/ Moment \/ HungUp
    <2>1. Undisturbed /\ Talking
        BY <1>6, <1>u DEF Wait, Moment, HungUp, ghost, Undisturbed, Talking
    <2>2. ~early'
        BY <1>6, <1>b, <2>1 DEF Wait, Moment, HungUp, Intact, Blameless
    <2>3. probe' # "fail" /\ UNCHANGED <<link, back, stopErr, result, bridge>>
        BY <1>6 DEF Wait, Moment, HungUp
    <2>. QED
        BY <1>b, <2>1, <2>2, <2>3 DEF link, back, result, bridge, Intact, Blameless
<1>7. CASE SendStop
    <2>1. Undisturbed /\ Talking
        BY <1>7, <1>u, <1>t DEF SendStop, Write, WriteFails, Undisturbed, Talking, FlagType
    <2>2. Write(P, "stop") /\ probe' = "hungup" /\ UNCHANGED stopErr
        BY <1>7, <1>f, <2>1 DEF SendStop
    <2>3. inbox' \in [Ends -> Seq(Call)] /\ gone' = {}
        BY <1>w, <1>c, <2>1, <2>2
    <2>. QED
        BY <1>7, <1>b, <2>1, <2>2, <2>3 DEF SendStop, back, result, bridge, Intact, Blameless
<1>8. CASE Close
    BY <1>8, <1>b, <1>u DEF Close, ghost, back, result, Undisturbed, Talking, Blameless
<1>9. CASE StopReader("fail") \/ StopReader("closing")
    <2>1. Undisturbed
        BY <1>9, <1>u DEF StopReader, ghost, Undisturbed
    <2>2. probe = "closing"
        BY <1>9, <1>b, <2>1 DEF StopReader, Intact, Talking
    <2>. QED
        BY <1>9, <1>b, <2>1, <2>2 DEF StopReader, result, Talking, Blameless
<1>10. CASE Fail
    BY <1>10, <1>b, <1>u DEF Fail, ghost, Undisturbed, Talking, Intact
<1>11. CASE Finish
    <2>1. Undisturbed
        BY <1>11, <1>u DEF Finish, ghost, Undisturbed
    <2>2. ~early
        BY <1>b, <2>1 DEF Blameless
    <2>3. Verdict \in {"silent", "passed"}
        BY <2>2 DEF Verdict
    <2>. QED
        BY <1>11, <1>b, <2>1, <2>3 DEF Finish, CallEnds, End, Talking, Blameless
<1>12. CASE Read
    <2>1. Undisturbed /\ UNCHANGED <<probe, stopped, stopErr, early, verdict, cancelled, copier>>
        BY <1>12, <1>u DEF Read, ghost, result, bridge, Undisturbed
    <2>2. CASE Talking
        <3>1. inbox' \in [Ends -> Seq(Call)] /\ Head(inbox[P]) \in Call
            BY <1>12, <1>b, <2>1, <2>2, TakeKeeps, TheEnds DEF Read, Intact
        <3>2. UNCHANGED <<reader, gone>>
            BY <1>12, <3>1 DEF Read, Call
        <3>. QED
            BY <1>b, <2>1, <2>2, <3>1, <3>2 DEF Intact, Blameless
    <2>3. CASE ~Talking
        BY <1>b, <2>1, <2>3 DEF Talking, Blameless
    <2>. QED
        BY <2>2, <2>3
<1>13. CASE ReadFails \/ Leave
    <2>1. Undisturbed /\ UNCHANGED <<probe, stopErr, early, verdict>>
        BY <1>13, <1>u DEF ReadFails, Leave, ghost, result, Undisturbed
    <2>2. ~Talking
        BY <1>13, <1>b, <2>1 DEF ReadFails, Leave, Broken, Intact
    <2>. QED
        BY <1>b, <2>1, <2>2 DEF Talking, Blameless
<1>14. CASE Interrupt
    BY <1>14, <1>u DEF Interrupt
<1>. QED
    BY <1>1, <1>2, <1>3, <1>4, <1>5, <1>6, <1>7, <1>8, <1>9, <1>10, <1>11, <1>12, <1>13, <1>14
    DEF Probe, Reader

LEMMA BlameElsewhere == TypeInv /\ BlameInv /\ Elsewhere => BlameInv'
<1>. SUFFICES ASSUME TypeInv, BlameInv, Elsewhere, Undisturbed'
              PROVE  Blameless' /\ (Talking' => Intact')
    BY DEF BlameInv
<1>u. ~endFirst' /\ ~slow' /\ ctx' = "live"
    BY DEF Undisturbed
<1>e. UNCHANGED <<probe, ctx, reader, stopped, stopErr, early, verdict, slow>>
    BY ElsewhereKeeps DEF back, result
<1>d. ~endFirst
    <2>1. ASSUME NEW k \in {"out", "in"}, Copier(k) PROVE endFirst' = endFirst
        BY <2>1 DEF Copier, CopyRead, CopyReadFails, CopyWrite, CopyWriteFails, Cancelled, kept, ghost
    <2>2. CASE BridgeDials
        BY <2>2, <1>u DEF BridgeDials
    <2>3. CASE BridgeCloses
        BY <2>3, <1>u DEF BridgeCloses, kept, ghost
    <2>4. CASE Endpoint
        BY <2>4, <1>u DEF Endpoint, EndpointReads, EndpointAnswersClose, EndpointSends,
                          EndpointHangsUp, EndpointDrops, First
    <2>. QED
        BY <1>u, <2>1, <2>2, <2>3, <2>4 DEF Elsewhere
<1>b. Undisturbed /\ Blameless /\ (Talking => Intact)
    BY <1>u, <1>e, <1>d DEF Undisturbed, BlameInv
<1>c. Blameless'
    BY <1>b, <1>e DEF Blameless
<1>t. CASE ~Talking
    BY <1>t, <1>c, <1>e DEF Talking
<1>i. CASE Talking
    <2>. USE <1>i
    <2>i. Intact /\ inbox \in [Ends -> Seq(Call)] /\ gone = {}
        BY <1>b DEF Intact
    <2>s. SUFFICES /\ inbox' \in [Ends -> Seq(Call)] /\ gone' = {}
                   /\ ~cancelled' /\ \A k \in {"out", "in"} : copier'[k] # "done"
        BY <1>c, <1>e, <2>i DEF Intact
    <2>1. ASSUME NEW k \in {"out", "in"}, Copier(k)
          PROVE  /\ inbox' \in [Ends -> Seq(Call)] /\ gone' = {}
                 /\ ~cancelled' /\ \A j \in {"out", "in"} : copier'[j] # "done"
        <3>s. Source[k] \in Ends /\ Target[k] \in Ends
            BY TheEnds
        <3>c. copier \in [{"out", "in"} -> {"off", "dialing", "reading", "done"} \cup Call]
            BY DEF TypeInv, LinkType
        <3>1. CASE CopyRead(k)
            <4>1. inbox' \in [Ends -> Seq(Call)] /\ Head(inbox[Source[k]]) \in Call
                BY <3>1, <3>s, <2>i, TakeKeeps DEF CopyRead
            <4>2. /\ copier' = [copier EXCEPT ![k] = Head(inbox[Source[k]])]
                  /\ UNCHANGED <<gone, cancelled>>
                BY <3>1, <4>1 DEF CopyRead, Call
            <4>3. Head(inbox[Source[k]]) # "done"
                BY <4>1 DEF Call, Frames
            <4>. QED
                BY <3>c, <4>1, <4>2, <4>3, <2>i DEF Intact
        <3>2. CASE CopyReadFails(k) \/ CopyWriteFails(k) \/ Cancelled(k)
            BY <3>2, <2>i DEF CopyReadFails, CopyWriteFails, Cancelled, Broken, Intact
        <3>3. CASE CopyWrite(k)
            <4>1. copier[k] \in Call
                BY <3>3, <3>c DEF CopyWrite, Holding
            <4>2. inbox' \in [Ends -> Seq(Call)]
                BY <3>3, <3>s, <4>1, <2>i, PutKeeps DEF CopyWrite
            <4>. QED
                BY <3>3, <3>c, <4>2, <2>i DEF CopyWrite, Intact
        <3>. QED
            BY <2>1, <3>1, <3>2, <3>3 DEF Copier
    <2>2. CASE BridgeDials
        BY <2>2, <1>u, <2>i DEF BridgeDials, link, Intact
    <2>3. CASE BridgeCloses
        BY <2>3, <2>i DEF BridgeCloses, Intact
    <2>4. CASE Endpoint
        <3>1. CASE EndpointReads
            <4>1. inbox' \in [Ends -> Seq(Call)]
                BY <3>1, <2>i, TakeKeeps, TheEnds DEF EndpointReads
            <4>. QED
                BY <3>1, <4>1, <2>i DEF EndpointReads, others, bridge, Intact
        <3>2. CASE EndpointAnswersClose
            <4>1. inbox[E] \in Seq(Call) /\ inbox[E] # <<>>
                BY <3>2, <2>i, TheEnds DEF EndpointAnswersClose
            <4>2. Head(inbox[E]) \in Call
                BY <4>1
            <4>. QED
                BY <3>2, <4>2 DEF EndpointAnswersClose, Call
        <3>3. CASE EndpointSends
            <4>1. PICK f \in {"audio", "other"} : Put(E, f)
                BY <3>3 DEF EndpointSends
            <4>2. inbox' \in [Ends -> Seq(Call)]
                BY <4>1, <2>i, PutKeeps, TheEnds DEF Call, Frames
            <4>. QED
                BY <3>3, <4>2, <2>i DEF EndpointSends, others, bridge, Intact
        <3>4. CASE EndpointHangsUp \/ EndpointDrops
            BY <3>4, <1>u DEF EndpointHangsUp, EndpointDrops, First, Talking
        <3>. QED
            BY <2>4, <3>1, <3>2, <3>3, <3>4 DEF Endpoint
    <2>. QED
        BY <2>1, <2>2, <2>3, <2>4 DEF Elsewhere
<1>. QED
    BY <1>t, <1>i

LEMMA BlameAlways == Spec => []BlameInv
<1>1. Init => BlameInv
    BY DEF Init, BlameInv, Blameless, Intact
<1>2. TypeInv /\ BlameInv /\ [Next]_vars => BlameInv'
    <2>1. CASE Next
        BY <2>1, BlameProbe, BlameElsewhere DEF Next, Elsewhere
    <2>2. CASE UNCHANGED vars
        BY <2>2 DEF vars, BlameInv, Blameless, Intact, Undisturbed, Talking, link, back, result,
                    bridge, ghost
    <2>. QED
        BY <2>1, <2>2
<1>. QED
    BY <1>1, <1>2, Typing, PTL DEF Spec

(* A call reported as hung up or lost, or a stop frame reported as not sent, *)
(* was ended or held up by the endpoint, or interrupted.                     *)
THEOREM BlameOnlyTheEndpoint == Spec => []BlameIsFair
<1>1. TypeInv /\ BlameInv => BlameIsFair
    BY DEF BlameInv, BlameIsFair, Undisturbed, Blameless, TypeInv, ProbeType, FlagType
<1>. QED
    BY <1>1, Typing, BlameAlways, PTL
-----------------------------------------------------------------------------
(* What the endpoint has sent and the reader has not counted is on its way:  *)
(* in the bridge's inbox, in the hand of its copier, or in the probe's own.  *)

\* Frames of a queue; a close is none.
Carried(q) == Cardinality({i \in DOMAIN q : q[i] # "close"})

\* A frame appended is one more on its way, unless it is a close.
LEMMA CarriedAppend ==
    ASSUME NEW F, NEW q \in Seq(F), NEW f \in F
    PROVE  /\ Carried(q) \in Nat
           /\ Carried(Append(q, f)) = IF f = "close" THEN Carried(q) ELSE Carried(q) + 1
<1>. DEFINE n == Len(q)
            S == {i \in 1 .. n : q[i] # "close"}
            T == {i \in 1 .. n + 1 : Append(q, f)[i] # "close"}
<1>1. n \in Nat /\ DOMAIN q = 1 .. n /\ DOMAIN Append(q, f) = 1 .. n + 1
    OBVIOUS
<1>2. IsFiniteSet(S) /\ Cardinality(S) \in Nat
    <2>1. IsFiniteSet(1 .. n)
        BY <1>1, FS_Interval
    <2>. QED
        BY <2>1, FS_Subset, FS_CardinalityType
<1>3. T = IF f = "close" THEN S ELSE S \cup {n + 1}
    BY <1>1
<1>4. n + 1 \notin S
    BY <1>1
<1>5. Carried(q) = Cardinality(S) /\ Carried(Append(q, f)) = Cardinality(T)
    BY <1>1 DEF Carried
<1>. HIDE DEF S, T
<1>6. Cardinality(S \cup {n + 1}) = IF n + 1 \in S THEN Cardinality(S) ELSE Cardinality(S) + 1
    BY <1>2, FS_AddElement
<1>. QED
    BY <1>2, <1>3, <1>4, <1>5, <1>6

\* A frame taken is one less.
LEMMA CarriedTail ==
    ASSUME NEW F, NEW q \in Seq(F), q # <<>>
    PROVE  /\ Carried(q) \in Nat /\ Carried(Tail(q)) \in Nat
           /\ Carried(q) = IF Head(q) = "close" THEN Carried(Tail(q)) ELSE Carried(Tail(q)) + 1
<1>. DEFINE n == Len(q)
            S == {i \in 1 .. n : q[i] # "close"}
            T == {i \in 1 .. n - 1 : Tail(q)[i] # "close"}
            shift == [i \in T |-> i + 1]
<1>1. /\ n \in Nat /\ n >= 1 /\ Head(q) = q[1]
      /\ DOMAIN q = 1 .. n /\ DOMAIN Tail(q) = 1 .. n - 1
      /\ \A i \in 1 .. n - 1 : Tail(q)[i] = q[i + 1]
    OBVIOUS
<1>2. IsFiniteSet(S) /\ Cardinality(S) \in Nat /\ IsFiniteSet(T) /\ Cardinality(T) \in Nat
    <2>1. IsFiniteSet(1 .. n) /\ IsFiniteSet(1 .. n - 1)
        BY <1>1, FS_Interval
    <2>. QED
        BY <2>1, FS_Subset, FS_CardinalityType
<1>3. shift \in Bijection(T, S \ {1})
    <2>1. \A i \in T : i + 1 \in S \ {1}
        BY <1>1
    <2>2. \A j \in S \ {1} : j - 1 \in T /\ (j - 1) + 1 = j
        BY <1>1
    <2>3. shift \in [T -> S \ {1}]
        BY <2>1
    <2>4. \A i, j \in T : shift[i] = shift[j] => i = j
        BY <1>1
    <2>5. \A j \in S \ {1} : \E i \in T : shift[i] = j
        BY <2>2
    <2>. HIDE DEF shift, S, T
    <2>. QED
        BY <2>3, <2>4, <2>5 DEF Bijection, Injection, Surjection, IsInjective
<1>4. Cardinality(S \ {1}) = Cardinality(T)
    BY <1>2, <1>3, FS_Bijection DEF ExistsBijection
<1>5. Carried(q) = Cardinality(S) /\ Carried(Tail(q)) = Cardinality(T)
    BY <1>1 DEF Carried
<1>6. 1 \in S <=> Head(q) # "close"
    BY <1>1
<1>. HIDE DEF S, T
<1>7. Cardinality(S \ {1}) = IF 1 \in S THEN Cardinality(S) - 1 ELSE Cardinality(S)
    BY <1>2, FS_RemoveElement
<1>. QED
    BY <1>2, <1>4, <1>5, <1>6, <1>7

OnTheWay ==
    Carried(inbox[Far("client")]) + (IF Holding("in") THEN 1 ELSE 0) + Carried(inbox[P])

CountInv ==
    /\ sentBack \in 0 .. Back
    /\ rb.playAudio <= rb.frames
    /\ rb.frames + OnTheWay <= sentBack

LEMMA PutCounts ==
    ASSUME inbox \in [Ends -> Seq(Frames)], NEW e \in Ends, NEW f \in Frames, Put(e, f)
    PROVE  /\ \A x \in Ends : x # Peer(e) => inbox'[x] = inbox[x]
           /\ Carried(inbox'[Peer(e)]) \in Nat /\ Carried(inbox[Peer(e)]) \in Nat
           /\ Carried(inbox'[Peer(e)]) <= Carried(inbox[Peer(e)]) + (IF f = "close" THEN 0 ELSE 1)
<1>1. Peer(e) \in Ends /\ inbox[Peer(e)] \in Seq(Frames)
    BY DEF Peer, Ends
<1>2. /\ Carried(inbox[Peer(e)]) \in Nat
      /\ Carried(Append(inbox[Peer(e)], f)) =
             IF f = "close" THEN Carried(inbox[Peer(e)]) ELSE Carried(inbox[Peer(e)]) + 1
    BY <1>1, CarriedAppend
<1>3. CASE Peer(e) \in gone
    BY <1>2, <1>3 DEF Put
<1>4. CASE Peer(e) \notin gone
    <2>1. /\ inbox'[Peer(e)] = Append(inbox[Peer(e)], f)
          /\ \A x \in Ends : x # Peer(e) => inbox'[x] = inbox[x]
        BY <1>1, <1>4 DEF Put
    <2>. QED
        BY <1>2, <2>1
<1>. QED
    BY <1>3, <1>4

LEMMA TakeCounts ==
    ASSUME inbox \in [Ends -> Seq(Frames)], NEW e \in Ends, Take(e)
    PROVE  /\ \A x \in Ends : x # e => inbox'[x] = inbox[x]
           /\ Carried(inbox'[e]) \in Nat /\ Carried(inbox[e]) \in Nat
           /\ Carried(inbox[e]) = IF Head(inbox[e]) = "close" THEN Carried(inbox'[e])
                                  ELSE Carried(inbox'[e]) + 1
<1>1. inbox[e] \in Seq(Frames) /\ inbox[e] # <<>> /\ inbox'[e] = Tail(inbox[e])
    BY DEF Take
<1>2. \A x \in Ends : x # e => inbox'[x] = inbox[x]
    BY DEF Take
<1>. QED
    BY <1>1, <1>2, CarriedTail

LEMMA ThePeers ==
    /\ Peer(P) = Near("server") /\ Peer(Near("server")) = P
    /\ Peer(Far("client")) = Far("server") /\ Peer(Far("server")) = Far("client")
    /\ P # Near("server") /\ P # Far("server") /\ P # Far("client")
    /\ Far("client") # Near("server") /\ Far("client") # Far("server")
    /\ P \in Ends /\ Far("client") \in Ends
    /\ E \in {Near("server"), Far("server")}
    /\ Peer(E) \in {P, Far("client")}
    /\ Source["in"] = Far("client") /\ Target["in"] = Near("server")
    /\ Source["out"] = Near("server") /\ Target["out"] = Far("client")
BY DEF Peer, P, E, Ends, Near, Far, Source, Target

\* Nothing more on its way than before, and nothing more counted.
LEMMA NoMore ==
    ASSUME TypeInv, TypeInv', CountInv, UNCHANGED <<rb, sentBack>>,
           Carried(inbox'[P]) <= Carried(inbox[P]),
           Carried(inbox'[Far("client")]) <= Carried(inbox[Far("client")]),
           Holding("in")' => Holding("in")
    PROVE  CountInv'
<1>1. /\ Carried(inbox[P]) \in Nat /\ Carried(inbox'[P]) \in Nat
      /\ Carried(inbox[Far("client")]) \in Nat /\ Carried(inbox'[Far("client")]) \in Nat
    <2>1. /\ inbox[P] \in Seq(Frames) /\ inbox'[P] \in Seq(Frames)
          /\ inbox[Far("client")] \in Seq(Frames) /\ inbox'[Far("client")] \in Seq(Frames)
        BY ThePeers DEF TypeInv, LinkType
    <2>2. "close" \in Frames
        BY DEF Frames
    <2>. QED
        BY <2>1, <2>2, CarriedAppend
<1>2. rb.frames \in Nat /\ sentBack \in Int
    BY DEF TypeInv, ProbeType, CountInv
<1>3. OnTheWay' <= OnTheWay /\ OnTheWay \in Nat /\ OnTheWay' \in Nat
    <2>1. P' = P /\ Far("client")' = Far("client")
        BY DEF P, Near, Far
    <2>. QED
        BY <1>1, <2>1 DEF OnTheWay
<1>. QED
    BY <1>2, <1>3 DEF CountInv

LEMMA CountProbe ==
    ASSUME TypeInv, TypeInv', CountInv, Probe \/ Reader \/ Interrupt
    PROVE  CountInv'
<1>q. inbox \in [Ends -> Seq(Frames)]
    BY DEF TypeInv, LinkType
<1>n. \A x \in Ends : Carried(inbox[x]) \in Nat
    <2>1. "close" \in Frames
        BY DEF Frames
    <2>. QED
        BY <1>q, <2>1, CarriedAppend
<1>h. ASSUME UNCHANGED <<inbox, rb, sentBack>>, Holding("in")' => Holding("in")
      PROVE  CountInv'
    BY <1>h, <1>n, ThePeers, NoMore
<1>p. ASSUME NEW f \in Frames, Put(P, f), UNCHANGED <<rb, sentBack, copier>>
      PROVE  CountInv'
    BY <1>p, <1>q, <1>n, PutCounts, ThePeers, NoMore DEF Holding
<1>f. {"start", "media", "stop", "close"} \subseteq Frames
    BY DEF Frames
<1>1. CASE Fetch \/ CheckStream
    BY <1>1, <1>h DEF Fetch, CheckStream, unsent, link, back, bridge, ghost, Holding
<1>2. CASE Dial
    <2>1. UNCHANGED <<inbox, rb, sentBack>>
        BY <1>2 DEF Dial, link, back, ghost
    <2>2. Holding("in")' => Holding("in")
        BY <1>2 DEF Dial, Holding
    <2>. QED
        BY <1>h, <2>1, <2>2
<1>3. CASE SendStart \/ SendMedia \/ SendStop
    <2>1. UNCHANGED <<rb, sentBack, copier>>
        BY <1>3 DEF SendStart, SendMedia, SendStop, back, bridge
    <2>2. \/ inbox' = inbox
          \/ \E f \in {"start", "media", "stop"} : Put(P, f)
        BY <1>3 DEF SendStart, SendMedia, SendStop, Write, WriteFails, link
    <2>. QED
        BY <1>f, <1>h, <1>p, <2>1, <2>2 DEF Holding
<1>4. CASE Wait \/ Moment \/ HungUp \/ Fail \/ StopReader("fail") \/ StopReader("closing") \/ Interrupt
    BY <1>4, <1>h DEF Wait, Moment, HungUp, Fail, StopReader, Interrupt, link, back, bridge, ghost, Holding
<1>5. CASE Close
    <2>1. UNCHANGED <<rb, sentBack, copier>> /\ (inbox' = inbox \/ Put(P, "close"))
        BY <1>5 DEF Close, back, bridge, ghost
    <2>. QED
        BY <1>f, <1>h, <1>p, <2>1 DEF Holding
<1>6. CASE Finish
    BY <1>6, <1>h DEF Finish, back, bridge, ghost, Holding
<1>7. CASE Leave
    BY <1>7, <1>h DEF Leave, link, bridge, ghost, Holding
<1>8. CASE ReadFails
    <2>1. UNCHANGED <<inbox, sentBack, copier>> /\ rb' = [rb EXCEPT !.err = rb'.err]
        BY <1>8 DEF ReadFails, bridge, ghost, TypeInv, ProbeType
    <2>2. rb'.frames = rb.frames /\ rb'.playAudio = rb.playAudio
        BY <2>1 DEF TypeInv, ProbeType
    <2>3. OnTheWay' = OnTheWay
        BY <2>1 DEF OnTheWay, Holding, P, Near, Far
    <2>. QED
        BY <2>1, <2>2, <2>3 DEF CountInv
<1>9. CASE Read
    <2>1. UNCHANGED <<sentBack, copier>> /\ Take(P)
        BY <1>9 DEF Read, bridge, ghost
    <2>2. /\ inbox'[Far("client")] = inbox[Far("client")]
          /\ Carried(inbox'[P]) \in Nat /\ Carried(inbox[P]) \in Nat
          /\ Carried(inbox[P]) = IF Head(inbox[P]) = "close" THEN Carried(inbox'[P])
                                 ELSE Carried(inbox'[P]) + 1
        BY <1>q, <2>1, TakeCounts, ThePeers
    <2>3. /\ Holding("in")' = Holding("in") /\ P' = P /\ Far("client")' = Far("client")
          /\ Carried(inbox[Far("client")]) \in Nat
        BY <1>n, <2>1, ThePeers DEF Holding, P, Near, Far
    <2>4. /\ rb'.frames = (IF Head(inbox[P]) = "close" THEN rb.frames ELSE rb.frames + 1)
          /\ rb'.playAudio \in {rb.playAudio, rb.playAudio + 1}
          /\ Head(inbox[P]) = "close" => rb'.playAudio = rb.playAudio
        <3>1. CASE Head(inbox[P]) = "close"
            BY <1>9, <3>1 DEF Read, TypeInv, ProbeType
        <3>2. CASE Head(inbox[P]) # "close"
            BY <1>9, <3>2 DEF Read, TypeInv, ProbeType
        <3>. QED
            BY <3>1, <3>2
    <2>5. rb.frames \in Nat /\ rb.playAudio \in Nat /\ sentBack \in Int
        BY DEF TypeInv, ProbeType, CountInv
    <2>6. OnTheWay = Carried(inbox[Far("client")]) + (IF Holding("in") THEN 1 ELSE 0) + Carried(inbox[P])
        BY DEF OnTheWay
    <2>7. OnTheWay' = Carried(inbox[Far("client")]) + (IF Holding("in") THEN 1 ELSE 0) + Carried(inbox'[P])
        BY <2>2, <2>3 DEF OnTheWay
    <2>8. rb'.frames + OnTheWay' = rb.frames + OnTheWay
        <3>1. CASE Holding("in")
            BY <2>2, <2>3, <2>4, <2>5, <2>6, <2>7, <3>1
        <3>2. CASE ~Holding("in")
            BY <2>2, <2>3, <2>4, <2>5, <2>6, <2>7, <3>2
        <3>. QED
            BY <3>1, <3>2
    <2>9. rb'.playAudio <= rb'.frames
        <3>1. rb.playAudio <= rb.frames
            BY DEF CountInv
        <3>2. CASE Head(inbox[P]) = "close"
            BY <2>4, <2>5, <3>1, <3>2
        <3>3. CASE Head(inbox[P]) # "close"
            BY <2>4, <2>5, <3>1, <3>3
        <3>. QED
            BY <3>2, <3>3
    <2>. QED
        BY <2>1, <2>8, <2>9 DEF CountInv
<1>. QED
    BY <1>1, <1>2, <1>3, <1>4, <1>5, <1>6, <1>7, <1>8, <1>9 DEF Probe, Reader

\* A frame the bridge copies back is in one place after another.
LEMMA CountCopier ==
    ASSUME TypeInv, TypeInv', CountInv, NEW k \in {"out", "in"}, Copier(k)
    PROVE  CountInv'
<1>q. /\ inbox \in [Ends -> Seq(Frames)]
      /\ copier \in [{"out", "in"} -> {"off", "dialing", "reading", "done"} \cup Call]
    BY DEF TypeInv, LinkType
<1>u. UNCHANGED <<rb, sentBack>>
    BY DEF Copier, CopyRead, CopyReadFails, CopyWrite, CopyWriteFails, Cancelled, kept, back, ghost
<1>n. \A x \in Ends : Carried(inbox[x]) \in Nat
    <2>1. "close" \in Frames
        BY DEF Frames
    <2>. QED
        BY <1>q, <2>1, CarriedAppend
<1>1. CASE CopyReadFails(k) \/ CopyWriteFails(k) \/ Cancelled(k)
    <2>1. inbox' = inbox /\ copier' = [copier EXCEPT ![k] = "done"]
        BY <1>1 DEF CopyReadFails, CopyWriteFails, Cancelled, CopyEnds
    <2>2. Holding("in")' => Holding("in")
        BY <1>q, <2>1 DEF Holding
    <2>. QED
        BY <1>n, <1>u, <2>1, <2>2, ThePeers, NoMore
<1>2. CASE k = "out" /\ CopyRead(k)
    <2>1. copier'["in"] = copier["in"] /\ Take(Near("server"))
        BY <1>q, <1>2, ThePeers DEF CopyRead, CopyEnds
    <2>2. Near("server") \in Ends
        BY DEF Near, Ends
    <2>3. inbox'[P] = inbox[P] /\ inbox'[Far("client")] = inbox[Far("client")]
        BY <1>q, <2>1, <2>2, TakeCounts, ThePeers
    <2>. QED
        BY <1>n, <1>u, <2>1, <2>3, ThePeers, NoMore DEF Holding
<1>3. CASE k = "out" /\ CopyWrite(k)
    <2>1. copier'["in"] = copier["in"] /\ Put(Far("client"), copier["out"])
        BY <1>q, <1>3, ThePeers DEF CopyWrite
    <2>2. copier["out"] \in Frames
        BY <1>q, <1>3 DEF CopyWrite, Holding, Call
    <2>3. inbox'[P] = inbox[P] /\ inbox'[Far("client")] = inbox[Far("client")]
        BY <1>q, <2>1, <2>2, PutCounts, ThePeers
    <2>. QED
        BY <1>n, <1>u, <2>1, <2>3, ThePeers, NoMore DEF Holding
<1>. DEFINE a == Carried(inbox[Far("client")])
            b == Carried(inbox[P])
<1>a. /\ a \in Nat /\ b \in Nat /\ rb.frames \in Nat /\ sentBack \in Int
      /\ P' = P /\ Far("client")' = Far("client")
    BY <1>n, ThePeers DEF TypeInv, ProbeType, CountInv, P, Near, Far
<1>4. CASE k = "in" /\ CopyRead(k)
    <2>1. Take(Far("client")) /\ ~Holding("in")
        BY <1>4, ThePeers DEF CopyRead, Holding
    <2>2. /\ inbox'[P] = inbox[P]
          /\ Carried(inbox'[Far("client")]) \in Nat
          /\ a = IF Head(inbox[Far("client")]) = "close" THEN Carried(inbox'[Far("client")])
                 ELSE Carried(inbox'[Far("client")]) + 1
        BY <1>q, <2>1, TakeCounts, ThePeers
    <2>3. Head(inbox[Far("client")]) = "close" => ~Holding("in")'
        BY <1>q, <1>4, ThePeers DEF CopyRead, CopyEnds, Holding
    <2>4. /\ OnTheWay = a + b
          /\ OnTheWay' = Carried(inbox'[Far("client")]) + (IF Holding("in")' THEN 1 ELSE 0) + b
        BY <1>a, <2>1, <2>2 DEF OnTheWay
    <2>. HIDE DEF a, b
    <2>5. OnTheWay' <= OnTheWay /\ OnTheWay \in Nat /\ OnTheWay' \in Nat
        <3>1. CASE Holding("in")'
            BY <1>a, <2>2, <2>3, <2>4, <3>1
        <3>2. CASE ~Holding("in")'
            BY <1>a, <2>2, <2>4, <3>2
        <3>. QED
            BY <3>1, <3>2
    <2>. QED
        BY <1>a, <1>u, <2>5 DEF CountInv
<1>5. CASE k = "in" /\ CopyWrite(k)
    <2>1. Put(Near("server"), copier["in"]) /\ Holding("in") /\ ~Holding("in")'
        BY <1>q, <1>5, ThePeers DEF CopyWrite, Holding
    <2>2. copier["in"] \in Frames /\ Near("server") \in Ends
        BY <1>q, <2>1 DEF Holding, Call, Near, Ends
    <2>3. /\ inbox'[Far("client")] = inbox[Far("client")]
          /\ Carried(inbox'[P]) \in Nat /\ Carried(inbox'[P]) <= b + 1
        <3>1. copier["in"] # "close"
            BY <1>q, <2>1 DEF Holding, Call
        <3>2. /\ \A x \in Ends : x # Peer(Near("server")) => inbox'[x] = inbox[x]
              /\ Carried(inbox'[Peer(Near("server"))]) \in Nat
              /\ Carried(inbox'[Peer(Near("server"))]) <= Carried(inbox[Peer(Near("server"))]) + 1
            BY <1>q, <2>1, <2>2, <3>1, PutCounts
        <3>. QED
            BY <3>2, ThePeers
    <2>4. OnTheWay = a + 1 + b /\ OnTheWay' = a + Carried(inbox'[P])
        BY <1>a, <2>1, <2>3 DEF OnTheWay
    <2>. HIDE DEF a, b
    <2>5. OnTheWay' <= OnTheWay /\ OnTheWay \in Nat /\ OnTheWay' \in Nat
        BY <1>a, <2>3, <2>4
    <2>. QED
        BY <1>a, <1>u, <2>5 DEF CountInv
<1>. QED
    BY <1>1, <1>2, <1>3, <1>4, <1>5 DEF Copier

LEMMA CountEnds ==
    ASSUME TypeInv, TypeInv', CountInv, BridgeDials \/ BridgeCloses \/ Endpoint
    PROVE  CountInv'
<1>q. inbox \in [Ends -> Seq(Frames)]
    BY DEF TypeInv, LinkType
<1>f. {"audio", "other", "close"} \subseteq Frames
    BY DEF Frames
<1>n. \A x \in Ends : Carried(inbox[x]) \in Nat
    BY <1>q, <1>f, CarriedAppend
<1>e. E \in Ends /\ Near("server") \in Ends
    BY TheEnds
<1>c. ASSUME NEW e \in Ends, Put(e, "close"), UNCHANGED <<rb, sentBack>>,
             Holding("in")' => Holding("in")
      PROVE  CountInv'
    <2>1. \A x \in Ends : Carried(inbox'[x]) <= Carried(inbox[x])
        <3>1. CASE Peer(e) \in gone
            BY <1>c, <1>n, <3>1 DEF Put
        <3>2. CASE Peer(e) \notin gone
            <4>1. /\ \A x \in Ends : x # Peer(e) => inbox'[x] = inbox[x]
                  /\ Carried(inbox'[Peer(e)]) <= Carried(inbox[Peer(e)]) + 0
                  /\ Peer(e) \in Ends /\ Carried(inbox'[Peer(e)]) \in Nat
                BY <1>c, <1>q, <1>f, PutCounts DEF Peer, Ends
            <4>2. Carried(inbox'[Peer(e)]) <= Carried(inbox[Peer(e)])
                BY <1>n, <4>1
            <4>. QED
                BY <1>n, <4>1, <4>2
        <3>. QED
            BY <3>1, <3>2
    <2>. QED
        BY <1>c, <2>1, ThePeers, NoMore
<1>h. ASSUME UNCHANGED <<inbox, rb, sentBack>>, Holding("in")' => Holding("in")
      PROVE  CountInv'
    BY <1>h, <1>n, ThePeers, NoMore
<1>1. CASE BridgeDials
    <2>1. UNCHANGED <<rb, sentBack>> /\ ~Holding("in")'
        BY <1>1 DEF BridgeDials, back, Holding
    <2>2. inbox' = inbox \/ Put(Near("server"), "close")
        BY <1>1 DEF BridgeDials, link
    <2>. QED
        BY <1>c, <1>e, <1>h, <2>1, <2>2
<1>2. CASE BridgeCloses
    <2>1. UNCHANGED <<rb, sentBack, copier>>
        BY <1>2 DEF BridgeCloses, kept, back, bridge, ghost
    <2>2. ASSUME NEW x \in Ends PROVE Carried(inbox'[x]) <= Carried(inbox[x])
        <3>1. inbox'[x] = inbox[x] \/ inbox'[x] = Append(inbox[x], "close")
            BY <1>2 DEF BridgeCloses
        <3>2. inbox[x] \in Seq(Frames) /\ "close" \in Frames
            BY <1>q, <1>f
        <3>3. Carried(Append(inbox[x], "close")) = Carried(inbox[x]) /\ Carried(inbox[x]) \in Nat
            BY <3>2, CarriedAppend
        <3>4. Carried(inbox'[x]) = Carried(inbox[x])
            BY <3>1, <3>3
        <3>. QED
            BY <3>3, <3>4
    <2>. QED
        BY <2>1, <2>2, ThePeers, NoMore DEF Holding
<1>3. CASE EndpointReads
    <2>1. UNCHANGED <<rb, sentBack, copier>> /\ Take(E)
        BY <1>3 DEF EndpointReads, others, back, bridge
    <2>e. E # P /\ E # Far("client")
        BY ThePeers
    <2>t. \A x \in Ends : x # E => inbox'[x] = inbox[x]
        BY <1>q, <1>e, <2>1, TakeCounts
    <2>2. inbox'[P] = inbox[P] /\ inbox'[Far("client")] = inbox[Far("client")]
        BY <2>e, <2>t, ThePeers
    <2>. QED
        BY <1>n, <2>1, <2>2, ThePeers, NoMore DEF Holding
<1>4. CASE EndpointAnswersClose \/ EndpointHangsUp
    <2>1. UNCHANGED <<rb, sentBack, copier>> /\ Put(E, "close")
        BY <1>4 DEF EndpointAnswersClose, EndpointHangsUp, others, back, bridge
    <2>. QED
        BY <1>c, <1>e, <2>1 DEF Holding
<1>5. CASE EndpointDrops
    BY <1>5, <1>h DEF EndpointDrops, others, back, bridge, Holding
<1>6. CASE EndpointSends
    <2>1. /\ UNCHANGED <<rb, copier>> /\ sentBack' = sentBack + 1 /\ sentBack < Back
          /\ \E f \in {"audio", "other"} : Put(E, f)
        BY <1>6 DEF EndpointSends, others, back, bridge
    <2>2. PICK f \in {"audio", "other"} : Put(E, f)
        BY <2>1
    <2>3. Peer(E) \in {P, Far("client")} /\ Peer(E) \in Ends /\ f \in Frames
        BY <1>f, ThePeers
    <2>4. /\ \A x \in Ends : x # Peer(E) => inbox'[x] = inbox[x]
          /\ Carried(inbox'[Peer(E)]) \in Nat /\ Carried(inbox[Peer(E)]) \in Nat
          /\ Carried(inbox'[Peer(E)]) <= Carried(inbox[Peer(E)]) + 1
        BY <1>q, <1>e, <2>2, <2>3, PutCounts
    <2>. DEFINE a == Carried(inbox[Far("client")])
                b == Carried(inbox[P])
                a2 == Carried(inbox'[Far("client")])
                b2 == Carried(inbox'[P])
                h == IF Holding("in") THEN 1 ELSE 0
    <2>5. /\ a \in Nat /\ b \in Nat /\ a2 \in Nat /\ b2 \in Nat /\ h \in Nat
          /\ a2 + b2 <= a + b + 1
        <3>1. a \in Nat /\ b \in Nat /\ h \in Nat
            BY <1>n, ThePeers
        <3>2. CASE Peer(E) = P
            <4>1. a2 = a /\ b2 \in Nat /\ b2 <= b + 1
                BY <2>4, <3>2, ThePeers
            <4>. QED
                BY <3>1, <4>1
        <3>3. CASE Peer(E) = Far("client")
            <4>1. b2 = b /\ a2 \in Nat /\ a2 <= a + 1
                BY <2>4, <3>3, ThePeers
            <4>. QED
                BY <3>1, <4>1
        <3>. QED
            BY <2>3, <3>2, <3>3
    <2>6. OnTheWay = a + h + b /\ OnTheWay' = a2 + h + b2
        BY <2>1 DEF OnTheWay, Holding, P, Near, Far
    <2>7. rb.frames \in Nat /\ sentBack \in 0 .. Back /\ Back \in Nat
        BY StreamsAssumption DEF TypeInv, ProbeType, CountInv
    <2>. HIDE DEF a, b, a2, b2, h
    <2>8. OnTheWay' <= OnTheWay + 1 /\ OnTheWay \in Nat /\ OnTheWay' \in Nat
        BY <2>5, <2>6
    <2>9. sentBack' \in 0 .. Back
        BY <2>1, <2>7
    <2>. QED
        BY <2>1, <2>7, <2>8, <2>9 DEF CountInv
<1>. QED
    BY <1>1, <1>2, <1>3, <1>4, <1>5, <1>6 DEF Endpoint

LEMMA CountAlways == Spec => []CountInv
<1>1. Init => CountInv
    <2>. SUFFICES ASSUME Init PROVE CountInv
        OBVIOUS
    <2>1. Carried(<<>>) = 0
        <3>1. {i \in DOMAIN <<>> : <<>>[i] # "close"} = {}
            OBVIOUS
        <3>. QED
            BY <3>1, FS_EmptySet DEF Carried
    <2>2. inbox[P] = <<>> /\ inbox[Far("client")] = <<>> /\ ~Holding("in")
        BY ThePeers DEF Init, Holding
    <2>3. OnTheWay = 0
        BY <2>1, <2>2 DEF OnTheWay
    <2>. QED
        BY <2>3, StreamsAssumption DEF Init, CountInv
<1>2. TypeInv /\ TypeInv' /\ CountInv /\ [Next]_vars => CountInv'
    <2>. SUFFICES ASSUME TypeInv, TypeInv', CountInv, [Next]_vars PROVE CountInv'
        OBVIOUS
    <2>1. CASE Next
        BY <2>1, CountProbe, CountCopier, CountEnds DEF Next
    <2>2. CASE UNCHANGED vars
        BY <2>2 DEF vars, CountInv, OnTheWay, Holding, P, Near, Far, link, back, bridge, ghost
    <2>. QED
        BY <2>1, <2>2
<1>. QED
    BY <1>1, <1>2, Typing, PTL DEF Spec

\* The checks that can have failed, of the commands there are.
FailedType == opts \in Runs /\ failed \subseteq Checks \cup {"websocket"}

LEMMA FailedStep == FailedType /\ Next => FailedType'
<1>. SUFFICES ASSUME FailedType, Next PROVE FailedType'
    OBVIOUS
<1>. USE DEF FailedType
<1>e. ASSUME NEW v, CallEnds(v), UNCHANGED opts PROVE FailedType'
    BY <1>e DEF CallEnds
<1>1. CASE Elsewhere
    BY <1>1, ElsewhereKeeps
<1>2. CASE Fetch \/ CheckStream
    BY <1>2 DEF Fetch, CheckStream, Checks
<1>3. CASE Dial \/ SendStart \/ Fail \/ Finish
    BY <1>3, <1>e DEF Dial, SendStart, Fail, Finish
<1>4. CASE SendMedia \/ Wait \/ SendStop \/ Moment \/ HungUp \/ Close
    BY <1>4 DEF SendMedia, Wait, SendStop, Moment, HungUp, Close
<1>5. CASE StopReader("fail") \/ StopReader("closing") \/ Reader \/ Interrupt
    BY <1>5 DEF StopReader, Reader, Read, ReadFails, Leave, Interrupt
<1>. QED
    BY <1>1, <1>2, <1>3, <1>4, <1>5 DEF Next, Probe, Elsewhere

(* The types of a call, and of its counts: the reader has never counted more *)
(* than the endpoint sent, whatever the bridge, its ends and Ctrl-C made of  *)
(* the frames on their way.                                                  *)
THEOREM TypesHold == Spec => []TypeOK
<1>1. Init => FailedType
    BY DEF Init, FailedType
<1>2. FailedType /\ [Next]_vars => FailedType'
    <2>1. FailedType /\ UNCHANGED vars => FailedType'
        BY DEF FailedType, vars
    <2>. QED
        BY <2>1, FailedStep
<1>3. TypeInv /\ CountInv /\ FailedType => TypeOK
    <2>. SUFFICES ASSUME TypeInv, CountInv, FailedType PROVE TypeOK
        OBVIOUS
    <2>1. /\ \A e \in Ends : inbox[e] \in Seq({"start", "media", "stop", "audio", "other", "close"})
          /\ gone \subseteq Ends
        BY DEF TypeInv, LinkType, Frames
    <2>2. rb.playAudio \in 0 .. rb.frames /\ rb.frames \in 0 .. sentBack /\ sentBack \in 0 .. Back
        <3>1. rb.frames \in Nat /\ rb.playAudio \in Nat
            BY DEF TypeInv, ProbeType
        <3>2. OnTheWay \in Nat
            <4>1. /\ inbox[P] \in Seq(Frames) /\ inbox[Far("client")] \in Seq(Frames)
                  /\ "close" \in Frames
                BY ThePeers DEF TypeInv, LinkType, Frames
            <4>2. Carried(inbox[P]) \in Nat /\ Carried(inbox[Far("client")]) \in Nat
                BY <4>1, CarriedAppend
            <4>. QED
                BY <4>2 DEF OnTheWay
        <3>3. sentBack \in 0 .. Back /\ rb.playAudio <= rb.frames /\ rb.frames + OnTheWay <= sentBack
            BY DEF CountInv
        <3>. QED
            BY <3>1, <3>2, <3>3, StreamsAssumption
    <2>3. <<stopped, stopErr, early, cancelled, endFirst, slow>> \in [1 .. 6 -> BOOLEAN]
        <3>1. \A i \in 1 .. 6 : <<stopped, stopErr, early, cancelled, endFirst, slow>>[i] \in BOOLEAN
            <4>. TAKE i \in 1 .. 6
            <4>1. i = 1 \/ i = 2 \/ i = 3 \/ i = 4 \/ i = 5 \/ i = 6
                OBVIOUS
            <4>. QED
                BY <4>1 DEF TypeInv, FlagType
        <3>. QED
            BY <3>1
    <2>4. /\ probe \in Stages /\ frames \in 0 .. Media /\ ctx \in {"live", "done"}
          /\ reader \in {"off", "reading", "leaving", "done"}
          /\ rb.err \in {"none", "close", "lost", "stopped"}
          /\ rb.err = "none" <=> reader \in {"off", "reading"}
          /\ verdict \in Verdicts /\ (verdict = "none" <=> probe # "ended")
        BY DEF TypeInv, ProbeType
    <2>. QED
        BY <2>1, <2>2, <2>3, <2>4 DEF TypeOK, FailedType, Stages, Verdicts
<1>. QED
    BY <1>1, <1>2, <1>3, Typing, CountAlways, PTL DEF Spec

-----------------------------------------------------------------------------
(* How much of a call is ahead.  Each step of the probe is worth more than   *)
(* what it puts on a connection, a frame less with each place it reaches,    *)
(* and an end that drops more than the close it may leave.                   *)

ProbeLeft ==
    CASE probe = "fetch" -> 28 [] probe = "document" -> 27 [] probe = "dial" -> 26
      [] probe = "start" -> 19 [] probe = "send" -> 13 [] probe = "wait" -> 12
      [] probe = "stop" -> 11 [] probe = "moment" -> 7 [] probe = "hungup" -> 6
      [] probe = "close" -> 5 [] probe \in {"closing", "fail"} -> 1 [] OTHER -> 0

\* What is to be sent, by the probe and by the endpoint.
Unsent == (Media - frames) + (Back - sentBack)

\* A frame for the bridge has three places to go, or one where there is none.
Worth(e) == IF e \in {Near("server"), Far("client")} THEN 3 ELSE 1
Queued ==
    LET Queue(e) == Worth(e) * Len(inbox[e])
    IN  Queue(Near("server")) + Queue(Far("client")) + Queue(Near("client")) + Queue(Far("server"))

Up(e) == IF e \in gone THEN 0 ELSE 1
Standing == Up(Near("server")) + Up(Far("client")) + Up(Near("client")) + Up(Far("server"))

CopierLeft(k) == IF copier[k] = "done" THEN 0 ELSE IF copier[k] = "reading" THEN 1 ELSE 3
Copiers == CopierLeft("out") + CopierLeft("in")
ReaderLeft == IF reader = "reading" THEN 2 ELSE IF reader = "leaving" THEN 1 ELSE 0
SignalsLeft == (IF stopped THEN 0 ELSE 1) + (IF ctx = "live" THEN 1 ELSE 0)

Ahead ==
    ProbeLeft + 4 * Unsent + Queued + 4 * Standing + Copiers + ReaderLeft + SignalsLeft

LEMMA FourEnds ==
    Ends = {Near("server"), Far("client"), Near("client"), Far("server")}
BY DEF Ends, Near, Far

\* One queue grew, or shrank, by a frame.
LEMMA OneQueue ==
    ASSUME NEW e \in Ends, NEW d \in {-1, 0, 1},
           \A x \in Ends : /\ Len(inbox[x]) \in Nat /\ Len(inbox'[x]) \in Nat
                           /\ Len(inbox'[x]) = IF x = e THEN Len(inbox[x]) + d ELSE Len(inbox[x])
    PROVE  Queued' = Queued + d * Worth(e)
<1>. DEFINE A == Len(inbox[Near("server")])   B == Len(inbox[Far("client")])
            C == Len(inbox[Near("client")])   D == Len(inbox[Far("server")])
<1>1. /\ Near("server") \in Ends /\ Far("client") \in Ends
      /\ Near("client") \in Ends /\ Far("server") \in Ends
    BY FourEnds
<1>2. /\ Worth(Near("server")) = 3 /\ Worth(Far("client")) = 3
      /\ Worth(Near("client")) = 1 /\ Worth(Far("server")) = 1
    BY DEF Worth, Near, Far
<1>3. Queued = 3 * A + 3 * B + 1 * C + 1 * D
    BY <1>2 DEF Queued
<1>4. Queued' = 3 * A' + 3 * B' + 1 * C' + 1 * D'
    BY <1>2 DEF Queued, Worth, Near, Far
<1>5. /\ A \in Nat /\ B \in Nat /\ C \in Nat /\ D \in Nat
      /\ A' = IF e = Near("server") THEN A + d ELSE A
      /\ B' = IF e = Far("client") THEN B + d ELSE B
      /\ C' = IF e = Near("client") THEN C + d ELSE C
      /\ D' = IF e = Far("server") THEN D + d ELSE D
    BY <1>1 DEF Near, Far
<1>6. \/ /\ e = Near("server") /\ A' = A + d /\ B' = B /\ C' = C /\ D' = D
      \/ /\ e = Far("client") /\ A' = A /\ B' = B + d /\ C' = C /\ D' = D
      \/ /\ e = Near("client") /\ A' = A /\ B' = B /\ C' = C + d /\ D' = D
      \/ /\ e = Far("server") /\ A' = A /\ B' = B /\ C' = C /\ D' = D + d
    BY <1>5, FourEnds DEF Near, Far
<1>. HIDE DEF A, B, C, D
<1>. QED
    BY <1>2, <1>3, <1>4, <1>5, <1>6

\* The queues after a frame was put, or taken.
LEMMA QueuedPut ==
    ASSUME inbox \in [Ends -> Seq(Frames)], NEW e \in Ends, NEW f \in Frames, Put(e, f)
    PROVE  Queued' = Queued \/ Queued' = Queued + Worth(Peer(e))
<1>1. Peer(e) \in Ends
    BY DEF Peer, Ends
<1>2. CASE inbox' = inbox
    BY <1>2 DEF Queued
<1>3. CASE inbox' = [inbox EXCEPT ![Peer(e)] = Append(@, f)]
    <2>1. \A x \in Ends : /\ Len(inbox[x]) \in Nat /\ Len(inbox'[x]) \in Nat
                          /\ Len(inbox'[x]) = IF x = Peer(e) THEN Len(inbox[x]) + 1
                                              ELSE Len(inbox[x])
        BY <1>1, <1>3
    <2>2. Queued' = Queued + 1 * Worth(Peer(e))
        BY <1>1, <2>1, OneQueue
    <2>. QED
        BY <2>2 DEF Worth
<1>. QED
    BY <1>2, <1>3 DEF Put

LEMMA QueuedTake ==
    ASSUME inbox \in [Ends -> Seq(Frames)], NEW e \in Ends, Take(e)
    PROVE  Queued' = Queued + (-1) * Worth(e)
<1>1. inbox[e] \in Seq(Frames) /\ inbox[e] # <<>> /\ inbox' = [inbox EXCEPT ![e] = Tail(@)]
    BY DEF Take
<1>2. \A x \in Ends : /\ Len(inbox[x]) \in Nat /\ Len(inbox'[x]) \in Nat
                      /\ Len(inbox'[x]) = IF x = e THEN Len(inbox[x]) + (-1)
                                          ELSE Len(inbox[x])
    BY <1>1
<1>. QED
    BY <1>2, OneQueue

LEMMA QueuedType ==
    ASSUME inbox \in [Ends -> Seq(Frames)]
    PROVE  Queued \in Nat
<1>1. \A x \in Ends : Len(inbox[x]) \in Nat
    OBVIOUS
<1>. QED
    BY <1>1, FourEnds DEF Queued, Worth, Near, Far

\* The ends after one dropped.
LEMMA StandingDrop ==
    ASSUME NEW es, Drop(es)
    PROVE  /\ Standing \in Nat /\ Standing' \in Nat /\ Standing' <= Standing
           /\ \A e \in Ends : e \in es \ gone => Standing' <= Standing - 1
BY FourEnds DEF Standing, Up, Drop, Near, Far

\* Each part is a number, so all of it is.
PartsType ==
    /\ ProbeLeft \in Nat /\ Unsent \in Nat /\ Queued \in Nat /\ Standing \in Nat
    /\ CopierLeft("out") \in Nat /\ CopierLeft("in") \in Nat
    /\ ReaderLeft \in Nat /\ SignalsLeft \in Nat

LEMMA PartsAreNumbers == TypeInv /\ CountInv => PartsType /\ Ahead \in Nat
<1>. SUFFICES ASSUME TypeInv, CountInv PROVE PartsType /\ Ahead \in Nat
    OBVIOUS
<1>1. ProbeLeft \in Nat
    BY DEF ProbeLeft, TypeInv, ProbeType, Stages
<1>2. Unsent \in Nat
    BY StreamsAssumption DEF Unsent, TypeInv, ProbeType, CountInv
<1>3. Queued \in Nat
    BY QueuedType DEF TypeInv, LinkType
<1>4. Standing \in Nat /\ CopierLeft("out") \in Nat /\ CopierLeft("in") \in Nat
      /\ ReaderLeft \in Nat /\ SignalsLeft \in Nat
    BY DEF Standing, Up, CopierLeft, ReaderLeft, SignalsLeft
<1>. QED
    BY <1>1, <1>2, <1>3, <1>4 DEF PartsType, Copiers, Ahead

LEMMA PartsAreNumbersNext == (TypeInv /\ CountInv)' => PartsType'
BY PartsAreNumbers, PTL

\* What is left alone stays as it is.
LEMMA PartsLeftAlone ==
    /\ probe' = probe => ProbeLeft' = ProbeLeft
    /\ UNCHANGED <<frames, sentBack>> => Unsent' = Unsent
    /\ inbox' = inbox => Queued' = Queued
    /\ gone' = gone => Standing' = Standing
    /\ \A k \in {"out", "in"} : copier'[k] = copier[k] => CopierLeft(k)' = CopierLeft(k)
    /\ reader' = reader => ReaderLeft' = ReaderLeft
    /\ UNCHANGED <<stopped, ctx>> => SignalsLeft' = SignalsLeft
BY DEF ProbeLeft, Unsent, Queued, Standing, Up, CopierLeft, ReaderLeft, SignalsLeft

\* Writing: a frame for the bridge or the endpoint, or an end that drops.
LEMMA WriteCosts ==
    ASSUME TypeInv, NEW f \in Frames
    PROVE  /\ Put(P, f) => Queued' <= Queued + 3
           /\ Put(E, f) => Queued' <= Queued + 3
           /\ WriteFails(P) => (Queued' = Queued /\ Standing' <= Standing)
<1>1. ASSUME NEW e \in Ends, Put(e, f) PROVE Queued' <= Queued + 3
    <2>1. Queued' = Queued \/ Queued' = Queued + Worth(Peer(e))
        BY <1>1, QueuedPut DEF TypeInv, LinkType
    <2>2. Queued \in Nat
        BY QueuedType DEF TypeInv, LinkType
    <2>. QED
        BY <2>1, <2>2 DEF Worth
<1>2. WriteFails(P) => (Queued' = Queued /\ Standing' <= Standing)
    BY PartsLeftAlone, StandingDrop DEF WriteFails
<1>. QED
    BY <1>1, <1>2, TheEnds

\* A step of the probe.
LEMMA ProbeGoesOn ==
    ASSUME TypeInv, CountInv, (TypeInv /\ CountInv)', Probe
    PROVE  Ahead' < Ahead
<1>t. PartsType /\ PartsType'
    BY PartsAreNumbers, PartsAreNumbersNext
<1>1. CASE Fetch \/ CheckStream \/ Wait \/ Moment \/ HungUp \/ Fail
    <2>1. ProbeLeft' < ProbeLeft
        <3>1. CASE CheckStream
            <4>1. probe = "document" /\ probe' \in {"ended", "dial"}
                BY <3>1 DEF CheckStream, End
            <4>. QED
                BY <4>1 DEF ProbeLeft
        <3>2. CASE Fetch \/ Wait \/ Moment
            BY <3>2 DEF Fetch, Wait, Moment, End, ProbeLeft
        <3>3. CASE HungUp \/ Fail
            BY <3>3 DEF HungUp, Fail, CallEnds, End, ProbeLeft
        <3>. QED
            BY <1>1, <3>1, <3>2, <3>3
    <2>2. UNCHANGED <<inbox, gone, frames, sentBack, copier, reader, stopped, ctx>>
        BY <1>1 DEF Fetch, CheckStream, Wait, Moment, HungUp, Fail, unsent, link, back, bridge, ghost
    <2>3. /\ Unsent' = Unsent /\ Queued' = Queued /\ Standing' = Standing
          /\ CopierLeft("out")' = CopierLeft("out") /\ CopierLeft("in")' = CopierLeft("in")
          /\ ReaderLeft' = ReaderLeft /\ SignalsLeft' = SignalsLeft
        BY <2>2, PartsLeftAlone
    <2>. QED
        BY <2>1, <2>3, <1>t DEF Ahead, Copiers, PartsType
<1>2. CASE Dial
    <2>1. ProbeLeft' <= ProbeLeft - 7
        BY <1>2 DEF Dial, CallEnds, End, ProbeLeft
    <2>2. UNCHANGED <<inbox, gone, frames, sentBack, reader, stopped, ctx>>
        BY <1>2 DEF Dial, link, back, ghost
    <2>3. /\ Unsent' = Unsent /\ Queued' = Queued /\ Standing' = Standing
          /\ ReaderLeft' = ReaderLeft /\ SignalsLeft' = SignalsLeft
        BY <2>2, PartsLeftAlone
    <2>4. CopierLeft("out")' \in 0 .. 3 /\ CopierLeft("in")' \in 0 .. 3
        BY DEF CopierLeft
    <2>. QED
        BY <2>1, <2>3, <2>4, <1>t DEF Ahead, Copiers, PartsType
<1>3. CASE SendStart
    <2>1. UNCHANGED <<frames, sentBack, copier, stopped, ctx>>
        BY <1>3 DEF SendStart, bridge
    <2>2. /\ Unsent' = Unsent /\ SignalsLeft' = SignalsLeft
          /\ CopierLeft("out")' = CopierLeft("out") /\ CopierLeft("in")' = CopierLeft("in")
        BY <2>1, PartsLeftAlone
    <2>3. CASE Write(P, "start") /\ probe' = "send" /\ reader' = "reading"
        <3>1. ProbeLeft' = ProbeLeft - 6 /\ ReaderLeft' <= ReaderLeft + 2
            BY <1>3, <2>3 DEF SendStart, ProbeLeft, ReaderLeft
        <3>2. Queued' <= Queued + 3 /\ Standing' = Standing
            BY <2>3, WriteCosts, PartsLeftAlone DEF Write, Frames
        <3>. QED
            BY <2>2, <3>1, <3>2, <1>t DEF Ahead, Copiers, PartsType
    <2>4. CASE WriteFails(P) /\ CallEnds("lost") /\ UNCHANGED reader
        <3>1. ProbeLeft' < ProbeLeft /\ ReaderLeft' = ReaderLeft
            BY <1>3, <2>4, PartsLeftAlone DEF SendStart, CallEnds, End, ProbeLeft
        <3>2. Queued' = Queued /\ Standing' <= Standing
            BY <2>4, WriteCosts DEF Frames
        <3>. QED
            BY <2>2, <3>1, <3>2, <1>t DEF Ahead, Copiers, PartsType
    <2>. QED
        BY <1>3, <2>3, <2>4 DEF SendStart
<1>4. CASE SendMedia
    <2>1. UNCHANGED <<sentBack, copier, reader, stopped, ctx>>
        BY <1>4 DEF SendMedia, bridge, back
    <2>2. /\ ReaderLeft' = ReaderLeft /\ SignalsLeft' = SignalsLeft
          /\ CopierLeft("out")' = CopierLeft("out") /\ CopierLeft("in")' = CopierLeft("in")
        BY <2>1, PartsLeftAlone
    <2>3. CASE probe' \in {"stop", "wait"} /\ UNCHANGED <<link, frames>>
        <3>1. ProbeLeft' < ProbeLeft
            BY <1>4, <2>3 DEF SendMedia, ProbeLeft
        <3>2. Unsent' = Unsent /\ Queued' = Queued /\ Standing' = Standing
            BY <2>1, <2>3, PartsLeftAlone DEF link
        <3>. QED
            BY <2>2, <3>1, <3>2, <1>t DEF Ahead, Copiers, PartsType
    <2>4. CASE Write(P, "media") /\ frames' = frames + 1 /\ UNCHANGED probe
        <3>1. Unsent' = Unsent - 1 /\ ProbeLeft' = ProbeLeft
            <4>1. frames \in Int /\ sentBack \in Int /\ Media \in Int /\ Back \in Int
                BY StreamsAssumption DEF TypeInv, ProbeType, CountInv
            <4>. QED
                BY <2>1, <2>4, <4>1, PartsLeftAlone DEF Unsent
        <3>2. Queued' <= Queued + 3 /\ Standing' = Standing
            BY <2>4, WriteCosts, PartsLeftAlone DEF Write, Frames
        <3>. QED
            BY <2>2, <3>1, <3>2, <1>t DEF Ahead, Copiers, PartsType
    <2>5. CASE WriteFails(P) /\ UNCHANGED frames /\ probe' \in {"stop", "fail"}
        <3>1. ProbeLeft' < ProbeLeft
            BY <1>4, <2>5 DEF SendMedia, ProbeLeft
        <3>2. Unsent' = Unsent /\ Queued' = Queued /\ Standing' <= Standing
            BY <2>1, <2>5, WriteCosts, PartsLeftAlone DEF Frames
        <3>. QED
            BY <2>2, <3>1, <3>2, <1>t DEF Ahead, Copiers, PartsType
    <2>. QED
        BY <1>4, <2>3, <2>4, <2>5 DEF SendMedia
<1>5. CASE SendStop
    <2>1. UNCHANGED <<frames, sentBack, copier, reader, stopped, ctx>>
        BY <1>5 DEF SendStop, bridge, back
    <2>2. /\ Unsent' = Unsent /\ ReaderLeft' = ReaderLeft /\ SignalsLeft' = SignalsLeft
          /\ CopierLeft("out")' = CopierLeft("out") /\ CopierLeft("in")' = CopierLeft("in")
        BY <2>1, PartsLeftAlone
    <2>3. CASE Write(P, "stop") /\ probe' = "hungup"
        <3>1. ProbeLeft' = ProbeLeft - 5
            BY <1>5, <2>3 DEF SendStop, ProbeLeft
        <3>2. Queued' <= Queued + 3 /\ Standing' = Standing
            BY <2>3, WriteCosts, PartsLeftAlone DEF Write, Frames
        <3>. QED
            BY <2>2, <3>1, <3>2, <1>t DEF Ahead, Copiers, PartsType
    <2>4. CASE WriteFails(P) /\ probe' = "moment"
        <3>1. ProbeLeft' < ProbeLeft
            BY <1>5, <2>4 DEF SendStop, ProbeLeft
        <3>2. Queued' = Queued /\ Standing' <= Standing
            BY <2>4, WriteCosts DEF Frames
        <3>. QED
            BY <2>2, <3>1, <3>2, <1>t DEF Ahead, Copiers, PartsType
    <2>. QED
        BY <1>5, <2>3, <2>4 DEF SendStop
<1>6. CASE Close
    <2>1. UNCHANGED <<frames, sentBack, copier, reader, stopped, ctx, gone>>
        BY <1>6 DEF Close, bridge, back, ghost
    <2>2. /\ Unsent' = Unsent /\ ReaderLeft' = ReaderLeft /\ SignalsLeft' = SignalsLeft
          /\ CopierLeft("out")' = CopierLeft("out") /\ CopierLeft("in")' = CopierLeft("in")
          /\ Standing' = Standing
        BY <2>1, PartsLeftAlone
    <2>3. ProbeLeft' = ProbeLeft - 4
        BY <1>6 DEF Close, ProbeLeft
    <2>4. Queued' = Queued \/ Queued' <= Queued + 3
        BY <1>6, WriteCosts, PartsLeftAlone DEF Close, Frames
    <2>. QED
        BY <2>2, <2>3, <2>4, <1>t DEF Ahead, Copiers, PartsType
<1>7. CASE StopReader("fail") \/ StopReader("closing")
    <2>1. UNCHANGED <<inbox, gone, probe, frames, sentBack, copier, reader>>
        BY <1>7 DEF StopReader, link, bridge, ghost
    <2>2. /\ ProbeLeft' = ProbeLeft /\ Unsent' = Unsent /\ Queued' = Queued
          /\ Standing' = Standing /\ ReaderLeft' = ReaderLeft
          /\ CopierLeft("out")' = CopierLeft("out") /\ CopierLeft("in")' = CopierLeft("in")
        BY <2>1, PartsLeftAlone
    <2>3. SignalsLeft' < SignalsLeft
        BY <1>7 DEF StopReader, SignalsLeft
    <2>. QED
        BY <2>2, <2>3, <1>t DEF Ahead, Copiers, PartsType
<1>8. CASE Finish
    <2>1. UNCHANGED <<inbox, frames, sentBack, copier, reader, stopped, ctx>>
        BY <1>8 DEF Finish, bridge, back, ghost
    <2>2. /\ Unsent' = Unsent /\ Queued' = Queued
          /\ ReaderLeft' = ReaderLeft /\ SignalsLeft' = SignalsLeft
          /\ CopierLeft("out")' = CopierLeft("out") /\ CopierLeft("in")' = CopierLeft("in")
        BY <2>1, PartsLeftAlone
    <2>3. Standing' <= Standing
        BY <1>8, StandingDrop DEF Finish
    <2>4. ProbeLeft' < ProbeLeft
        BY <1>8 DEF Finish, CallEnds, End, ProbeLeft
    <2>. QED
        BY <2>2, <2>3, <2>4, <1>t DEF Ahead, Copiers, PartsType
<1>. QED
    BY <1>1, <1>2, <1>3, <1>4, <1>5, <1>6, <1>7, <1>8 DEF Probe

\* A step of the reader.
LEMMA ReaderGoesOn ==
    ASSUME TypeInv, CountInv, (TypeInv /\ CountInv)', Reader
    PROVE  Ahead' < Ahead
<1>t. PartsType /\ PartsType'
    BY PartsAreNumbers, PartsAreNumbersNext
<1>1. UNCHANGED <<probe, frames, sentBack, copier, stopped, ctx>>
    BY DEF Reader, Read, ReadFails, Leave, bridge, ghost
<1>2. /\ ProbeLeft' = ProbeLeft /\ Unsent' = Unsent /\ SignalsLeft' = SignalsLeft
      /\ CopierLeft("out")' = CopierLeft("out") /\ CopierLeft("in")' = CopierLeft("in")
    BY <1>1, PartsLeftAlone
<1>3. CASE Read
    <2>1. Queued' = Queued + (-1) * 1
        BY <1>3, TheEnds, QueuedTake DEF Read, TypeInv, LinkType, Worth, P, Near, Far
    <2>2. ReaderLeft' <= ReaderLeft
        BY <1>3 DEF Read, ReaderLeft
    <2>3. Standing' <= Standing
        BY <1>3, <1>t, StandingDrop, PartsLeftAlone DEF Read, PartsType
    <2>. QED
        BY <1>2, <2>1, <2>2, <2>3, <1>t DEF Ahead, Copiers, PartsType
<1>4. CASE ReadFails
    <2>1. Queued' = Queued /\ ReaderLeft' < ReaderLeft
        BY <1>4, PartsLeftAlone DEF ReadFails, ReaderLeft
    <2>2. Standing' <= Standing
        BY <1>4, StandingDrop DEF ReadFails
    <2>. QED
        BY <1>2, <2>1, <2>2, <1>t DEF Ahead, Copiers, PartsType
<1>5. CASE Leave
    <2>1. Queued' = Queued /\ ReaderLeft' < ReaderLeft /\ Standing' = Standing
        BY <1>5, PartsLeftAlone DEF Leave, ReaderLeft, link
    <2>. QED
        BY <1>2, <2>1, <1>t DEF Ahead, Copiers, PartsType
<1>. QED
    BY <1>3, <1>4, <1>5 DEF Reader

\* A step of the bridge: of a copier, of the one that dials, of the one that closes.
LEMMA CopierGoesOn ==
    ASSUME TypeInv, CountInv, (TypeInv /\ CountInv)', NEW k \in {"out", "in"}, Copier(k)
    PROVE  Ahead' < Ahead
<1>t. PartsType /\ PartsType'
    BY PartsAreNumbers, PartsAreNumbersNext
<1>1. UNCHANGED <<probe, frames, sentBack, reader, stopped, ctx>>
    BY DEF Copier, CopyRead, CopyReadFails, CopyWrite, CopyWriteFails, Cancelled, kept, back, ghost
<1>2. /\ ProbeLeft' = ProbeLeft /\ Unsent' = Unsent /\ SignalsLeft' = SignalsLeft
      /\ ReaderLeft' = ReaderLeft
    BY <1>1, PartsLeftAlone
<1>3. /\ CopierLeft("out") \in Nat /\ CopierLeft("in") \in Nat
      /\ CopierLeft("out")' \in Nat /\ CopierLeft("in")' \in Nat
    BY <1>t DEF PartsType
<1>6. Copiers \in Int /\ Copiers' \in Int
    BY <1>3 DEF Copiers
\* The other copier stays where it is.
<1>4. ASSUME NEW new, copier' = [copier EXCEPT ![k] = new]
      PROVE  /\ copier'[k] = new
             /\ Copiers' - Copiers = CopierLeft(k)' - CopierLeft(k)
    <2>1. PICK other \in {"out", "in"} : other # k /\ {k, other} = {"out", "in"}
        <3>1. k = "out" \/ k = "in"
            OBVIOUS
        <3>. QED
            BY <3>1
    <2>2. copier'[k] = new /\ copier'[other] = copier[other]
        BY <1>4, <2>1 DEF TypeInv, LinkType
    <2>4. (k = "out" /\ other = "in") \/ (k = "in" /\ other = "out")
        BY <2>1
    <2>5. \A x \in {"out", "in"} : x = k => /\ CopierLeft(x) = CopierLeft(k)
                                            /\ CopierLeft(x)' = CopierLeft(k)'
        BY DEF CopierLeft
    <2>6. \A x \in {"out", "in"} : x = other => CopierLeft(x)' = CopierLeft(x)
        BY <2>1, <2>2, PartsLeftAlone
    <2>. QED
        BY <1>3, <2>2, <2>4, <2>5, <2>6 DEF Copiers
<1>5. ASSUME NEW es, CopyEnds(k, es), copier[k] # "done"
      PROVE  Copiers' < Copiers /\ Standing' <= Standing
    <2>1. copier' = [copier EXCEPT ![k] = "done"] /\ Standing' <= Standing
        BY <1>5, StandingDrop DEF CopyEnds
    <2>2. copier'[k] = "done" /\ Copiers' - Copiers = CopierLeft(k)' - CopierLeft(k)
        BY <1>4, <2>1
    <2>3. CopierLeft(k)' = 0
        BY <2>2 DEF CopierLeft
    <2>4. CopierLeft(k) \in {1, 3}
        BY <1>5 DEF CopierLeft
    <2>. QED
        BY <1>6, <2>1, <2>2, <2>3, <2>4
<1>8. ASSUME Queued' <= Queued, Standing' <= Standing, Copiers' <= Copiers,
             Queued' < Queued \/ Copiers' < Copiers
      PROVE  Ahead' < Ahead
    BY <1>2, <1>6, <1>8, <1>t DEF Ahead, Copiers, PartsType
<1>9. /\ TypeInv /\ Source[k] \in Ends /\ Target[k] \in Ends
      /\ Worth(Source[k]) = 3 /\ Worth(Peer(Target[k])) = 1
    BY TheEnds DEF Worth, Source, Target, Peer, Near, Far
<1>10. CASE CopyRead(k)
    <2>1. Queued' = Queued + (-1) * 3
        BY <1>9, <1>10, QueuedTake DEF CopyRead, TypeInv, LinkType
    <2>2. PICK f \in Frames : f = Head(inbox[Source[k]])
        BY <1>9, <1>10, TakeKeeps DEF CopyRead, TypeInv, LinkType
    <2>3. CASE f = "close"
        <3>1. Copiers' < Copiers /\ Standing' <= Standing
            BY <1>5, <1>10, <2>2, <2>3 DEF CopyRead
        <3>. QED
            BY <1>6, <1>8, <2>1, <3>1, <1>t DEF PartsType
    <2>4. CASE f # "close"
        <3>1. copier' = [copier EXCEPT ![k] = f] /\ Standing' = Standing
            BY <1>10, <2>2, <2>4, PartsLeftAlone DEF CopyRead
        <3>2. copier'[k] = f /\ Copiers' - Copiers = CopierLeft(k)' - CopierLeft(k)
            BY <1>4, <3>1
        <3>3. CopierLeft(k)' = 3 /\ CopierLeft(k) = 1
            BY <1>10, <3>2 DEF CopyRead, CopierLeft, Frames
        <3>. QED
            BY <1>2, <1>6, <2>1, <3>1, <3>2, <3>3, <1>t DEF Ahead, Copiers, PartsType
    <2>. QED
        BY <2>3, <2>4
<1>11. CASE CopyReadFails(k) \/ CopyWriteFails(k) \/ Cancelled(k)
    <2>1. Queued' = Queued
        BY <1>11, PartsLeftAlone DEF CopyReadFails, CopyWriteFails, Cancelled
    <2>2. Copiers' < Copiers /\ Standing' <= Standing
        BY <1>5, <1>11 DEF CopyReadFails, CopyWriteFails, Cancelled, Holding
    <2>. QED
        BY <1>6, <1>8, <2>1, <2>2, <1>t DEF PartsType
<1>12. CASE CopyWrite(k)
    <2>1. PICK f \in Frames : f = copier[k]
        BY <1>9, <1>12 DEF CopyWrite, Holding, TypeInv, LinkType, Call
    <2>2. Queued' = Queued \/ Queued' = Queued + 1
        BY <1>9, <1>12, <2>1, QueuedPut DEF CopyWrite, TypeInv, LinkType
    <2>3. copier'[k] = "reading" /\ Copiers' - Copiers = CopierLeft(k)' - CopierLeft(k)
        BY <1>4, <1>12 DEF CopyWrite
    <2>4. CopierLeft(k)' = 1 /\ CopierLeft(k) = 3 /\ Standing' = Standing
        BY <1>12, <2>3, PartsLeftAlone DEF CopyWrite, Holding, CopierLeft
    <2>. QED
        BY <1>2, <1>6, <2>2, <2>3, <2>4, <1>t DEF Ahead, Copiers, PartsType
<1>. QED
    BY <1>10, <1>11, <1>12 DEF Copier

LEMMA BridgeGoesOn ==
    ASSUME TypeInv, CountInv, (TypeInv /\ CountInv)', BridgeDials \/ BridgeCloses
    PROVE  Ahead' < Ahead
<1>t. PartsType /\ PartsType'
    BY PartsAreNumbers, PartsAreNumbersNext
<1>1. UNCHANGED <<probe, frames, sentBack, reader, stopped, ctx>>
    BY DEF BridgeDials, BridgeCloses, kept, back, ghost
<1>2. /\ ProbeLeft' = ProbeLeft /\ Unsent' = Unsent /\ SignalsLeft' = SignalsLeft
      /\ ReaderLeft' = ReaderLeft
    BY <1>1, PartsLeftAlone
<1>3. CASE BridgeDials
    <2>1. CopierLeft("out") = 3 /\ CopierLeft("in") \in {0, 1, 3}
        BY <1>3 DEF BridgeDials, CopierLeft
    <2>2. CASE copier' = [k \in {"out", "in"} |-> "reading"] /\ UNCHANGED link
        <3>1. CopierLeft("out")' = 1 /\ CopierLeft("in")' = 1
            BY <2>2 DEF CopierLeft
        <3>2. Queued' = Queued /\ Standing' = Standing
            BY <2>2, PartsLeftAlone DEF link
        <3>. QED
            BY <1>2, <2>1, <3>1, <3>2, <1>t DEF Ahead, Copiers, PartsType
    <2>3. CASE /\ copier' = [k \in {"out", "in"} |-> "done"]
               /\ Put(Near("server"), "close")
               /\ Drop({Near("server"), Far("client"), Far("server")})
        <3>1. CopierLeft("out")' = 0 /\ CopierLeft("in")' = 0
            BY <2>3 DEF CopierLeft
        <3>2. Queued' = Queued \/ Queued' = Queued + 1
            BY <2>3, QueuedPut, TheEnds DEF TypeInv, LinkType, Frames, Worth, Peer, Near, Far
        <3>3. Standing' <= Standing
            BY <2>3, StandingDrop
        <3>. QED
            BY <1>2, <2>1, <3>1, <3>2, <3>3, <1>t DEF Ahead, Copiers, PartsType
    <2>. QED
        BY <1>3, <2>2, <2>3 DEF BridgeDials
<1>4. CASE BridgeCloses
    <2>1. UNCHANGED copier /\ Drop({Near("server"), Far("client")})
        BY <1>4 DEF BridgeCloses, bridge
    <2>2. CopierLeft("out")' = CopierLeft("out") /\ CopierLeft("in")' = CopierLeft("in")
        BY <2>1, PartsLeftAlone
    \* A connection that is closed tells its other end, at most.
    <2>3. Standing' = Standing - (Up(Near("server")) + Up(Far("client")))
        <3>1. /\ Up(Near("server"))' = 0 /\ Up(Far("client"))' = 0
              /\ Up(Near("client"))' = Up(Near("client")) /\ Up(Far("server"))' = Up(Far("server"))
            BY <2>1 DEF Up, Drop, Near, Far
        <3>2. \A e \in Ends : Up(e) \in {0, 1}
            BY DEF Up
        <3>3. /\ Up(Near("server")) \in Int /\ Up(Far("client")) \in Int
              /\ Up(Near("client")) \in Int /\ Up(Far("server")) \in Int
            BY <3>2, FourEnds
        <3>. QED
            BY <3>1, <3>3 DEF Standing
    <2>4. Queued' <= Queued + Up(Near("server")) + Up(Far("client"))
        <3>1. inbox \in [Ends -> Seq(Frames)] /\ \A e \in Ends : Len(inbox[e]) \in Nat
            BY DEF TypeInv, LinkType
        <3>2. \A e \in Ends :
                  Len(inbox'[e]) = IF Peer(e) \in {Near("server"), Far("client")} \ gone /\ e \notin gone
                                   THEN Len(inbox[e]) + 1 ELSE Len(inbox[e])
            <4>1. ASSUME NEW e \in Ends
                  PROVE Len(Append(inbox[e], "close")) = Len(inbox[e]) + 1
                BY <3>1
            <4>. QED
                BY <1>4, <4>1 DEF BridgeCloses
        <3>3. /\ Peer(Near("server")) = Near("client") /\ Peer(Far("client")) = Far("server")
              /\ Peer(Near("client")) = Near("server") /\ Peer(Far("server")) = Far("client")
            BY DEF Peer, Near, Far
        <3>4. /\ Len(inbox'[Near("server")]) = Len(inbox[Near("server")])
              /\ Len(inbox'[Far("client")]) = Len(inbox[Far("client")])
            BY <3>2, <3>3, FourEnds DEF Near, Far
        <3>5. \/ Len(inbox'[Near("client")]) = Len(inbox[Near("client")])
              \/ /\ Len(inbox'[Near("client")]) = Len(inbox[Near("client")]) + 1
                 /\ Up(Near("server")) = 1
            BY <3>2, <3>3, FourEnds DEF Up
        <3>6. \/ Len(inbox'[Far("server")]) = Len(inbox[Far("server")])
              \/ /\ Len(inbox'[Far("server")]) = Len(inbox[Far("server")]) + 1
                 /\ Up(Far("client")) = 1
            BY <3>2, <3>3, FourEnds DEF Up
        <3>7. /\ Worth(Near("server")) = 3 /\ Worth(Far("client")) = 3
              /\ Worth(Near("client")) = 1 /\ Worth(Far("server")) = 1
            BY DEF Worth, Near, Far
        <3>8. Up(Near("server")) \in {0, 1} /\ Up(Far("client")) \in {0, 1}
            BY DEF Up
        <3>9. /\ Len(inbox[Near("server")]) \in Nat /\ Len(inbox[Far("client")]) \in Nat
              /\ Len(inbox[Near("client")]) \in Nat /\ Len(inbox[Far("server")]) \in Nat
            BY <3>1, FourEnds
        <3>10. Queued' = 3 * Len(inbox'[Near("server")]) + 3 * Len(inbox'[Far("client")])
                         + 1 * Len(inbox'[Near("client")]) + 1 * Len(inbox'[Far("server")])
            BY DEF Queued, Worth, Near, Far
        <3>11. Queued = 3 * Len(inbox[Near("server")]) + 3 * Len(inbox[Far("client")])
                        + 1 * Len(inbox[Near("client")]) + 1 * Len(inbox[Far("server")])
            BY <3>7 DEF Queued
        <3>12. /\ Len(inbox'[Near("client")]) \in Nat /\ Len(inbox'[Far("server")]) \in Nat
               /\ Len(inbox'[Near("client")]) <= Len(inbox[Near("client")]) + Up(Near("server"))
               /\ Len(inbox'[Far("server")]) <= Len(inbox[Far("server")]) + Up(Far("client"))
            BY <3>5, <3>6, <3>8, <3>9
        <3>. DEFINE a == Len(inbox[Near("server")])
                    b == Len(inbox[Far("client")])
                    c == Len(inbox[Near("client")])
                    d == Len(inbox[Far("server")])
                    e == Len(inbox'[Near("client")])
                    f == Len(inbox'[Far("server")])
                    u == Up(Near("server"))
                    v == Up(Far("client"))
        <3>13. /\ a \in Nat /\ b \in Nat /\ c \in Nat /\ d \in Nat /\ e \in Nat /\ f \in Nat
               /\ u \in {0, 1} /\ v \in {0, 1} /\ e <= c + u /\ f <= d + v
            BY <3>8, <3>9, <3>12
        <3>14. /\ Queued' = 3 * a + 3 * b + 1 * e + 1 * f
               /\ Queued = 3 * a + 3 * b + 1 * c + 1 * d
            BY <3>4, <3>10, <3>11
        <3>. HIDE DEF a, b, c, d, e, f, u, v
        <3>15. 3 * a + 3 * b + 1 * e + 1 * f <= 3 * a + 3 * b + 1 * c + 1 * d + u + v
            BY <3>13
        <3>16. Queued' <= Queued + u + v
            BY <3>13, <3>14, <3>15
        <3>. QED
            BY <3>16 DEF u, v
    <2>5. /\ Up(Near("server")) \in {0, 1} /\ Up(Far("client")) \in {0, 1}
          /\ Up(Near("server")) = 1 \/ Up(Far("client")) = 1
        BY <1>4 DEF BridgeCloses, Up
    <2>. QED
        BY <1>2, <2>2, <2>3, <2>4, <2>5, <1>t DEF Ahead, Copiers, PartsType
<1>. QED
    BY <1>3, <1>4

\* A step of the endpoint.
LEMMA EndpointGoesOn ==
    ASSUME TypeInv, CountInv, (TypeInv /\ CountInv)', Endpoint
    PROVE  Ahead' < Ahead
<1>t. PartsType /\ PartsType'
    BY PartsAreNumbers, PartsAreNumbersNext
<1>1. UNCHANGED <<probe, frames, copier, reader, stopped, ctx>>
    BY DEF Endpoint, EndpointReads, EndpointAnswersClose, EndpointSends, EndpointHangsUp,
           EndpointDrops, others, back, bridge
<1>2. /\ ProbeLeft' = ProbeLeft /\ SignalsLeft' = SignalsLeft /\ ReaderLeft' = ReaderLeft
      /\ CopierLeft("out")' = CopierLeft("out") /\ CopierLeft("in")' = CopierLeft("in")
    BY <1>1, PartsLeftAlone
<1>3. UNCHANGED sentBack => Unsent' = Unsent
    BY <1>1, PartsLeftAlone
<1>4. /\ \A f \in Frames : Put(E, f) => Queued' <= Queued + 3
      /\ Drop({E}) /\ E \notin gone => Standing' <= Standing - 1
      /\ gone' = gone => Standing' = Standing
      /\ inbox' = inbox => Queued' = Queued
    BY WriteCosts, StandingDrop, PartsLeftAlone, TheEnds
<1>5. CASE EndpointReads
    <2>1. Queued' < Queued /\ Standing' = Standing
        <3>1. Queued' = Queued + (-1) * Worth(E)
            BY <1>5, TheEnds, QueuedTake DEF EndpointReads, TypeInv, LinkType
        <3>. QED
            BY <1>4, <1>5, <3>1, <1>t DEF EndpointReads, Worth, PartsType
    <2>. QED
        BY <1>2, <1>3, <1>5, <2>1, <1>t DEF EndpointReads, Ahead, Copiers, PartsType
<1>6. CASE EndpointAnswersClose \/ EndpointHangsUp
    <2>1. Queued' <= Queued + 3 /\ Standing' <= Standing - 1 /\ Unsent' = Unsent
        BY <1>3, <1>4, <1>6 DEF EndpointAnswersClose, EndpointHangsUp, Frames
    <2>. QED
        BY <1>2, <2>1, <1>t DEF Ahead, Copiers, PartsType
<1>7. CASE EndpointSends
    <2>1. Queued' <= Queued + 3 /\ Standing' = Standing
        BY <1>4, <1>7 DEF EndpointSends, Frames
    <2>2. Unsent' = Unsent - 1
        <3>1. frames \in Int /\ sentBack \in Int /\ Media \in Int /\ Back \in Int
            BY StreamsAssumption DEF TypeInv, ProbeType, CountInv
        <3>. QED
            BY <1>1, <1>7, <3>1 DEF EndpointSends, Unsent
    <2>. QED
        BY <1>2, <2>1, <2>2, <1>t DEF Ahead, Copiers, PartsType
<1>8. CASE EndpointDrops
    <2>1. Queued' = Queued /\ Standing' <= Standing - 1 /\ Unsent' = Unsent
        BY <1>3, <1>4, <1>8 DEF EndpointDrops
    <2>. QED
        BY <1>2, <2>1, <1>t DEF Ahead, Copiers, PartsType
<1>. QED
    BY <1>5, <1>6, <1>7, <1>8 DEF Endpoint

(***************************************************************************)
(* Every step brings the end of a call nearer: the probe, its reader, the  *)
(* bridge and the endpoint never go round in circles, whatever the order   *)
(* in which they run and however many frames there are.  So a call lasts   *)
(* at most Ahead steps more, and only waiting could keep it from its end.  *)
(***************************************************************************)
THEOREM CallsAreFinite == Spec => [](Ahead \in Nat) /\ [][Ahead' < Ahead]_vars
<1>1. TypeInv /\ CountInv /\ (TypeInv /\ CountInv)' /\ Next => Ahead' < Ahead
    <2>. SUFFICES ASSUME TypeInv, CountInv, (TypeInv /\ CountInv)', Next
                  PROVE  Ahead' < Ahead
        OBVIOUS
    <2>1. CASE Interrupt
        <3>1. UNCHANGED <<inbox, gone, probe, frames, sentBack, copier, reader>>
            BY <2>1 DEF Interrupt, link, back, bridge, ghost
        <3>2. /\ ProbeLeft' = ProbeLeft /\ Unsent' = Unsent /\ Queued' = Queued
              /\ Standing' = Standing /\ ReaderLeft' = ReaderLeft
              /\ CopierLeft("out")' = CopierLeft("out") /\ CopierLeft("in")' = CopierLeft("in")
            BY <3>1, PartsLeftAlone
        <3>3. SignalsLeft' < SignalsLeft
            BY <2>1 DEF Interrupt, SignalsLeft, back
        <3>4. PartsType /\ PartsType'
            BY PartsAreNumbers, PartsAreNumbersNext
        <3>. QED
            BY <3>2, <3>3, <3>4 DEF Ahead, Copiers, PartsType
    <2>2. ASSUME NEW k \in {"out", "in"}, Copier(k) PROVE Ahead' < Ahead
        BY <2>2, CopierGoesOn
    <2>. QED
        BY <2>1, <2>2, ProbeGoesOn, ReaderGoesOn, BridgeGoesOn, EndpointGoesOn DEF Next
<1>2. TypeInv /\ CountInv => Ahead \in Nat
    BY PartsAreNumbers
<1>. QED
    BY <1>1, <1>2, Typing, CountAlways, PTL DEF Spec
=============================================================================
