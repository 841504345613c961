------------------------------ MODULE Forward ------------------------------
(***************************************************************************)
(* `plivo voice streams forward` (cmd/voice_streams_forward.go): each run  *)
(* borrows one application's answer_url for a tunnel and gives it back.    *)
(* Runs of different terminals meet in three places only: the application  *)
(* at Plivo, the state file ~/.plivo/streams-forward/<app>.json and the    *)
(* process table.  Every step below is one such meeting, and a run can be  *)
(* killed between any two of them.                                         *)
(*                                                                         *)
(* An answer_url and its answer_method always travel together, so a URL    *)
(* below stands for the pair.  One application is modelled: the state file *)
(* and the API object are both per application.                            *)
(***************************************************************************)
EXTENDS Naturals

CONSTANTS
    Run,        \* invocations of the command; each is one process and one pid
    Own,        \* answer URLs on no tunnel provider's domain
    Ngrok,      \* answer URLs on an ngrok domain, which may be a fixed one
    Stray,      \* throwaway tunnel URLs that are no tunnel of a modelled run
    NoURL,      \* Go's nil *forwardState as `original`: nothing to restore
    NoState,    \* no state file, or one that does not parse
    NoRun,      \* no recorded process
    InitialURL, \* the answer URLs the application may start with
    MaxFaults,  \* bound: kills, failed API calls and failed file operations
    MaxEdits,   \* bound: changes the owner makes to the answer URL
    PidReuse    \* may the system give a dead run's pid to another program

LhrURL(r) == <<"lhr.life", r>>   \* localhost.run announces a new name every time
Throwaway == Stray \cup {LhrURL(r) : r \in Run}
URL == Own \cup Ngrok \cup Throwaway

ASSUME ForwardAssumption ==
    /\ NoURL \notin URL /\ NoRun \notin Run
    /\ (Own \cup Ngrok) \cap Throwaway = {} /\ Own \cap Ngrok = {}
    /\ InitialURL \subseteq Own \cup Ngrok \cup Stray
    /\ NoState \notin [orig : URL, tun : URL, run : Run]
    /\ MaxFaults \in Nat /\ MaxEdits \in Nat
    /\ PidReuse \in BOOLEAN

VARIABLES
    app,     \* the application's answer URL, at Plivo
    disk,    \* the state file
    pc,      \* where each run is in runVoiceStreamsForward
    seen,    \* the answer URL the run's GET returned
    saved,   \* the run recorded in the state file the run read
    orig,    \* `original`: what the run restores, NoURL for nil
    turl,    \* the run's tunnel URL
    tunnel,  \* the run's tunnel process
    reused,  \* dead runs whose pid another program has
    due,     \* what the owner last asked for; NoURL when nothing is owed
    faults, edits,
    alone    \* so far no two runs were alive at once, and no edit met a live run

world == <<edits, alone>>
vars == <<app, disk, pc, seen, saved, orig, turl, tunnel, reused, due, faults, world>>
local == <<seen, saved, orig, turl>>

SavedState == [orig : URL, tun : URL, run : Run]

Stages == {"idle", "got", "confirm", "start", "tunneled", "writing", "post",
           "posted", "serving", "teardown", "returned", "closing", "done", "killed"}

TypeOK ==
    /\ app \in URL
    /\ disk \in SavedState \cup {NoState}
    /\ pc \in [Run -> Stages]
    /\ seen \in [Run -> URL \cup {NoURL}]
    /\ saved \in [Run -> Run \cup {NoRun}]
    /\ orig \in [Run -> URL \cup {NoURL}]
    /\ turl \in [Run -> URL \cup {NoURL}]
    /\ tunnel \in [Run -> {"none", "up", "down"}]
    /\ reused \subseteq Run
    /\ due \in URL \cup {NoURL}
    /\ faults \in 0..MaxFaults
    /\ edits \in 0..MaxEdits
    /\ alone \in BOOLEAN

Live(r) == pc[r] \notin {"idle", "done", "killed"}
Goto(r, stage) == pc' = [pc EXCEPT ![r] = stage]

\* processAlive: the pid answers signal 0, whoever has the number now.
ProcessAlive(r) == Live(r) \/ r \in reused

Fault == faults < MaxFaults /\ faults' = faults + 1

(***************************************************************************)
(* A URL no modelled run produced is the owner's to get back, unless it is *)
(* itself a throwaway tunnel.                                              *)
(***************************************************************************)
Init ==
    /\ app \in InitialURL
    /\ due = IF app \in Throwaway THEN NoURL ELSE app
    /\ disk = NoState
    /\ pc = [r \in Run |-> "idle"]
    /\ seen = [r \in Run |-> NoURL] /\ orig = [r \in Run |-> NoURL]
    /\ saved = [r \in Run |-> NoRun]
    /\ turl = [r \in Run |-> NoURL]
    /\ tunnel = [r \in Run |-> "none"]
    /\ reused = {}
    /\ faults = 0 /\ edits = 0 /\ alone = TRUE

-----------------------------------------------------------------------------
(* Before the redirect *)

\* GET Application/<id>.
GetApp(r) ==
    /\ pc[r] = "idle"
    /\ Goto(r, "got")
    /\ seen' = [seen EXCEPT ![r] = app]
    /\ alone' = (alone /\ \A q \in Run : ~Live(q))
    /\ UNCHANGED <<app, disk, saved, orig, turl, tunnel, reused, due, faults, edits>>

\* readForwardState and the switch that picks `original`.  The state file is
\* believed only while the application is still on the tunnel it names.
Matches(r) == disk # NoState /\ disk.tun = seen[r]

\* Mutants: a throwaway URL taken as the original; the state file not used.
Original_AnyURL(r) == IF Matches(r) THEN disk.orig ELSE seen[r]
Original_NoState(r) == IF seen[r] \in Throwaway THEN NoURL ELSE seen[r]

Original(r) ==
    IF Matches(r) THEN disk.orig
    ELSE IF seen[r] \in Throwaway THEN NoURL
    ELSE seen[r]

Decide(r) ==
    /\ pc[r] = "got"
    /\ ~(Matches(r) /\ ProcessAlive(disk.run))
    /\ Goto(r, "confirm")
    /\ saved' = [saved EXCEPT ![r] = IF disk = NoState THEN NoRun ELSE disk.run]
    /\ orig' = [orig EXCEPT ![r] = Original(r)]
    /\ UNCHANGED <<app, disk, seen, turl, tunnel, reused, due, faults, world>>

\* The application is on the tunnel of a process that is still there.
Refuse(r) ==
    /\ pc[r] = "got"
    /\ Matches(r) /\ ProcessAlive(disk.run)
    /\ Goto(r, "done")
    /\ UNCHANGED <<app, disk, tunnel, reused, due, faults, world, local>>

\* --dry-run, or an answer other than yes.
Decline(r) ==
    /\ pc[r] = "confirm"
    /\ Goto(r, "done")
    /\ UNCHANGED <<app, disk, tunnel, reused, due, faults, world, local>>

\* Only a process that still runs the recorded command line is stopped, so a
\* reused tunnel pid is not.
StopLeftover(s) == [tunnel EXCEPT ![s] = IF @ = "up" THEN "down" ELSE @]

\* Mutant: the recorded process is not checked before its tunnel is stopped.
Confirm_AnyProcess(r) ==
    /\ pc[r] = "confirm"
    /\ Goto(r, "start")
    /\ tunnel' = IF saved[r] # NoRun THEN StopLeftover(saved[r]) ELSE tunnel
    /\ UNCHANGED <<app, disk, reused, due, faults, world, local>>

\* The prompt can take any time.  Then the tunnel a killed run left is stopped,
\* if the process that was to close it is gone.
Confirm(r) ==
    /\ pc[r] = "confirm"
    /\ Goto(r, "start")
    /\ tunnel' = IF saved[r] # NoRun /\ ~ProcessAlive(saved[r])
                 THEN StopLeftover(saved[r]) ELSE tunnel
    /\ UNCHANGED <<app, disk, reused, due, faults, world, local>>

\* tunnel.Start: localhost.run gives the run a name of its own; ngrok gives a
\* domain, perhaps a fixed one, that no other tunnel is serving.
StartTunnel(r) ==
    /\ pc[r] = "start"
    /\ Goto(r, "tunneled")
    /\ \E u \in Ngrok \cup {LhrURL(r)} :
        /\ \A q \in Run : tunnel[q] = "up" => turl[q] # u
        /\ turl' = [turl EXCEPT ![r] = u]
    /\ tunnel' = [tunnel EXCEPT ![r] = "up"]
    /\ UNCHANGED <<app, disk, seen, saved, orig, reused, due, faults, world>>

\* No port, no tunnel, or Ctrl-C while it starts.
StartFails(r) ==
    /\ pc[r] = "start"
    /\ Goto(r, "done")
    /\ UNCHANGED <<app, disk, tunnel, reused, due, faults, world, local>>

\* Mutant: saved without an original to save.
OpenState_NilOriginal(r) ==
    /\ pc[r] = "tunneled"
    /\ Goto(r, "writing") /\ disk' = NoState
    /\ UNCHANGED <<app, tunnel, reused, due, faults, world, local>>

\* os.WriteFile truncates the file it opens, so until the data is written a
\* reader finds none.  Without an original nothing is saved.
OpenState(r) ==
    /\ pc[r] = "tunneled"
    /\ IF orig[r] = NoURL
       THEN Goto(r, "post") /\ UNCHANGED disk
       ELSE Goto(r, "writing") /\ disk' = NoState
    /\ UNCHANGED <<app, tunnel, reused, due, faults, world, local>>

WriteState(r) ==
    /\ pc[r] = "writing"
    /\ Goto(r, "post")
    /\ disk' = [orig |-> orig[r], tun |-> turl[r], run |-> r]
    /\ UNCHANGED <<app, tunnel, reused, due, faults, world, local>>

WriteFails(r) ==
    /\ pc[r] = "writing"
    /\ Fault
    /\ Goto(r, "closing")
    /\ UNCHANGED <<app, disk, tunnel, reused, due, world, local>>

-----------------------------------------------------------------------------
(* The redirect, and its return *)

\* The POST takes effect at Plivo; the run does not know yet.
Redirect(r) ==
    /\ pc[r] = "post"
    /\ Goto(r, "posted")
    /\ app' = turl[r]
    /\ UNCHANGED <<disk, tunnel, reused, due, faults, world, local>>

Serve(r) ==
    /\ pc[r] = "posted"
    /\ Goto(r, "serving")
    /\ UNCHANGED <<app, disk, tunnel, reused, due, faults, world, local>>

\* Mutant: the state is cleaned up on the error path.
RedirectFails_Forgets(r) ==
    /\ pc[r] \in {"post", "posted"}
    /\ Fault
    /\ Goto(r, "closing") /\ disk' = NoState
    /\ UNCHANGED <<app, tunnel, reused, due, world, local>>

\* An error, before or after the POST took effect, ends the run; the state stays.
RedirectFails(r) ==
    /\ pc[r] \in {"post", "posted"}
    /\ Fault
    /\ Goto(r, "closing")
    /\ UNCHANGED <<app, disk, tunnel, reused, due, world, local>>

\* A signal cancels the context, which kills the tunnel process too.
Interrupt(r) ==
    /\ pc[r] = "serving"
    /\ Goto(r, "teardown")
    /\ tunnel' = [tunnel EXCEPT ![r] = "down"]
    /\ UNCHANGED <<app, disk, reused, due, faults, world, local>>

\* The local server failed.
ServerStopped(r) ==
    /\ pc[r] = "serving"
    /\ Goto(r, "teardown")
    /\ UNCHANGED <<app, disk, tunnel, reused, due, faults, world, local>>

\* Mutant: a stopped tunnel ends the run without the teardown's restore.
NoticeTunnel_Exits(r) ==
    /\ pc[r] = "serving" /\ tunnel[r] = "down"
    /\ Goto(r, "closing")
    /\ UNCHANGED <<app, disk, tunnel, reused, due, faults, world, local>>

\* tn.Done closed.
NoticeTunnel(r) ==
    /\ pc[r] = "serving" /\ tunnel[r] = "down"
    /\ Goto(r, "teardown")
    /\ UNCHANGED <<app, disk, tunnel, reused, due, faults, world, local>>

\* --keep: the owner asked for the tunnel URL to stay, so nothing is owed.
Keep(r) ==
    /\ pc[r] = "teardown"
    /\ Goto(r, "closing")
    /\ due' = NoURL
    /\ UNCHANGED <<app, disk, tunnel, reused, faults, world, local>>

NothingToRestore(r) ==
    /\ pc[r] = "teardown" /\ orig[r] = NoURL
    /\ Goto(r, "closing")
    /\ UNCHANGED <<app, disk, tunnel, reused, due, faults, world, local>>

\* restoreAnswerURL's POST takes effect.
Restore(r) ==
    /\ pc[r] = "teardown" /\ orig[r] # NoURL
    /\ Goto(r, "returned")
    /\ app' = orig[r]
    /\ UNCHANGED <<disk, tunnel, reused, due, faults, world, local>>

\* It succeeded as far as the run can tell: the state file is removed,
\* whichever run wrote it.
Forget(r) ==
    /\ pc[r] = "returned"
    /\ Goto(r, "closing")
    /\ disk' = NoState
    /\ UNCHANGED <<app, tunnel, reused, due, faults, world, local>>

\* os.Remove's error is dropped.
ForgetFails(r) ==
    /\ pc[r] = "returned"
    /\ Fault
    /\ Goto(r, "closing")
    /\ UNCHANGED <<app, disk, tunnel, reused, due, world, local>>

\* Mutant: the state is removed whatever the POST answered.
RestoreFails_Forgets(r) ==
    /\ pc[r] \in {"teardown", "returned"} /\ orig[r] # NoURL
    /\ Fault
    /\ Goto(r, "closing") /\ disk' = NoState
    /\ UNCHANGED <<app, tunnel, reused, due, world, local>>

\* The restore was not applied, or its answer was lost: the state file stays.
RestoreFails(r) ==
    /\ pc[r] \in {"teardown", "returned"} /\ orig[r] # NoURL
    /\ Fault
    /\ Goto(r, "closing")
    /\ UNCHANGED <<app, disk, tunnel, reused, due, world, local>>

\* The deferred Tunnel.Close.
Close(r) ==
    /\ pc[r] = "closing"
    /\ Goto(r, "done")
    /\ tunnel' = [tunnel EXCEPT ![r] = "down"]
    /\ UNCHANGED <<app, disk, reused, due, faults, world, local>>

-----------------------------------------------------------------------------
(* The rest of the world *)

\* SIGKILL, a crash, a lost terminal: no teardown, and the tunnel process lives on.
Kill(r) ==
    /\ Live(r)
    /\ Fault
    /\ Goto(r, "killed")
    /\ UNCHANGED <<app, disk, tunnel, reused, due, world, local>>

TunnelDies(r) ==
    /\ tunnel[r] = "up"
    /\ tunnel' = [tunnel EXCEPT ![r] = "down"]
    /\ UNCHANGED <<app, disk, pc, reused, due, faults, world, local>>

ReusePid(r) ==
    /\ PidReuse /\ pc[r] \in {"done", "killed"}
    /\ \/ r \notin reused /\ reused' = reused \cup {r}
       \/ r \in reused /\ reused' = reused \ {r}
    /\ UNCHANGED <<app, disk, pc, tunnel, due, faults, world, local>>

\* The owner sets the answer URL in the console or with `applications update`.
Edit ==
    /\ edits < MaxEdits /\ edits' = edits + 1
    /\ alone' = (alone /\ \A r \in Run : ~Live(r))
    /\ \E u \in Own : app' = u /\ due' = u
    /\ UNCHANGED <<disk, pc, tunnel, reused, faults, local>>

RunStep(r) ==
    \/ GetApp(r) \/ Decide(r) \/ Refuse(r) \/ Decline(r) \/ Confirm(r)
    \/ StartTunnel(r) \/ StartFails(r)
    \/ OpenState(r) \/ WriteState(r) \/ WriteFails(r)
    \/ Redirect(r) \/ Serve(r) \/ RedirectFails(r)
    \/ Interrupt(r) \/ ServerStopped(r) \/ NoticeTunnel(r)
    \/ Keep(r) \/ NothingToRestore(r)
    \/ Restore(r) \/ Forget(r) \/ ForgetFails(r) \/ RestoreFails(r)
    \/ Close(r)

Next ==
    \/ \E r \in Run : RunStep(r) \/ Kill(r) \/ TunnelDies(r) \/ ReusePid(r)
    \/ Edit

Spec == Init /\ [][Next]_vars

\* Once stopped, a run does not wait on anything but calls with a timeout, and
\* the wait for the tunnel process ends when that process does.
Progress(r) ==
    \/ NoticeTunnel(r) \/ Keep(r) \/ NothingToRestore(r) \/ Restore(r)
    \/ Forget(r) \/ RestoreFails(r) \/ Close(r)

FairSpec == Spec /\ \A r \in Run : WF_vars(Progress(r))

-----------------------------------------------------------------------------
(* Correctness *)

(***************************************************************************)
(* "A localhost.run or trycloudflare.com answer_url is never taken as the  *)
(* original": not by the run that reads it, nor through the state files of *)
(* any chain of killed runs, whoever overlaps with whom.                   *)
(***************************************************************************)
OriginalNeverThrowaway ==
    /\ \A r \in Run : orig[r] \notin Throwaway
    /\ disk # NoState => disk.orig \notin Throwaway

\* A run that has the owner's URL in memory only, on its way to the redirect.
InHand(r) == pc[r] \in {"writing", "post"} /\ orig[r] = due

(***************************************************************************)
(* After one fault at most, of runs that do not overlap, the URL the owner *)
(* is owed is on the application, or in the state file under the tunnel    *)
(* URL the application is on, which is where the next run looks (Matches), *)
(* or in the hands of a run about to redirect again.                       *)
(***************************************************************************)
Recoverable ==
    \/ due \in {app, NoURL}
    \/ disk # NoState /\ disk.tun = app /\ disk.orig = due
    \/ \E r \in Run : InHand(r)

OwnerURLRecoverable == alone /\ faults <= 1 => Recoverable

(***************************************************************************)
(* "The original is saved in ~/.plivo first, so after a killed run the     *)
(* next one restores it": a run that serves is one that will give the      *)
(* owner's URL back, and without a fault it is back whenever no run is     *)
(* alive.  Two faults can break it, in the one way that                    *)
(* LostOnlyWhileRecovering describes.                                      *)
(***************************************************************************)
ServingRestoresOwed ==
    alone /\ faults <= 1 =>
        /\ \A r \in Run : pc[r] = "serving" => due \in {orig[r], NoURL}
        /\ faults = 0 /\ ~(\E r \in Run : Live(r)) => due \in {app, NoURL}

(***************************************************************************)
(* However many runs die, one after the other, the owner's URL is lost by  *)
(* one kind of step only: the end of a recovering run between opening the  *)
(* state file and redirecting the application.  (An owner's URL on a fixed *)
(* ngrok domain that is lost can come back as a later run's tunnel, and go *)
(* again with it.)                                                         *)
(***************************************************************************)
LostOnlyWhileRecovering ==
    [][alone' /\ due \notin Ngrok /\ Recoverable /\ ~Recoverable' =>
         \E r \in Run : InHand(r) /\ pc'[r] \in {"killed", "closing"}]_vars

\* "A second forward on the app is refused while one runs": two runs never
\* serve at once.
NoTwoServe ==
    \A r, q \in Run : pc[r] = "serving" /\ pc[q] = "serving" => r = q

(***************************************************************************)
(* A run stops its own tunnel or one a dead run left, never a tunnel that  *)
(* a live run is using (StopLeftover behind processAlive).                 *)
(***************************************************************************)
StopsOnlyDeadTunnels ==
    [][\A q \in Run :
         Live(q) /\ tunnel[q] = "up" /\ tunnel'[q] = "down"
           => \A r \in Run \ {q} : pc'[r] = pc[r]]_vars

(***************************************************************************)
(* "Restores the original answer_url on Ctrl+C, or when the tunnel stops": *)
(* a run whose tunnel process ends while it serves gives the URL back, or  *)
(* ends with the failure reported.                                         *)
(***************************************************************************)
TunnelLossRestores ==
    \A r \in Run :
        pc[r] = "serving" /\ tunnel[r] = "down"
          ~> pc[r] \in {"done", "killed"} /\ (alone /\ faults = 0 => due \in {app, NoURL})
=============================================================================
