--------------------------- MODULE ForwardProofs ---------------------------
(***************************************************************************)
(* What holds of Forward for every set of runs and URLs, any number of     *)
(* overlapping runs, kills, failures and edits.                            *)
(***************************************************************************)
EXTENDS Forward, TLAPS

USE ForwardAssumption

(***************************************************************************)
(* A run between starting its tunnel and redirecting has the tunnel's URL, *)
(* and one that saves a state has an original to save.  Without this the   *)
(* type of the state file and of the application is not inductive.         *)
(***************************************************************************)
Equipped ==
    \A r \in Run :
        /\ pc[r] \in {"tunneled", "writing", "post"} => turl[r] \in URL
        /\ pc[r] = "writing" => orig[r] \in URL

TypeInv == TypeOK /\ Equipped

LEMMA TypeInvInit == Init => TypeInv
BY DEF Init, URL, Throwaway, TypeInv, TypeOK, Equipped, Stages

LEMMA TypeInvStep == TypeInv /\ [Next]_vars => TypeInv'
<1> USE DEF TypeInv, TypeOK, SavedState, Stages, Equipped, Goto, Fault, local, world
<1> SUFFICES ASSUME TypeInv, [Next]_vars PROVE TypeInv'
  OBVIOUS
<1>1. ASSUME NEW r \in Run, GetApp(r) PROVE TypeInv'
  BY <1>1 DEF GetApp
<1>2. ASSUME NEW r \in Run, Decide(r) PROVE TypeInv'
  BY <1>2 DEF Decide, Original, Matches
<1>3. ASSUME NEW r \in Run, Refuse(r) \/ Decline(r) \/ StartFails(r) PROVE TypeInv'
  BY <1>3 DEF Refuse, Decline, StartFails
<1>4. ASSUME NEW r \in Run, Confirm(r) PROVE TypeInv'
  BY <1>4 DEF Confirm, StopLeftover
<1>5. ASSUME NEW r \in Run, StartTunnel(r) PROVE TypeInv'
  BY <1>5 DEF StartTunnel, URL, Throwaway
<1>6. ASSUME NEW r \in Run, OpenState(r) PROVE TypeInv'
  BY <1>6 DEF OpenState
<1>7. ASSUME NEW r \in Run, WriteState(r) PROVE TypeInv'
  BY <1>7 DEF WriteState
<1>8. ASSUME NEW r \in Run, Redirect(r) PROVE TypeInv'
  BY <1>8 DEF Redirect
<1>9. ASSUME NEW r \in Run,
             Serve(r) \/ WriteFails(r) \/ RedirectFails(r) \/ Kill(r) PROVE TypeInv'
  BY <1>9 DEF Serve, WriteFails, RedirectFails, Kill
<1>10. ASSUME NEW r \in Run, Interrupt(r) \/ ServerStopped(r) \/ NoticeTunnel(r)
       PROVE TypeInv'
  BY <1>10 DEF Interrupt, ServerStopped, NoticeTunnel
<1>11. ASSUME NEW r \in Run, Keep(r) \/ NothingToRestore(r) \/ Restore(r) PROVE TypeInv'
  BY <1>11 DEF Keep, NothingToRestore, Restore
<1>12. ASSUME NEW r \in Run, Forget(r) \/ ForgetFails(r) \/ RestoreFails(r) \/ Close(r)
       PROVE TypeInv'
  BY <1>12 DEF Forget, ForgetFails, RestoreFails, Close
<1>13. ASSUME NEW r \in Run, TunnelDies(r) \/ ReusePid(r) PROVE TypeInv'
  BY <1>13 DEF TunnelDies, ReusePid
<1>14. ASSUME Edit PROVE TypeInv'
  BY <1>14 DEF Edit, URL
<1>15. ASSUME UNCHANGED vars PROVE TypeInv'
  BY <1>15 DEF vars
<1> QED
  BY <1>1, <1>2, <1>3, <1>4, <1>5, <1>6, <1>7, <1>8, <1>9, <1>10, <1>11, <1>12,
     <1>13, <1>14, <1>15 DEF Next, RunStep

(***************************************************************************)
(* The variables range over what the program can hold: in particular a     *)
(* state file always names an original, a tunnel URL and a run.            *)
(***************************************************************************)
THEOREM TypeCorrect == Spec => []TypeOK
<1>1. TypeInv => TypeOK
  BY DEF TypeInv
<1> QED
  BY <1>1, TypeInvInit, TypeInvStep, PTL DEF Spec

(***************************************************************************)
(* No chain of runs, killed or overlapping, ever takes a throwaway tunnel  *)
(* URL as the original to restore.                                         *)
(***************************************************************************)
THEOREM NeverThrowaway == Spec => []OriginalNeverThrowaway
<1> USE DEF TypeInv, TypeOK, OriginalNeverThrowaway
<1>1. Init => OriginalNeverThrowaway
  BY DEF Init, URL
<1>2. TypeInv /\ OriginalNeverThrowaway /\ [Next]_vars => OriginalNeverThrowaway'
  <2> SUFFICES ASSUME TypeInv, OriginalNeverThrowaway, [Next]_vars
               PROVE  OriginalNeverThrowaway'
    OBVIOUS
  <2>1. ASSUME NEW r \in Run, Decide(r) PROVE OriginalNeverThrowaway'
    <3>1. Original(r) \notin Throwaway
      BY DEF Original, Matches, URL
    <3> QED
      BY <2>1, <3>1 DEF Decide, Throwaway
  <2>2. ASSUME NEW r \in Run, OpenState(r) \/ Forget(r) PROVE OriginalNeverThrowaway'
    BY <2>2 DEF OpenState, Forget, Throwaway, local
  <2>3. ASSUME NEW r \in Run, WriteState(r) PROVE OriginalNeverThrowaway'
    BY <2>3 DEF WriteState, Throwaway, local
  <2>4. CASE UNCHANGED <<orig, disk>>
    BY <2>4 DEF Throwaway
  <2>5. ASSUME NEW r \in Run, RunStep(r) PROVE OriginalNeverThrowaway'
    BY <2>1, <2>2, <2>3, <2>4, <2>5
       DEF RunStep, GetApp, Refuse, Decline, Confirm, StartTunnel, StartFails, WriteFails,
           Redirect, Serve, RedirectFails, Interrupt, ServerStopped, NoticeTunnel, Keep,
           NothingToRestore, Restore, ForgetFails, RestoreFails, Close, local
  <2> QED
    BY <2>4, <2>5 DEF Next, Kill, TunnelDies, ReusePid, Edit, vars, local
<1> QED
  BY <1>1, <1>2, TypeInvInit, TypeInvStep, PTL DEF Spec

(***************************************************************************)
(* A step of one run takes down no tunnel that another live run is using,  *)
(* whatever pid the state file it read has recorded.                       *)
(***************************************************************************)
THEOREM StopsOnlyDead == Spec => StopsOnlyDeadTunnels
<1> DEFINE A == \A q \in Run :
                  Live(q) /\ tunnel[q] = "up" /\ tunnel'[q] = "down"
                    => \A r \in Run \ {q} : pc'[r] = pc[r]
<1>1. TypeInv /\ [Next]_vars => A
  <2> SUFFICES ASSUME TypeInv, [Next]_vars, NEW q \in Run,
                      Live(q), tunnel[q] = "up", tunnel'[q] = "down",
                      NEW r \in Run \ {q}
               PROVE  pc'[r] = pc[r]
    OBVIOUS
  <2> USE DEF TypeInv, TypeOK, Goto, local
  <2>1. ASSUME NEW s \in Run, Confirm(s) PROVE pc'[r] = pc[r]
    BY <2>1 DEF Confirm, ProcessAlive, StopLeftover
  <2>2. ASSUME NEW s \in Run, StartTunnel(s) PROVE pc'[r] = pc[r]
    BY <2>2 DEF StartTunnel
  <2>3. ASSUME NEW s \in Run, Interrupt(s) \/ Close(s) PROVE pc'[r] = pc[r]
    BY <2>3 DEF Interrupt, Close
  <2>4. ASSUME NEW s \in Run, RunStep(s) PROVE pc'[r] = pc[r]
    BY <2>1, <2>2, <2>3, <2>4
       DEF RunStep, GetApp, Decide, Refuse, Decline, StartFails, OpenState, WriteState,
           WriteFails, Redirect, Serve, RedirectFails, ServerStopped, NoticeTunnel, Keep,
           NothingToRestore, Restore, Forget, ForgetFails, RestoreFails
  <2> QED
    BY <2>4 DEF Next, Kill, TunnelDies, ReusePid, Edit, vars
<1> QED
  BY <1>1, TypeInvInit, TypeInvStep, PTL DEF Spec, StopsOnlyDeadTunnels

-----------------------------------------------------------------------------
(***************************************************************************)
(* One forward at a time, the owner's edits between runs, and one fault:   *)
(* the owner's URL survives.  The invariant follows the URL through a run: *)
(* on the application (Home), then also in the run's memory, then in the   *)
(* state file while the application is on the tunnel (OnLoan).  Only a run *)
(* that recovers from an earlier fault has it in memory alone.             *)
(***************************************************************************)
Home == due \in {app, NoURL}
OnLoan == disk # NoState /\ disk.tun = app /\ disk.orig = due

Deciding  == {"confirm", "start", "tunneled", "writing", "post", "posted", "serving",
              "teardown", "returned"}
Redirected == {"posted", "serving", "teardown"}

OneAtATime == \A r, q \in Run : Live(r) /\ Live(q) => r = q

\* What the live run knows.
RunKnows(r) ==
    /\ pc[r] = "got" => seen[r] = app
    /\ pc[r] \in Deciding => due \in {orig[r], NoURL}
    /\ pc[r] \in Redirected \cup {"post"} /\ orig[r] # NoURL
         => disk # NoState /\ disk = [orig |-> orig[r], tun |-> turl[r], run |-> r]
    /\ pc[r] \in Redirected => app = turl[r]
    /\ pc[r] = "returned" => app = orig[r]
    /\ pc[r] \in {"tunneled", "writing", "post"} => turl[r] \notin Own

\* An ngrok URL is owed only until the owner's first edit, so every state file
\* written before that has it as its original.
OwedAndSaved ==
    /\ due \in Own \cup Ngrok \cup {NoURL}
    /\ disk # NoState => disk.tun \notin Own
    /\ disk # NoState /\ due \in Ngrok => disk.orig = due

SequentialInv ==
    /\ OneAtATime
    /\ \A r \in Run : RunKnows(r)
    /\ OwedAndSaved
    /\ (\A r \in Run : pc[r] \notin {"writing", "post"}) => Home \/ OnLoan
    /\ faults = 0 /\ (\A r \in Run : pc[r] \notin Redirected) => Home

LEMMA SequentialInit == Init => SequentialInv
<1> SUFFICES ASSUME Init PROVE SequentialInv
  OBVIOUS
<1>1. \A r \in Run : ~Live(r)
  BY DEF Init, Live
<1>2. Home /\ OwedAndSaved
  BY DEF Init, Home, OwedAndSaved, URL, Throwaway
<1> QED
  BY <1>1, <1>2 DEF Init, SequentialInv, OneAtATime, RunKnows, Deciding, Redirected

OneFaultInv == alone /\ faults <= 1 => SequentialInv

LEMMA SequentialStep ==
    TypeInv /\ OneFaultInv /\ [Next]_vars => OneFaultInv'
<1> SUFFICES ASSUME TypeInv, OneFaultInv, [Next]_vars, alone', faults' <= 1
             PROVE  SequentialInv'
  BY DEF OneFaultInv
<1>0. alone /\ faults <= 1 /\ SequentialInv
  <2>1. alone' => alone
    BY DEF Next, RunStep, GetApp, Decide, Refuse, Decline, Confirm, StartTunnel, StartFails,
           OpenState, WriteState, WriteFails, Redirect, Serve, RedirectFails, Interrupt,
           ServerStopped, NoticeTunnel, Keep, NothingToRestore, Restore, Forget, ForgetFails,
           RestoreFails, Close, Kill, TunnelDies, ReusePid, Edit, vars, world
  <2>2. faults' = faults \/ faults' = faults + 1
    BY DEF Fault,
           Next, RunStep, GetApp, Decide, Refuse, Decline, Confirm, StartTunnel, StartFails,
           OpenState, WriteState, WriteFails, Redirect, Serve, RedirectFails, Interrupt,
           ServerStopped, NoticeTunnel, Keep, NothingToRestore, Restore, Forget, ForgetFails,
           RestoreFails, Close, Kill, TunnelDies, ReusePid, Edit, vars
  <2>3. faults \in Nat
    BY DEF TypeInv, TypeOK
  <2>4. faults <= 1
    BY <2>2, <2>3
  <2> QED
    BY <2>1, <2>4 DEF OneFaultInv
<1> USE <1>0 DEF TypeInv, TypeOK, SequentialInv, Home, OnLoan, Goto, local, world
<1>1. ASSUME NEW r \in Run, GetApp(r) PROVE SequentialInv'
  BY <1>1 DEF GetApp, OneAtATime, RunKnows, OwedAndSaved, Live, Deciding, Redirected
<1>2. ASSUME NEW r \in Run, RunStep(r) \/ Kill(r), ~GetApp(r) PROVE SequentialInv'
  <2>1. Live(r)
    BY <1>2 DEF Live, RunStep, Decide, Refuse, Decline, Confirm, StartTunnel, StartFails,
                OpenState, WriteState, WriteFails, Redirect, Serve, RedirectFails, Interrupt,
                ServerStopped, NoticeTunnel, Keep, NothingToRestore, Restore, Forget,
                ForgetFails, RestoreFails, Close, Kill
  <2>2. \A q \in Run \ {r} : pc[q] \in {"idle", "done", "killed"}
    BY <2>1 DEF OneAtATime, Live
  <2> USE DEF OneAtATime, RunKnows, OwedAndSaved, Live, Deciding, Redirected
  <2>3. CASE Decide(r)
    BY <2>2, <2>3 DEF Decide, Original, Matches, URL
  <2>4. CASE Refuse(r) \/ Decline(r) \/ StartFails(r)
    BY <2>2, <2>4 DEF Refuse, Decline, StartFails
  <2>5. CASE Confirm(r)
    BY <2>2, <2>5 DEF Confirm
  <2>6. CASE StartTunnel(r)
    BY <2>2, <2>6 DEF StartTunnel, Throwaway
  <2>7. CASE OpenState(r)
    BY <2>2, <2>7 DEF OpenState
  <2>8. CASE WriteState(r)
    <3>1. disk' # NoState /\ disk' = [orig |-> orig[r], tun |-> turl[r], run |-> r]
      BY <2>8 DEF WriteState, Equipped
    <3>2. \A q \in Run : RunKnows(q)'
      BY <2>2, <2>8, <3>1 DEF WriteState
    <3>3. OwedAndSaved'
      BY <2>8, <3>1 DEF WriteState, URL
    <3> QED
      BY <2>2, <2>8, <3>2, <3>3 DEF WriteState
  <2>9. CASE Redirect(r)
    BY <2>2, <2>9 DEF Redirect
  <2>10. CASE WriteFails(r) \/ RedirectFails(r)
    BY <2>2, <2>10 DEF WriteFails, RedirectFails, Fault
  <2>11. CASE Serve(r) \/ Interrupt(r) \/ ServerStopped(r) \/ NoticeTunnel(r)
    BY <2>2, <2>11 DEF Serve, Interrupt, ServerStopped, NoticeTunnel
  <2>12. CASE Keep(r) \/ NothingToRestore(r) \/ Restore(r)
    BY <2>2, <2>12 DEF Keep, NothingToRestore, Restore, URL
  <2>13. CASE Forget(r) \/ Close(r)
    BY <2>2, <2>13 DEF Forget, Close
  <2>14. CASE ForgetFails(r) \/ RestoreFails(r)
    BY <2>2, <2>14 DEF ForgetFails, RestoreFails, Fault
  <2>15. CASE Kill(r)
    BY <2>2, <2>15 DEF Kill, Fault
  <2> QED
    BY <1>2, <2>3, <2>4, <2>5, <2>6, <2>7, <2>8, <2>9, <2>10, <2>11, <2>12, <2>13, <2>14,
       <2>15 DEF RunStep
<1>3. ASSUME Edit PROVE SequentialInv'
  BY <1>3 DEF Edit, OneAtATime, RunKnows, OwedAndSaved, Live, Deciding, Redirected, URL
<1>4. ASSUME NEW r \in Run, TunnelDies(r) \/ ReusePid(r) PROVE SequentialInv'
  BY <1>4 DEF TunnelDies, ReusePid, OneAtATime, RunKnows, OwedAndSaved, Live
<1>5. CASE UNCHANGED vars
  BY <1>5 DEF vars, OneAtATime, RunKnows, OwedAndSaved, Live
<1> QED
  BY <1>1, <1>2, <1>3, <1>4, <1>5 DEF Next

LEMMA OneFaultAlways == Spec => []OneFaultInv
<1>1. Init => OneFaultInv
  BY SequentialInit DEF OneFaultInv
<1> QED
  BY <1>1, TypeInvInit, TypeInvStep, SequentialStep, PTL DEF Spec

(***************************************************************************)
(* One fault at any point of any sequence of runs never loses the URL the  *)
(* owner is owed.                                                          *)
(***************************************************************************)
THEOREM OneFaultRecoverable == Spec => []OwnerURLRecoverable
<1>1. OneFaultInv => OwnerURLRecoverable
  BY DEF OneFaultInv, SequentialInv, OwnerURLRecoverable, Recoverable, Home, OnLoan, RunKnows,
         InHand, Deciding
<1> QED
  BY <1>1, OneFaultAlways, PTL

(***************************************************************************)
(* After it the next run to serve is one that restores the URL, and with   *)
(* no fault it is back on the application whenever no run is alive.        *)
(***************************************************************************)
THEOREM OneFaultRestores == Spec => []ServingRestoresOwed
<1>1. OneFaultInv => ServingRestoresOwed
  <2> SUFFICES ASSUME OneFaultInv, alone, faults <= 1
               PROVE  /\ \A r \in Run : pc[r] = "serving" => due \in {orig[r], NoURL}
                      /\ faults = 0 /\ ~(\E r \in Run : Live(r)) => due \in {app, NoURL}
    BY DEF ServingRestoresOwed
  <2>1. \A r \in Run : pc[r] = "serving" => due \in {orig[r], NoURL}
    BY DEF OneFaultInv, SequentialInv, RunKnows, Deciding
  <2>2. faults = 0 /\ ~(\E r \in Run : Live(r)) => due \in {app, NoURL}
    BY DEF OneFaultInv, SequentialInv, Home, Live, Redirected
  <2> QED
    BY <2>1, <2>2
<1> QED
  BY <1>1, OneFaultAlways, PTL

-----------------------------------------------------------------------------
(***************************************************************************)
(* Any number of faults.  Once the URL is lost nothing is known of it; but *)
(* while it is on the application or in the file (Home or OnLoan), a run   *)
(* that has decided knows it, and what a run that has redirected knows is  *)
(* in the state file.                                                      *)
(***************************************************************************)
Choosing == {"confirm", "start", "tunneled", "writing", "post"}

RunHolds(r) ==
    /\ pc[r] = "got" => seen[r] = app
    /\ pc[r] \in {"tunneled", "writing", "post"} \cup Redirected \cup {"returned"}
         => turl[r] \notin Own
    /\ pc[r] \in {"post", "returned"} \cup Redirected /\ orig[r] # NoURL
         => disk # NoState /\ disk = [orig |-> orig[r], tun |-> turl[r], run |-> r]
    /\ pc[r] \in Redirected => app = turl[r]
    /\ pc[r] = "returned" => app = orig[r] /\ orig[r] # NoURL
    /\ pc[r] \in Choosing /\ due \in Own /\ (Home \/ OnLoan) => orig[r] = due

HandedOn ==
    /\ OneAtATime
    /\ \A r \in Run : RunHolds(r)
    /\ due \in Own \cup Ngrok \cup {NoURL}
    /\ disk # NoState => disk.tun \notin Own

HandedOnInv == alone => HandedOn

\* The step of LostOnlyWhileRecovering.
KeptOrKilled ==
    due \notin Ngrok /\ Recoverable /\ ~Recoverable' =>
        \E r \in Run : InHand(r) /\ pc'[r] \in {"killed", "closing"}

LEMMA HandedOnStep ==
    TypeInv /\ HandedOnInv /\ [Next]_vars => HandedOnInv' /\ (alone' => KeptOrKilled)
<1> SUFFICES ASSUME TypeInv, HandedOnInv, [Next]_vars, alone'
             PROVE  HandedOn' /\ KeptOrKilled
  BY DEF HandedOnInv
<1>0. alone /\ HandedOn
  <2>1. alone' => alone
    BY DEF Next, RunStep, GetApp, Decide, Refuse, Decline, Confirm, StartTunnel, StartFails,
           OpenState, WriteState, WriteFails, Redirect, Serve, RedirectFails, Interrupt,
           ServerStopped, NoticeTunnel, Keep, NothingToRestore, Restore, Forget, ForgetFails,
           RestoreFails, Close, Kill, TunnelDies, ReusePid, Edit, vars, world
  <2> QED
    BY <2>1 DEF HandedOnInv
<1> USE <1>0 DEF TypeInv, TypeOK, HandedOn, Home, OnLoan, Goto, local, world, KeptOrKilled,
                 Recoverable, InHand
<1>1. ASSUME NEW r \in Run, GetApp(r) PROVE HandedOn' /\ KeptOrKilled
  BY <1>1 DEF GetApp, OneAtATime, RunHolds, Live, Choosing, Redirected
<1>2. ASSUME NEW r \in Run, RunStep(r) \/ Kill(r), ~GetApp(r) PROVE HandedOn' /\ KeptOrKilled
  <2>1. Live(r)
    BY <1>2 DEF Live, RunStep, Decide, Refuse, Decline, Confirm, StartTunnel, StartFails,
                OpenState, WriteState, WriteFails, Redirect, Serve, RedirectFails, Interrupt,
                ServerStopped, NoticeTunnel, Keep, NothingToRestore, Restore, Forget,
                ForgetFails, RestoreFails, Close, Kill
  <2>2. \A q \in Run \ {r} : pc[q] \in {"idle", "done", "killed"}
    BY <2>1 DEF OneAtATime, Live
  <2> USE DEF OneAtATime, RunHolds, Live, Choosing, Redirected
  <2>3. CASE Decide(r)
    BY <2>2, <2>3 DEF Decide, Original, Matches, URL
  <2>4. CASE Refuse(r) \/ Decline(r) \/ StartFails(r)
    BY <2>2, <2>4 DEF Refuse, Decline, StartFails
  <2>5. CASE Confirm(r)
    BY <2>2, <2>5 DEF Confirm
  <2>6. CASE StartTunnel(r)
    BY <2>2, <2>6 DEF StartTunnel, Throwaway
  <2>7. CASE OpenState(r)
    BY <2>2, <2>7 DEF OpenState
  <2>8. CASE WriteState(r)
    <3>1. disk' # NoState /\ disk' = [orig |-> orig[r], tun |-> turl[r], run |-> r]
      BY <2>8 DEF WriteState, Equipped
    <3>2. \A q \in Run : RunHolds(q)'
      BY <2>2, <2>8, <3>1 DEF WriteState
    <3>3. disk'.tun \notin Own
      BY <2>8, <3>1 DEF WriteState
    <3> QED
      BY <2>2, <2>8, <3>2, <3>3 DEF WriteState
  <2>9. CASE Redirect(r)
    BY <2>2, <2>9 DEF Redirect
  <2>10. CASE WriteFails(r) \/ RedirectFails(r)
    BY <2>2, <2>10 DEF WriteFails, RedirectFails, Fault
  <2>11. CASE Serve(r) \/ Interrupt(r) \/ ServerStopped(r) \/ NoticeTunnel(r)
    BY <2>2, <2>11 DEF Serve, Interrupt, ServerStopped, NoticeTunnel
  <2>12. CASE Keep(r) \/ NothingToRestore(r)
    BY <2>2, <2>12 DEF Keep, NothingToRestore
  <2>13. CASE Restore(r)
    BY <2>2, <2>13 DEF Restore
  <2>14. CASE Forget(r)
    BY <2>2, <2>14 DEF Forget
  <2>15. CASE Close(r) \/ ForgetFails(r) \/ RestoreFails(r)
    BY <2>2, <2>15 DEF Close, ForgetFails, RestoreFails, Fault
  <2>16. CASE Kill(r)
    BY <2>2, <2>16 DEF Kill, Fault
  <2> QED
    BY <1>2, <2>3, <2>4, <2>5, <2>6, <2>7, <2>8, <2>9, <2>10, <2>11, <2>12, <2>13, <2>14,
       <2>15, <2>16 DEF RunStep
<1>3. ASSUME Edit PROVE HandedOn' /\ KeptOrKilled
  BY <1>3 DEF Edit, OneAtATime, RunHolds, Live, Choosing, Redirected, URL
<1>4. ASSUME NEW r \in Run, TunnelDies(r) \/ ReusePid(r) PROVE HandedOn' /\ KeptOrKilled
  BY <1>4 DEF TunnelDies, ReusePid, OneAtATime, RunHolds, Live
<1>5. CASE UNCHANGED vars
  BY <1>5 DEF vars, OneAtATime, RunHolds, Live
<1> QED
  BY <1>1, <1>2, <1>3, <1>4, <1>5 DEF Next

(***************************************************************************)
(* Through any number of kills and failures of runs that do not overlap,   *)
(* a URL of the owner's is lost only when a recovering run ends between    *)
(* opening the state file and the redirect.                                *)
(***************************************************************************)
THEOREM LossOnlyInRecovery == Spec => LostOnlyWhileRecovering
<1>1. Init => HandedOnInv
  BY DEF Init, HandedOnInv, HandedOn, OneAtATime, RunHolds, Live, Choosing, Redirected, Home,
         OnLoan, URL, Throwaway
<1>2. (alone' => KeptOrKilled) =>
        (alone' /\ due \notin Ngrok /\ Recoverable /\ ~Recoverable' =>
             \E r \in Run : InHand(r) /\ pc'[r] \in {"killed", "closing"})
  BY DEF KeptOrKilled
<1> QED
  BY <1>1, <1>2, TypeInvInit, TypeInvStep, HandedOnStep, PTL DEF Spec, LostOnlyWhileRecovering
=============================================================================
