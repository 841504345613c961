-------------------------- MODULE InvocationProofs --------------------------
(***************************************************************************)
(* What holds of Invocation for every set of commands of the right shape,  *)
(* however long, and a caller that runs them again any number of times.    *)
(***************************************************************************)
EXTENDS Invocation, TLAPS

USE InvocationAssumption

LEMMA CommandShape ==
    ASSUME NEW p \in Program
    PROVE  /\ Len(p) \in Nat /\ DOMAIN p = 1 .. Len(p)
           /\ \A i \in DOMAIN p : p[i] \in Steps
OBVIOUS

-----------------------------------------------------------------------------
(* A run that has not ended has printed nothing, so it prints once at most. *)

TypeInv == TypeOK /\ (~ended => docs = 0)

LEMMA TypeInvInit == Init => TypeInv
<1> SUFFICES ASSUME Init PROVE TypeInv
  OBVIOUS
<1>1. /\ cmd \in Program /\ Len(cmd) \in Nat /\ DOMAIN cmd = 1 .. Len(cmd)
      /\ at = 1 /\ page = 0 /\ tries = 0 /\ docs = 0 /\ attempt = 1
  BY CommandShape DEF Init
<1>2. at \in 1 .. Len(cmd) + 1 /\ tries \in 0 .. PageRetries /\ attempt \in 1 .. MaxAttempts
  BY <1>1
<1>3. applied \in [DOMAIN cmd -> Nat] /\ hidden \in [DOMAIN cmd -> Nat]
  BY DEF Init
<1>4. partial \in Reports /\ exit \in Reports
  BY DEF Init, Reports
<1>5. dry \in BOOLEAN /\ sent \in BOOLEAN /\ ended \in BOOLEAN /\ flags \in Flags
  BY DEF Init
<1> QED
  BY <1>1, <1>2, <1>3, <1>4, <1>5 DEF TypeInv, TypeOK

LEMMA TypeInvStep == TypeInv /\ [Next]_vars => TypeInv'
<1> SUFFICES ASSUME TypeInv, [Next]_vars PROVE TypeInv'
  OBVIOUS
<1> USE DEF TypeInv, TypeOK
<1>s. Len(cmd) \in Nat /\ DOMAIN cmd = 1 .. Len(cmd)
  BY CommandShape
<1>r. /\ {Done, UsageError, NoLogin, Refusal, QueryError, Garbled, OddPage} \subseteq Reports
      /\ AnswerErrors \subseteq Reports
      /\ \A s : Lost(s) \in Reports
  BY DEF Reports, Lost
<1>a. ASSUME NEW k, Doing(k), Advance
      PROVE  /\ at' \in 1 .. Len(cmd) + 1 /\ exit' \in Reports /\ ended' \in BOOLEAN
             /\ ~ended /\ ~ended'
  BY <1>a, <1>s DEF Doing, Advance
<1>b. ASSUME NEW e \in Reports, Stop(e)
      PROVE  at' \in 1 .. Len(cmd) + 1 /\ exit' \in Reports /\ ended' \in BOOLEAN /\ ended'
  BY <1>b DEF Stop
<1>c. ASSUME UNCHANGED caller
      PROVE  /\ cmd' \in Program /\ flags' \in Flags /\ attempt' \in 1 .. MaxAttempts
             /\ cmd' = cmd
  BY <1>c DEF caller
<1>1. ASSUME Check PROVE TypeInv'
  BY <1>1, <1>a, <1>b, <1>c, <1>r DEF Check, Doing
<1>2. ASSUME Gate PROVE TypeInv'
  BY <1>2, <1>a, <1>b, <1>c, <1>r DEF Gate, Doing
<1>3. ASSUME ForceGate PROVE TypeInv'
  BY <1>3, <1>a, <1>b, <1>c, <1>r DEF ForceGate, Doing
<1>4. ASSUME Client PROVE TypeInv'
  <2>1. flags.dry \in BOOLEAN
    BY DEF Flags
  <2> QED
    BY <1>4, <1>a, <1>b, <1>c, <1>r, <2>1 DEF Client, Doing
<1>5. ASSUME Look \/ Peek PROVE TypeInv'
  BY <1>5, <1>a, <1>b, <1>c, <1>r DEF Look, Peek, Doing
<1>6. ASSUME Preview PROVE TypeInv'
  BY <1>6, <1>a, <1>c DEF Preview
<1>7. ASSUME Accepted \/ Answered \/ Unanswered PROVE TypeInv'
  <2>1. /\ UNCHANGED caller /\ sent' \in BOOLEAN
        /\ dry' = dry /\ partial' = partial /\ page' = page /\ tries' = tries /\ docs' = docs
    BY <1>7 DEF Accepted, Answered, Unanswered
  <2>2. applied' \in [DOMAIN cmd -> Nat] /\ hidden' \in [DOMAIN cmd -> Nat]
    <3>1. applied' = applied \/ Carried
      BY <1>7 DEF Accepted, Answered, Unanswered
    <3>2. hidden' = hidden \/ hidden' = [hidden EXCEPT ![at] = @ + 1]
      BY <1>7 DEF Accepted, Answered, Unanswered
    <3>3. applied' \in [DOMAIN cmd -> Nat]
      BY <3>1 DEF Carried
    <3>4. hidden' \in [DOMAIN cmd -> Nat]
      <4>1. hidden \in [DOMAIN cmd -> Nat]
        OBVIOUS
      <4> HIDE DEF TypeInv, TypeOK
      <4> QED
        BY <3>2, <4>1
    <3> QED
      BY <3>3, <3>4
  <2>3. (\E k : Doing(k) /\ Advance) \/ (~ended /\ \E e \in Reports : Stop(e))
    BY <1>7, <1>r DEF Accepted, Answered, Unanswered, Doing
  <2> QED
    BY <1>a, <1>b, <1>c, <2>1, <2>2, <2>3
<1>8. ASSUME ReadPage PROVE TypeInv'
  <2>1. Advance \/ (UNCHANGED <<at, exit, ended>> /\ ~ended)
    BY <1>8 DEF ReadPage, Doing
  <2>2. page' \in Nat /\ tries' = 0 /\ Doing({"list"})
    BY <1>8 DEF ReadPage
  <2> QED
    BY <1>8, <1>a, <1>c, <2>1, <2>2 DEF ReadPage
<1>9. ASSUME PageLimited PROVE TypeInv'
  BY <1>9, <1>c DEF PageLimited
<1>10. ASSUME PageFails PROVE TypeInv'
  <2>1. PageErrors \subseteq Reports
    <3>1. RateLimited \in Reports
      BY <1>r DEF AnswerErrors
    <3> QED
      BY <1>r, <3>1 DEF PageErrors
  <2>2. /\ Doing({"list"}) /\ UNCHANGED caller
        /\ dry' = dry /\ sent' = sent /\ page' = page /\ tries' = tries /\ docs' = docs
        /\ applied' = applied /\ hidden' = hidden
    BY <1>10 DEF PageFails
  <2>3. \E e \in PageErrors : (Stop(e) /\ partial' = partial) \/ (Advance /\ partial' = e)
    BY <1>10 DEF PageFails
  <2> QED
    BY <1>a, <1>b, <1>c, <2>1, <2>2, <2>3
<1>11. ASSUME PrintResult PROVE TypeInv'
  BY <1>11, <1>b, <1>c, <1>r DEF PrintResult
<1>12. ASSUME RunAgain \/ Approve PROVE TypeInv'
  <2>1. /\ cmd' = cmd /\ applied' = applied /\ hidden' = hidden
        /\ attempt' = attempt + 1 /\ attempt < MaxAttempts /\ Fresh
    BY <1>12 DEF RunAgain, Approve
  <2>2. flags' \in Flags
    <3>1. {flags.force, TRUE} \subseteq BOOLEAN
      BY DEF Flags
    <3>2. flags' = flags \/ \E f \in BOOLEAN : flags' = [flags EXCEPT !.yes = TRUE, !.force = f]
      BY <1>12, <3>1 DEF RunAgain, Approve
    <3> QED
      BY <3>2 DEF Flags
  <2>3. at' \in 1 .. Len(cmd) + 1 /\ attempt' \in 1 .. MaxAttempts
    BY <1>s, <2>1 DEF Fresh
  <2>4. dry' \in BOOLEAN /\ sent' \in BOOLEAN /\ ended' \in BOOLEAN
    BY <2>1 DEF Fresh
  <2>5. page' \in Nat /\ tries' \in 0 .. PageRetries /\ docs' = 0
    BY <2>1 DEF Fresh
  <2>6. partial' \in Reports /\ exit' \in Reports
    BY <1>r, <2>1 DEF Fresh
  <2> QED
    BY <2>1, <2>2, <2>3, <2>4, <2>5, <2>6
<1>13. ASSUME UNCHANGED vars PROVE TypeInv'
  BY <1>13 DEF vars
<1> QED
  BY <1>1, <1>2, <1>3, <1>4, <1>5, <1>6, <1>7, <1>8, <1>9, <1>10, <1>11, <1>12, <1>13 DEF Next

(***************************************************************************)
(* The variables have their types; in particular a run prints one document *)
(* at most, whatever its steps, and never waits more often than allowed.   *)
(***************************************************************************)
THEOREM TypeCorrect == Spec => []TypeOK
<1>1. TypeInv => TypeOK
  BY DEF TypeInv
<1> QED
  BY <1>1, TypeInvInit, TypeInvStep, PTL DEF Spec

-----------------------------------------------------------------------------
(* --dry-run and --yes *)

\* Past getClient, the flag is in the client.
DryInv ==
    /\ flags.dry /\ (\E j \in 1 .. at - 1 : cmd[j].do = "client") => dry
    /\ flags.dry => \A i \in DOMAIN cmd : applied[i] = 0

\* Past a gate, the run has one of the flags that let it through.
ConsentInv ==
    /\ (\E j \in 1 .. at - 1 : cmd[j].do \in {"gate", "force"}) => flags.yes \/ flags.dry
    /\ Consented

LEMMA DryStep ==
    ASSUME \A p \in Program : ClientFirst(p)
    PROVE  TypeInv /\ DryInv /\ [Next]_vars => DryInv'
<1> SUFFICES ASSUME TypeInv, DryInv, [Next]_vars PROVE DryInv'
  OBVIOUS
<1>s. Len(cmd) \in Nat /\ DOMAIN cmd = 1 .. Len(cmd) /\ ClientFirst(cmd)
  BY CommandShape DEF TypeInv, TypeOK
<1> USE DEF TypeInv, TypeOK, DryInv
<1>1. ASSUME Check \/ Gate \/ ForceGate \/ Client \/ Look \/ Peek \/ Preview \/ ReadPage
              \/ PageLimited \/ PageFails
      PROVE  DryInv'
  <2>1. flags' = flags /\ cmd' = cmd /\ applied' = applied
    BY <1>1 DEF Check, Gate, ForceGate, Client, Look, Peek, Preview, ReadPage, PageLimited,
                PageFails, caller
  <2>2. CASE Client
    BY <1>s, <2>1, <2>2 DEF Client, Doing, Advance, Stop, Flags
  <2>3. CASE ~Client
    <3>1. dry' = dry \/ dry' = (dry \/ flags.dry)
      BY <1>1, <2>3 DEF Check, Gate, ForceGate, Look, Peek, Preview, ReadPage, PageLimited,
                        PageFails
    <3>2. at' = at \/ (at' = at + 1 /\ cmd[at].do # "client")
      BY <1>1, <2>3 DEF Check, Gate, ForceGate, Look, Peek, Preview, ReadPage, PageLimited,
                        PageFails, Advance, Stop, Doing, Here
    <3> QED
      BY <1>s, <2>1, <3>1, <3>2
  <2> QED
    BY <2>2, <2>3
<1>2. ASSUME Accepted \/ Answered \/ Unanswered PROVE DryInv'
  <2>1. /\ flags' = flags /\ cmd' = cmd /\ dry' = dry /\ ~dry
        /\ at \in DOMAIN cmd /\ Sends(cmd[at]) /\ cmd[at].do # "client"
        /\ at' = at \/ at' = at + 1
    BY <1>2 DEF Accepted, Answered, Unanswered, Doing, Here, Sends, Advance, Stop, caller
  <2>2. ~flags.dry
    BY <1>s, <2>1 DEF ClientFirst
  <2> QED
    BY <2>1, <2>2
<1>3. ASSUME PrintResult PROVE DryInv'
  BY <1>3 DEF PrintResult, Stop, caller
<1>4. ASSUME RunAgain \/ Approve PROVE DryInv'
  <2>1. at' = 1 /\ cmd' = cmd /\ applied' = applied /\ flags'.dry = flags.dry
    BY <1>4 DEF RunAgain, Approve, Fresh, Flags
  <2> QED
    BY <2>1
<1>5. ASSUME UNCHANGED vars PROVE DryInv'
  BY <1>5 DEF vars
<1> QED
  BY <1>1, <1>2, <1>3, <1>4, <1>5 DEF Next

(***************************************************************************)
(* --dry-run: a command that has its client before it sends has nothing    *)
(* carried out, whatever reads it does on the way and however often its    *)
(* caller runs it.                                                         *)
(***************************************************************************)
THEOREM DryRunIsPreview ==
    ASSUME \A p \in Program : ClientFirst(p)
    PROVE  Spec => []DryRunWritesNothing
<1>1. Init => DryInv
  <2> SUFFICES ASSUME Init PROVE DryInv
    OBVIOUS
  <2> QED
    BY DEF Init, DryInv
<1>2. DryInv => DryRunWritesNothing
  BY DEF DryInv, DryRunWritesNothing
<1> QED
  BY <1>1, <1>2, TypeInvInit, TypeInvStep, DryStep, PTL DEF Spec

LEMMA ConsentStep ==
    ASSUME \A p \in Program : ClientFirst(p) /\ Gated(p)
    PROVE  TypeInv /\ DryInv /\ ConsentInv /\ [Next]_vars => ConsentInv'
<1> SUFFICES ASSUME TypeInv, DryInv, ConsentInv, [Next]_vars PROVE ConsentInv'
  OBVIOUS
<1>s. Len(cmd) \in Nat /\ DOMAIN cmd = 1 .. Len(cmd) /\ ClientFirst(cmd) /\ Gated(cmd)
  BY CommandShape DEF TypeInv, TypeOK
<1> USE DEF TypeInv, TypeOK, ConsentInv, Consented
<1>1. ASSUME Check \/ Client \/ Look \/ Peek \/ Preview \/ ReadPage \/ PageLimited \/ PageFails
      PROVE  ConsentInv'
  <2>1. flags' = flags /\ cmd' = cmd /\ applied' = applied
    BY <1>1 DEF Check, Client, Look, Peek, Preview, ReadPage, PageLimited, PageFails, caller
  <2>2. at' = at \/ (at' = at + 1 /\ cmd[at].do \notin {"gate", "force"})
    BY <1>1 DEF Check, Client, Look, Peek, Preview, ReadPage, PageLimited, PageFails, Advance,
                Stop, Doing, Here
  <2> QED
    BY <1>s, <2>1, <2>2
<1>2. ASSUME Gate \/ ForceGate PROVE ConsentInv'
  <2>1. flags' = flags /\ cmd' = cmd /\ applied' = applied
    BY <1>2 DEF Gate, ForceGate, caller
  <2>2. at' = at \/ flags.yes \/ flags.dry
    BY <1>2 DEF Gate, ForceGate, Advance, Stop
  <2> QED
    BY <1>s, <2>1, <2>2
<1>3. ASSUME Accepted \/ Answered \/ Unanswered PROVE ConsentInv'
  <2>1. /\ flags' = flags /\ cmd' = cmd /\ ~dry
        /\ at \in DOMAIN cmd /\ Sends(cmd[at]) /\ cmd[at].do \notin {"gate", "force"}
        /\ at' = at \/ at' = at + 1
        /\ applied' = applied \/ applied' = [applied EXCEPT ![at] = @ + 1]
    BY <1>3 DEF Accepted, Answered, Unanswered, Doing, Here, Sends, Advance, Stop, Carried,
                caller
  <2>2. SpendsOrDestroys(cmd[at]) => flags.yes
    <3>1. ~flags.dry
      BY <1>s, <2>1 DEF ClientFirst, DryInv
    <3> QED
      BY <1>s, <2>1, <3>1 DEF Gated
  <2> HIDE DEF TypeInv
  <2> QED
    BY <1>s, <2>1, <2>2 DEF TypeInv
<1>4. ASSUME PrintResult PROVE ConsentInv'
  BY <1>4 DEF PrintResult, Stop, caller
<1>5. ASSUME RunAgain \/ Approve PROVE ConsentInv'
  <2>1. at' = 1 /\ cmd' = cmd /\ applied' = applied /\ (flags.yes => flags'.yes)
    BY <1>5 DEF RunAgain, Approve, Fresh, Flags
  <2> QED
    BY <2>1
<1>6. ASSUME UNCHANGED vars PROVE ConsentInv'
  BY <1>6 DEF vars
<1> QED
  BY <1>1, <1>2, <1>3, <1>4, <1>5, <1>6 DEF Next

(***************************************************************************)
(* A command that passes a gate before what it spends or destroys has it   *)
(* carried out only with --yes.                                            *)
(***************************************************************************)
THEOREM AlwaysConsent ==
    ASSUME \A p \in Program : ClientFirst(p) /\ Gated(p)
    PROVE  Spec => []ConsentBeforeWrite
<1>1. Init => DryInv /\ ConsentInv
  <2> SUFFICES ASSUME Init PROVE DryInv /\ ConsentInv
    OBVIOUS
  <2> QED
    BY DEF Init, DryInv, ConsentInv, Consented
<1>2. DryInv /\ ConsentInv => ConsentBeforeWrite
  BY DEF DryInv, ConsentInv, ConsentBeforeWrite, DryRunWritesNothing
<1>3. TypeInv /\ DryInv /\ [Next]_vars => DryInv'
  BY DryStep
<1>4. TypeInv /\ DryInv /\ ConsentInv /\ [Next]_vars => ConsentInv'
  BY ConsentStep
<1> QED
  BY <1>1, <1>2, <1>3, <1>4, TypeInvInit, TypeInvStep, PTL DEF Spec

-----------------------------------------------------------------------------
(* Running again *)

\* Once a write may have been carried out, and not behind a ServerError, only
\* reads back and the result are left of the run, and no report that has the
\* command run again.
Sent(i) == applied[i] # hidden[i]

OnceInv ==
    /\ (\E i \in DOMAIN cmd : Write(cmd[i])) => partial = Done
    /\ ~ended => exit = Done
    /\ \A i \in DOMAIN cmd :
        Write(cmd[i]) /\ Sent(i) =>
            /\ applied[i] = hidden[i] + 1
            /\ ~ended => i < at /\ sent
            /\ ended => ~Invites(exit) /\ exit.why \notin {"query", "refused"}

LEMMA OnceStep ==
    ASSUME \A p \in Program : OneWriteLast(p)
    PROVE  TypeInv /\ OnceInv /\ [Next]_vars => OnceInv'
<1> SUFFICES ASSUME TypeInv, OnceInv, [Next]_vars PROVE OnceInv'
  OBVIOUS
<1>s. /\ Len(cmd) \in Nat /\ DOMAIN cmd = 1 .. Len(cmd) /\ at \in Nat
      /\ applied \in [DOMAIN cmd -> Nat] /\ hidden \in [DOMAIN cmd -> Nat]
      /\ OneWriteLast(cmd)
  BY CommandShape DEF TypeInv, TypeOK
<1>n. ASSUME NEW i \in DOMAIN cmd, Write(cmd[i]), Sent(i), ~ended, at \in DOMAIN cmd
      PROVE  cmd[at].do = "peek"
  BY <1>n, <1>s DEF OnceInv, OneWriteLast
<1>1. ASSUME Check \/ Gate \/ ForceGate \/ Client \/ Look \/ Preview PROVE OnceInv'
  <2>1. /\ cmd' = cmd /\ applied' = applied /\ hidden' = hidden /\ partial' = partial
        /\ ~ended /\ at \in DOMAIN cmd /\ cmd[at].do # "peek"
    BY <1>1 DEF Check, Gate, ForceGate, Client, Look, Preview, Doing, Here, caller
  <2>2. ~ended' => exit' = exit
    BY <1>1 DEF Check, Gate, ForceGate, Client, Look, Preview, Advance, Stop
  <2> QED
    BY <1>n, <2>1, <2>2 DEF OnceInv, Sent
<1>2. ASSUME ReadPage \/ PageLimited \/ PageFails PROVE OnceInv'
  <2>1. /\ cmd' = cmd /\ applied' = applied /\ hidden' = hidden
        /\ ~ended /\ at \in DOMAIN cmd /\ cmd[at].do = "list"
    BY <1>2 DEF ReadPage, PageLimited, PageFails, Doing, Here, caller
  <2>2. ~ended' => exit' = exit
    BY <1>2, <2>1 DEF ReadPage, PageLimited, PageFails, Advance, Stop
  <2>3. \A i \in DOMAIN cmd : ~Write(cmd[i])
    BY <1>s, <2>1 DEF OneWriteLast
  <2> QED
    BY <2>1, <2>2, <2>3 DEF OnceInv
<1>3. ASSUME Accepted \/ Answered \/ Unanswered PROVE OnceInv'
  <2>1. /\ cmd' = cmd /\ partial' = partial /\ ~ended
        /\ at \in DOMAIN cmd /\ cmd[at].do \in {"request", "raw", "contacto"}
    BY <1>3 DEF Accepted, Answered, Unanswered, Doing, Here, caller
  <2>2. ~ended' => exit' = exit
    BY <1>3 DEF Accepted, Answered, Unanswered, Advance, Stop
  <2>3. \A i \in DOMAIN cmd : Write(cmd[i]) => ~Sent(i)
    BY <1>n, <1>s, <2>1
  <2>4. CASE UNCHANGED <<applied, hidden>>
    BY <2>1, <2>2, <2>3, <2>4 DEF OnceInv, Sent
  <2>5. CASE Carried /\ hidden' = [hidden EXCEPT ![at] = @ + 1]
    <3>1. \A i \in DOMAIN cmd : Write(cmd[i]) => applied'[i] = hidden'[i]
      BY <1>s, <2>1, <2>3, <2>5 DEF Carried, Sent
    <3> QED
      BY <2>1, <2>2, <3>1 DEF OnceInv, Sent
  <2>6. CASE Carried /\ hidden' = hidden /\ ~Answered
    <3>1. \A i \in DOMAIN cmd :
              Write(cmd[i]) /\ Sent(i)' => i = at /\ applied'[i] = hidden'[i] + 1
      BY <1>s, <2>1, <2>3, <2>6 DEF Carried, Sent
    <3>2. ASSUME Write(cmd[at])
          PROVE  /\ ~ended' => at < at' /\ sent'
                 /\ ended' => ~Invites(exit') /\ exit'.why \notin {"query", "refused"}
      <4>1. cmd[at].do = "request" /\ cmd[at].verb # "get"
        BY <1>s, <2>1, <3>2 DEF OneWriteLast, Write
      <4>2. CASE Accepted
        <5>1. NotesSent(Here)
          BY <4>1 DEF NotesSent, Here
        <5>2. sent'
          BY <4>2, <5>1 DEF Accepted
        <5>3. Advance \/ Stop(Garbled)
          BY <4>2 DEF Accepted
        <5>4. ~Invites(Garbled) /\ Garbled.why \notin {"query", "refused"}
          BY DEF Garbled, Report, Invites
        <5>5. CASE Advance
          BY <1>s, <2>1, <5>2, <5>5 DEF Advance
        <5>6. CASE Stop(Garbled)
          BY <5>4, <5>6 DEF Stop
        <5> QED
          BY <5>3, <5>5, <5>6
      <4>3. CASE Unanswered
        <5>1. Lost(Here) = Report(3, "lost", FALSE)
          BY <4>1 DEF Lost, Here
        <5>2. ~Invites(Lost(Here)) /\ Lost(Here).why \notin {"query", "refused"}
          BY <5>1 DEF Report, Invites
        <5> QED
          BY <4>3, <5>2 DEF Unanswered, Stop
      <4> QED
        BY <1>3, <2>6, <4>2, <4>3
    <3> QED
      BY <2>1, <2>2, <3>1, <3>2 DEF OnceInv, Sent
  <2>7. \/ UNCHANGED <<applied, hidden>>
        \/ Carried /\ hidden' = [hidden EXCEPT ![at] = @ + 1]
        \/ Carried /\ hidden' = hidden /\ ~Answered
    BY <1>3 DEF Accepted, Answered, Unanswered
  <2> QED
    BY <2>4, <2>5, <2>6, <2>7
<1>4. ASSUME Peek PROVE OnceInv'
  BY <1>4, <1>s DEF Peek, Doing, Advance, caller, OnceInv, Sent
<1>5. ASSUME PrintResult PROVE OnceInv'
  <2>1. cmd' = cmd /\ applied' = applied /\ hidden' = hidden /\ partial' = partial /\ ~ended /\ ended'
    BY <1>5 DEF PrintResult, Stop, caller
  <2>2. ASSUME NEW i \in DOMAIN cmd, Write(cmd[i]), Sent(i) PROVE exit' = Done
    BY <1>5, <2>1, <2>2 DEF PrintResult, Stop, OnceInv
  <2>3. ~Invites(Done) /\ Done.why \notin {"query", "refused"}
    BY DEF Done, Report, Invites
  <2> QED
    BY <2>1, <2>2, <2>3 DEF OnceInv, Sent
<1>6. ASSUME RunAgain \/ Approve PROVE OnceInv'
  <2>1. /\ cmd' = cmd /\ applied' = applied /\ hidden' = hidden /\ ended
        /\ partial' = Done /\ exit' = Done /\ ~ended'
        /\ Invites(exit) \/ exit = Refusal
    BY <1>6 DEF RunAgain, Approve, Fresh
  <2>2. Refusal.why = "refused"
    BY DEF Refusal, Report
  <2>3. \A i \in DOMAIN cmd : ~(Write(cmd[i]) /\ Sent(i))
    BY <2>1, <2>2 DEF OnceInv
  <2> QED
    BY <2>1, <2>3 DEF OnceInv, Sent
<1>7. ASSUME UNCHANGED vars PROVE OnceInv'
  BY <1>7 DEF vars, OnceInv, Sent, Invites
<1> QED
  BY <1>1, <1>2, <1>3, <1>4, <1>5, <1>6, <1>7 DEF Next

LEMMA OnceInvariant ==
    ASSUME \A p \in Program : OneWriteLast(p)
    PROVE  Spec => [](TypeInv /\ OnceInv)
<1>1. Init => OnceInv
  <2> SUFFICES ASSUME Init PROVE OnceInv
    OBVIOUS
  <2> QED
    BY DEF Init, OnceInv, Sent
<1>2. TypeInv /\ OnceInv /\ [Next]_vars => OnceInv'
  BY OnceStep
<1> QED
  BY <1>1, <1>2, TypeInvInit, TypeInvStep, PTL DEF Spec

(***************************************************************************)
(* A command with one write, by api.Client, that only reads back follow:   *)
(* no report that invites another run, and no --query error, follows a     *)
(* write that may have been carried out, unless every answer to it so far  *)
(* that left it carried out was a 408 or a 5xx.                            *)
(***************************************************************************)
THEOREM ReportsAreHonest ==
    ASSUME \A p \in Program : OneWriteLast(p)
    PROVE  Spec => []NeverInvitesSecondSend
<1>1. Done.why # "query"
  BY DEF Done, Report
<1>2. TypeInv /\ OnceInv => NeverInvitesSecondSend
  BY <1>1 DEF TypeInv, TypeOK, OnceInv, Sent, NeverInvitesSecondSend
<1> QED
  BY <1>2, OnceInvariant, PTL

(***************************************************************************)
(* And a caller that goes by the reports has such a write carried out once *)
(* at most, however often it runs the command, beside the times it was     *)
(* carried out and answered with 408 or 5xx.                               *)
(***************************************************************************)
THEOREM WritesHappenOnce ==
    ASSUME \A p \in Program : OneWriteLast(p)
    PROVE  Spec => []NoWriteTwice
<1>1. TypeInv /\ OnceInv => NoWriteTwice
  BY DEF TypeInv, TypeOK, OnceInv, Sent, NoWriteTwice
<1> QED
  BY <1>1, OnceInvariant, PTL

-----------------------------------------------------------------------------
(* Exit 0 *)

\* A run that is not a preview has carried out every write it is past, and
\* ends well only past its last step.
SuccessInv ==
    /\ dry => flags.dry
    /\ ~flags.dry => \A i \in DOMAIN cmd : Write(cmd[i]) /\ i < at => applied[i] >= 1
    /\ ended /\ exit.code = 0 => at \notin DOMAIN cmd

LEMMA SuccessStep == TypeInv /\ SuccessInv /\ [Next]_vars => SuccessInv'
<1> SUFFICES ASSUME TypeInv, SuccessInv, [Next]_vars PROVE SuccessInv'
  OBVIOUS
<1>s. /\ Len(cmd) \in Nat /\ DOMAIN cmd = 1 .. Len(cmd) /\ at \in 1 .. Len(cmd) + 1
      /\ applied \in [DOMAIN cmd -> Nat]
  BY CommandShape DEF TypeInv, TypeOK
<1>e. /\ \A e \in {UsageError, NoLogin, Refusal, Garbled, OddPage} : e.code # 0
      /\ \A e \in AnswerErrors : e.code # 0
      /\ \A s : Lost(s).code # 0
  <2>1. \A e \in {UsageError, NoLogin, Refusal, Garbled, OddPage} : e.code # 0
    BY DEF UsageError, NoLogin, Refusal, Garbled, OddPage, Report
  <2>2. \A e \in AnswerErrors : e.code # 0
    BY DEF AnswerErrors, RateLimited, ServerError, Report
  <2>3. \A s : Lost(s).code # 0
    BY DEF Lost, Report
  <2> QED
    BY <2>1, <2>2, <2>3
<1>1. ASSUME Check \/ Gate \/ ForceGate \/ Client \/ Look \/ Peek
      PROVE  SuccessInv'
  <2>1. /\ cmd' = cmd /\ applied' = applied /\ flags' = flags /\ ~ended
        /\ at \in DOMAIN cmd /\ ~Write(cmd[at])
    BY <1>1 DEF Check, Gate, ForceGate, Client, Look, Peek, Doing, Here, Write, caller
  <2>2. dry' => flags.dry
    BY <1>1 DEF Check, Gate, ForceGate, Client, Look, Peek, SuccessInv
  <2>3. (at' = at + 1 /\ ~ended') \/ (at' = at /\ ended' /\ exit'.code # 0)
    <3>1. Advance \/ \E e : e.code # 0 /\ Stop(e)
      BY <1>1, <1>e DEF Check, Gate, ForceGate, Client, Look, Peek
    <3> QED
      BY <2>1, <3>1 DEF Advance, Stop
  <2> QED
    BY <1>s, <2>1, <2>2, <2>3 DEF SuccessInv
<1>2. ASSUME Preview PROVE SuccessInv'
  BY <1>2 DEF Preview, Doing, Advance, caller, SuccessInv
<1>3. ASSUME Accepted \/ Answered \/ Unanswered PROVE SuccessInv'
  <2>1. /\ cmd' = cmd /\ flags' = flags /\ dry' = dry /\ ~ended /\ at \in DOMAIN cmd
    BY <1>3 DEF Accepted, Answered, Unanswered, Doing, caller
  <2>2. applied' = applied \/ Carried
    BY <1>3 DEF Accepted, Answered, Unanswered
  <2>3. \A i \in DOMAIN cmd : applied[i] >= 1 => applied'[i] >= 1
    BY <1>s, <2>2 DEF Carried
  <2>4. (at' = at + 1 /\ ~ended' /\ applied'[at] >= 1) \/ (at' = at /\ ended' /\ exit'.code # 0)
    <3>1. (Advance /\ Carried) \/ \E e : e.code # 0 /\ Stop(e)
      BY <1>3, <1>e DEF Accepted, Answered, Unanswered
    <3> QED
      BY <1>s, <2>1, <3>1 DEF Advance, Stop, Carried
  <2> QED
    BY <1>s, <2>1, <2>3, <2>4 DEF SuccessInv
<1>4. ASSUME ReadPage \/ PageLimited \/ PageFails PROVE SuccessInv'
  <2>1. /\ cmd' = cmd /\ applied' = applied /\ flags' = flags /\ dry' = dry /\ ~ended
        /\ at \in DOMAIN cmd /\ ~Write(cmd[at])
    BY <1>4 DEF ReadPage, PageLimited, PageFails, Doing, Here, Write, caller
  <2>2. (at' \in {at, at + 1} /\ ~ended') \/ (at' = at /\ ended' /\ exit'.code # 0)
    <3>1. \A e \in PageErrors : e.code # 0
      <4>1. RateLimited.code # 0
        BY DEF RateLimited, Report
      <4> QED
        BY <1>e, <4>1 DEF PageErrors
    <3> QED
      BY <1>4, <2>1, <3>1 DEF ReadPage, PageLimited, PageFails, Advance, Stop
  <2> QED
    BY <1>s, <2>1, <2>2 DEF SuccessInv
<1>5. ASSUME PrintResult PROVE SuccessInv'
  BY <1>5 DEF PrintResult, Stop, caller, SuccessInv
<1>6. ASSUME RunAgain \/ Approve PROVE SuccessInv'
  <2>1. at' = 1 /\ cmd' = cmd /\ dry' = FALSE /\ ended' = FALSE
    BY <1>6 DEF RunAgain, Approve, Fresh
  <2> QED
    BY <1>s, <2>1 DEF SuccessInv
<1>7. ASSUME UNCHANGED vars PROVE SuccessInv'
  BY <1>7 DEF vars, SuccessInv
<1> QED
  BY <1>1, <1>2, <1>3, <1>4, <1>5, <1>6, <1>7 DEF Next

(***************************************************************************)
(* Exit 0 of a run that is not a preview means that every write of the     *)
(* command was carried out, whatever its steps.                            *)
(***************************************************************************)
THEOREM SuccessIsDone == Spec => []SuccessMeansDone
<1>1. Init => SuccessInv
  <2> SUFFICES ASSUME Init PROVE SuccessInv
    OBVIOUS
  <2> QED
    BY CommandShape DEF Init, SuccessInv
<1>2. TypeInv /\ SuccessInv => SuccessMeansDone
  <2> SUFFICES ASSUME TypeInv, SuccessInv PROVE SuccessMeansDone
    OBVIOUS
  <2>1. DOMAIN cmd = 1 .. Len(cmd) /\ at \in 1 .. Len(cmd) + 1 /\ Len(cmd) \in Nat
    BY CommandShape DEF TypeInv, TypeOK
  <2> QED
    BY <2>1 DEF SuccessInv, SuccessMeansDone
<1> QED
  BY <1>1, <1>2, TypeInvInit, TypeInvStep, SuccessStep, PTL DEF Spec

-----------------------------------------------------------------------------
(* One document *)

\* Past a list's first page nothing is left but the list and the result, and
\* an error that ended the list came after it.
ListInv ==
    /\ page > 0 /\ at \in DOMAIN cmd => cmd[at].do = "list"
    /\ partial # Done => page > 0
    /\ partial.why # "query"
    /\ OneDocument

LEMMA ListStep ==
    ASSUME \A p \in Program : ListLast(p)
    PROVE  TypeInv /\ ListInv /\ [Next]_vars => ListInv'
<1> SUFFICES ASSUME TypeInv, ListInv, [Next]_vars PROVE ListInv'
  OBVIOUS
<1>s. /\ Len(cmd) \in Nat /\ DOMAIN cmd = 1 .. Len(cmd) /\ at \in 1 .. Len(cmd) + 1
      /\ page \in Nat /\ ListLast(cmd) /\ (~ended => docs = 0)
  BY CommandShape DEF TypeInv, TypeOK
<1>l. ASSUME at \in DOMAIN cmd, cmd[at].do = "list" PROVE at + 1 \notin DOMAIN cmd
  BY <1>l, <1>s DEF ListLast
<1>e. /\ \A e \in {UsageError, NoLogin, Refusal, Garbled, OddPage} : e.code # 0 /\ e.why # "query"
      /\ \A e \in AnswerErrors : e.code # 0 /\ e.why # "query"
      /\ \A s : Lost(s).code # 0 /\ Lost(s).why # "query"
      /\ Done.code = 0 /\ Done.why # "query"
  <2>1. \A e \in {UsageError, NoLogin, Refusal, Garbled, OddPage} : e.code # 0 /\ e.why # "query"
    BY DEF UsageError, NoLogin, Refusal, Garbled, OddPage, Report
  <2>2. \A e \in AnswerErrors : e.code # 0 /\ e.why # "query"
    BY DEF AnswerErrors, RateLimited, ServerError, Report
  <2>3. \A s : Lost(s).code # 0 /\ Lost(s).why # "query"
    BY DEF Lost, Report
  <2>4. Done.code = 0 /\ Done.why # "query"
    BY DEF Done, Report
  <2> QED
    BY <2>1, <2>2, <2>3, <2>4
<1>p. \A e \in PageErrors : e.code # 0 /\ e.why # "query"
  <2>1. RateLimited.code # 0 /\ RateLimited.why # "query"
    BY DEF RateLimited, Report
  <2> QED
    BY <1>e, <2>1 DEF PageErrors
\* A step before any page has been read that ends the run.
<1>f. ASSUME ~ended, page = 0, UNCHANGED <<docs, page, partial, cmd, flags>>,
             NEW e, e.code # 0, Stop(e)
      PROVE  ListInv'
  BY <1>f, <1>s, <1>e DEF Stop, ListInv, OneDocument
<1>1. ASSUME \/ Check \/ Gate \/ ForceGate \/ Client \/ Look \/ Peek
             \/ Accepted \/ Answered \/ Unanswered
      PROVE  ListInv'
  <2>1. /\ UNCHANGED <<docs, page, partial, cmd, flags>>
        /\ ~ended /\ at \in DOMAIN cmd /\ cmd[at].do # "list"
    BY <1>1 DEF Check, Gate, ForceGate, Client, Look, Peek, Accepted, Answered, Unanswered,
                Doing, Here, caller
  <2>2. page = 0
    BY <1>s, <2>1 DEF ListInv
  <2>3. Advance \/ \E e : e.code # 0 /\ Stop(e)
    BY <1>1, <1>e DEF Check, Gate, ForceGate, Client, Look, Peek, Accepted, Answered, Unanswered
  <2>4. CASE Advance
    BY <2>1, <2>2, <2>4, <1>s DEF Advance, ListInv, OneDocument
  <2> QED
    BY <1>f, <2>1, <2>2, <2>3, <2>4
<1>2. ASSUME Preview PROVE ListInv'
  <2>1. /\ UNCHANGED <<docs, page, partial, cmd, flags>> /\ Advance
        /\ ~ended /\ at \in DOMAIN cmd
    BY <1>2 DEF Preview, Doing, caller
  <2>2. page > 0 => at' \notin DOMAIN cmd
    BY <1>l, <2>1 DEF ListInv, Advance
  <2> QED
    BY <2>1, <2>2 DEF Advance, ListInv, OneDocument
<1>3. ASSUME ReadPage \/ PageLimited PROVE ListInv'
  <2>1. /\ UNCHANGED <<docs, partial, cmd, flags>> /\ page' \in {page, page + 1}
        /\ ~ended /\ ~ended' /\ at \in DOMAIN cmd /\ cmd[at].do = "list" /\ at' \in {at, at + 1}
    BY <1>3 DEF ReadPage, PageLimited, Doing, Here, caller, Advance
  <2> QED
    BY <1>l, <1>s, <2>1 DEF ListInv, OneDocument
<1>4. ASSUME PageFails PROVE ListInv'
  <2>1. /\ UNCHANGED <<docs, page, cmd, flags>>
        /\ ~ended /\ at \in DOMAIN cmd /\ cmd[at].do = "list"
    BY <1>4 DEF PageFails, Doing, Here, caller
  <2>2. PICK e \in PageErrors :
            IF page = 0 THEN Stop(e) /\ UNCHANGED partial ELSE Advance /\ partial' = e
    BY <1>4 DEF PageFails
  <2>3. CASE page = 0
    BY <1>f, <1>p, <2>1, <2>2, <2>3
  <2>4. CASE page # 0
    BY <1>l, <1>p, <1>s, <2>1, <2>2, <2>4 DEF ListInv, OneDocument, Advance
  <2> QED
    BY <2>3, <2>4
<1>5. ASSUME PrintResult PROVE ListInv'
  <2>1. /\ UNCHANGED <<page, partial, cmd, flags, at>> /\ ended' /\ docs = 0
        /\ at \notin DOMAIN cmd
    BY <1>5, <1>s DEF PrintResult, Stop, caller
  <2>2. \/ flags.dry /\ docs' = 0
        \/ exit' = QueryError /\ docs' = 0
        \/ ~flags.dry /\ exit' = partial /\ docs' = 1
    BY <1>5, <2>1 DEF PrintResult, Stop
  <2>3. QueryError.why = "query"
    BY DEF QueryError, Report
  <2> QED
    BY <2>1, <2>2, <2>3 DEF ListInv, OneDocument
<1>6. ASSUME RunAgain \/ Approve PROVE ListInv'
  <2>1. page' = 0 /\ partial' = Done /\ ~ended'
    BY <1>6 DEF RunAgain, Approve, Fresh
  <2> QED
    BY <1>e, <2>1 DEF ListInv, OneDocument
<1>7. ASSUME UNCHANGED vars PROVE ListInv'
  BY <1>7 DEF vars, ListInv, OneDocument
<1> QED
  BY <1>1, <1>2, <1>3, <1>4, <1>5, <1>6, <1>7 DEF Next

(***************************************************************************)
(* A run of a command whose list, if any, comes last prints one document   *)
(* when it succeeds, the rows it has when the list ends early, and nothing *)
(* otherwise, whatever fails and however often the caller runs it again.   *)
(***************************************************************************)
THEOREM PrintsOnce ==
    ASSUME \A p \in Program : ListLast(p)
    PROVE  Spec => []OneDocument
<1>1. Init => ListInv
  <2> SUFFICES ASSUME Init PROVE ListInv
    OBVIOUS
  <2>1. Done.why # "query"
    BY DEF Done, Report
  <2> QED
    BY <2>1 DEF Init, ListInv, OneDocument
<1>2. ListInv => OneDocument
  BY DEF ListInv
<1> QED
  BY <1>1, <1>2, TypeInvInit, TypeInvStep, ListStep, PTL DEF Spec
=============================================================================
