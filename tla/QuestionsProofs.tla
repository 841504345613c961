--------------------------- MODULE QuestionsProofs ---------------------------
(***************************************************************************)
(* What Questions promises, for any number of commands, agents, days,      *)
(* lines and faults: the files stay readable as they are written, the      *)
(* offer is put once, and a line typed before it is not taken for its      *)
(* answer.                                                                 *)
(***************************************************************************)
EXTENDS Questions, TLAPS

-----------------------------------------------------------------------------
(* Types                                                                    *)

State == [first : 0 .. Never, prompted : 0 .. Never, submitted : 0 .. Never,
          count : 0 .. MinRuns]

\* A prompt state that is read or about to be written: its first run is past.
Sound(s) == s \in State /\ WellFormed(s) /\ (s.first # Never => s.first <= day)

\* What a command in the prompt has in hand.
CopyIsSound(c) ==
    /\ pc[c] \in {"ask", "comment", "save", "write"} => Sound(copy[c]) /\ copy[c].first # Never
    /\ pc[c] = "comment" => copy[c].prompted # Never

MachineType ==
    /\ offered \subseteq Agent /\ hinted \subseteq Agent
    /\ current \subseteq {FolderOf[a] : a \in Agent}
    /\ cache \in 0 .. Never /\ day \in 0 .. MaxDay
    /\ put \subseteq Cmd /\ late \subseteq Cmd
    /\ faults \in 0 .. MaxFaults /\ calm \in BOOLEAN

CommandType ==
    /\ pc \in [Cmd -> Stages]
    /\ agent \in [Cmd -> Agent \cup {NoAgent}]
    /\ \A c \in Cmd : pc[c] \in {"await", "redeem", "offer", "drain", "tell", "record", "asking",
                                 "assent", "install"} => agent[c] \in Agent
    /\ done \in [Cmd -> {"empty", "code", "error"}]
    /\ before \in [Cmd -> SUBSET Cmd]

StdinType ==
    /\ tty \in [Cmd -> Seq(Lines)]
    /\ held \in [Cmd -> {<<>>} \cup {<<l>> : l \in Lines}]
    /\ feed \in [Cmd -> {"off", "open", "closed"}]
    /\ \A c \in Cmd : Holds(c) => feed[c] = "open"

PromptType ==
    /\ file # Torn => Sound(file)
    /\ copy \in [Cmd -> State]
    /\ \A c \in Cmd : CopyIsSound(c)

\* The reader of stdin starts with the login.
IdleHoldsNothing == \A c \in Cmd : pc[c] = "idle" => ~Holds(c)

TypeInv == MachineType /\ CommandType /\ StdinType /\ IdleHoldsNothing /\ PromptType

LEMMA TypeInvImplies == TypeInv => TypeOK
  BY DEF TypeInv, MachineType, CommandType, StdinType, PromptType, CopyIsSound, Sound, TypeOK

LEMMA FreshIsSound == Fresh \in State /\ WellFormed(Fresh) /\ Fresh.first = Never
  BY QuestionsAssumption DEF Fresh, State, WellFormed, Never

LEMMA TypeInvInit == Init => TypeInv
<1> SUFFICES ASSUME Init PROVE TypeInv
  OBVIOUS
<1> USE QuestionsAssumption DEF Init
<1>1. MachineType
  BY DEF MachineType, Never
<1>2. CommandType
  BY DEF CommandType, Stages
<1>3. StdinType
  BY DEF StdinType, Holds
<1>4. PromptType
  BY FreshIsSound DEF PromptType, CopyIsSound, Sound
<1>5. IdleHoldsNothing
  BY DEF IdleHoldsNothing, Holds
<1> QED
  BY <1>1, <1>2, <1>3, <1>4, <1>5 DEF TypeInv

\* Counting a run keeps the state sound, and stamps its first run.
LEMMA CountedIsSound ==
    ASSUME NEW s, Sound(s), day \in 0 .. MaxDay
    PROVE  Sound(Counted(s)) /\ Counted(s).first # Never
<1> DEFINE f == IF s.first = Never THEN day ELSE s.first
           n == IF s.count < MinRuns THEN s.count + 1 ELSE s.count
<1>1. Counted(s) = [s EXCEPT !.first = f, !.count = n]
  BY DEF Counted
<1>2. s \in State /\ WellFormed(s)
  BY DEF Sound
<1>3. f \in 0 .. MaxDay /\ f # Never /\ f <= day
  BY <1>2, QuestionsAssumption DEF Sound, State, Never
<1>4. n \in 0 .. MinRuns
  BY <1>2, QuestionsAssumption DEF State
<1>5. Counted(s) = [first |-> f, prompted |-> s.prompted, submitted |-> s.submitted, count |-> n]
  BY <1>1, <1>2 DEF State
<1>6. s.prompted # Never => f <= s.prompted
  BY <1>2, QuestionsAssumption DEF State, WellFormed, Never
<1> HIDE DEF f, n
<1>7. Counted(s) \in State
  BY <1>2, <1>3, <1>4, <1>5, QuestionsAssumption DEF State, Never
<1>8. WellFormed(Counted(s))
  BY <1>2, <1>3, <1>4, <1>5, <1>6, QuestionsAssumption DEF WellFormed, State, Never
<1> QED
  BY <1>3, <1>5, <1>7, <1>8 DEF Sound

LEMMA MachineStep == ASSUME TypeInv, Next PROVE MachineType'
<1> USE QuestionsAssumption DEF TypeInv, MachineType, Goto, Fault
<1>1. ASSUME NEW c \in Cmd, Callback(c) PROVE MachineType'
  BY <1>1 DEF Callback, Login, Redirect, TakeResult, TakeLine, TimeOut, Redeem, Scan, machine,
              stamps, ghosts
<1>2. ASSUME NEW c \in Cmd, Offer(c) PROVE MachineType'
  <2> USE DEF machine, stamps, stdin
  <2>1. agent[c] \in Agent \/ LookOffer(c) \/ Drain(c) \/ Answer(c)
    BY <1>2 DEF Offer, Tell, Record, Assent, Install, CommandType
  <2>2. CASE LookOffer(c)
    BY <2>2 DEF LookOffer
  <2>3. CASE Drain(c)
    BY <2>3 DEF Drain
  <2>4. CASE Answer(c)
    BY <2>4 DEF Answer
  <2>5. CASE agent[c] \in Agent /\ Tell(c)
    BY <2>5 DEF Tell, ghosts
  <2>6. CASE agent[c] \in Agent /\ Record(c)
    BY <2>6 DEF Record
  <2>7. CASE agent[c] \in Agent /\ Assent(c)
    BY <2>7 DEF Assent, ghosts
  <2>8. CASE agent[c] \in Agent /\ Install(c)
    BY <2>8 DEF Install, ghosts
  <2> QED
    BY <1>2, <2>1, <2>2, <2>3, <2>4, <2>5, <2>6, <2>7, <2>8 DEF Offer
<1>3. ASSUME NEW c \in Cmd, After(c) PROVE MachineType'
  <2> USE DEF machine, stamps, stdin, Never
  <2>1. CASE Work(c) \/ ReadAnswer(c) \/ Submit(c) \/ EmptyState(c) \/ WriteState(c)
    BY <2>1 DEF Work, ReadAnswer, Submit, EmptyState, WriteState, ghosts
  <2>2. CASE LookHint(c) \/ Prompt(c)
    BY <2>2 DEF LookHint, Prompt, Calm
  <2>3. CASE Fetch(c) \/ SaveCache(c)
    BY <2>3 DEF Fetch, SaveCache, ghosts
  <2>4. CASE WriteFails(c)
    <3>1. faults' \in 0 .. MaxFaults
      BY <2>4 DEF WriteFails
    <3>2. calm' \in BOOLEAN
      BY <2>4 DEF WriteFails
    <3> QED
      BY <2>4, <3>1, <3>2 DEF WriteFails
  <2> QED
    BY <1>3, <2>1, <2>2, <2>3, <2>4 DEF After
<1>4. ASSUME NEW c \in Cmd, Type(c) \/ CloseStdin(c) PROVE MachineType'
  BY <1>4 DEF Type, CloseStdin, machine, stamps, ghosts
<1>5. ASSUME NEW c \in Cmd, Kill(c) PROVE MachineType'
  <2>1. faults' \in 0 .. MaxFaults
    BY <1>5 DEF Kill
  <2>2. calm' \in BOOLEAN
    BY <1>5 DEF Kill
  <2> QED
    BY <1>5, <2>1, <2>2 DEF Kill, machine, stamps
<1>6. CASE NextDay
  BY <1>6 DEF NextDay, machine, stamps, ghosts
<1> QED
  BY <1>1, <1>2, <1>3, <1>4, <1>5, <1>6 DEF Next

LEMMA CommandStep == ASSUME TypeInv, Next PROVE CommandType'
<1> USE DEF TypeInv, CommandType, Goto, Stages
<1>1. ASSUME NEW c \in Cmd, Callback(c) PROVE CommandType'
  <2>1. CASE Login(c) \/ Redeem(c) \/ TimeOut(c)
    BY <2>1 DEF Login, Redeem, TimeOut, ghosts
  <2>2. CASE Redirect(c) \/ TakeResult(c)
    BY <2>2 DEF Redirect, TakeResult, ghosts
  <2>3. CASE TakeLine(c) \/ Scan(c)
    BY <2>3 DEF TakeLine, Scan, ghosts
  <2> QED
    BY <1>1, <2>1, <2>2, <2>3 DEF Callback
<1>2. ASSUME NEW c \in Cmd, Offer(c) PROVE CommandType'
  <2>1. CASE LookOffer(c)
    BY <2>1 DEF LookOffer, MachineType
  <2>2. CASE Drain(c) \/ Answer(c)
    BY <2>2 DEF Drain, Answer
  <2>3. CASE Tell(c) \/ Record(c)
    BY <2>3 DEF Tell, Record, ghosts
  <2>4. CASE Assent(c) \/ Install(c)
    BY <2>4 DEF Assent, Install, ghosts
  <2> QED
    BY <1>2, <2>1, <2>2, <2>3, <2>4 DEF Offer
<1>3. ASSUME NEW c \in Cmd, After(c) PROVE CommandType'
  <2> USE DEF AfterHint
  <2>1. CASE Work(c) \/ LookHint(c)
    BY <2>1 DEF Work, LookHint, ghosts
  <2>2. CASE Fetch(c) \/ SaveCache(c)
    BY <2>2 DEF Fetch, SaveCache, ghosts
  <2>3. CASE Prompt(c)
    BY <2>3 DEF Prompt
  <2>4. CASE ReadAnswer(c) \/ Submit(c)
    BY <2>4 DEF ReadAnswer, Submit, ghosts
  <2>5. CASE EmptyState(c) \/ WriteState(c)
    BY <2>5 DEF EmptyState, WriteState, ghosts
  <2>6. CASE WriteFails(c)
    BY <2>6 DEF WriteFails
  <2> QED
    BY <1>3, <2>1, <2>2, <2>3, <2>4, <2>5, <2>6 DEF After
<1>4. ASSUME NEW c \in Cmd, Type(c) \/ CloseStdin(c) \/ Kill(c) PROVE CommandType'
  BY <1>4 DEF Type, CloseStdin, Kill, ghosts
<1>5. CASE NextDay
  BY <1>5 DEF NextDay, ghosts
<1> QED
  BY <1>1, <1>2, <1>3, <1>4, <1>5 DEF Next

LEMMA StdinStep == ASSUME TypeInv, Next PROVE StdinType'
<1> USE DEF TypeInv, StdinType, Holds
<1>1. ASSUME NEW c \in Cmd, Callback(c) PROVE StdinType'
  <2>1. CASE Login(c)
    BY <2>1 DEF Login, IdleHoldsNothing
  <2>2. CASE Scan(c)
    <3> DEFINE l == Head(tty[c])
    <3>1. l \in Lines /\ Tail(tty[c]) \in Seq(Lines)
      BY <2>2 DEF Scan
    <3>2. held' = [held EXCEPT ![c] = <<l>>] /\ <<l>> # <<>> /\ feed[c] = "open"
      BY <2>2 DEF Scan
    <3>3. tty' = [tty EXCEPT ![c] = Tail(@)] /\ feed' = feed
      BY <2>2 DEF Scan
    <3> HIDE DEF l
    <3> QED
      BY <3>1, <3>2, <3>3
  <2>3. CASE TakeLine(c)
    BY <2>3 DEF TakeLine
  <2>4. CASE Redirect(c) \/ TakeResult(c) \/ TimeOut(c) \/ Redeem(c)
    BY <2>4 DEF Redirect, TakeResult, TimeOut, Redeem, stdin
  <2> QED
    BY <1>1, <2>1, <2>2, <2>3, <2>4 DEF Callback
<1>2. ASSUME NEW c \in Cmd, Offer(c) PROVE StdinType'
  <2>1. CASE LookOffer(c)
    BY <2>1 DEF LookOffer
  <2>2. CASE Drain(c) \/ Answer(c)
    BY <2>2 DEF Drain, Answer
  <2>3. CASE Tell(c) \/ Record(c) \/ Assent(c) \/ Install(c)
    BY <2>3 DEF Tell, Record, Assent, Install, stdin
  <2> QED
    BY <1>2, <2>1, <2>2, <2>3 DEF Offer
<1>3. ASSUME NEW c \in Cmd, After(c) PROVE StdinType'
  BY <1>3 DEF After, Work, LookHint, Fetch, SaveCache, Prompt, ReadAnswer, Submit, EmptyState,
              WriteState, WriteFails, stdin
<1>4. ASSUME NEW c \in Cmd, Type(c) PROVE StdinType'
  <2>1. PICK s \in {"url", "yes"} :
          tty' = [tty EXCEPT ![c] = Append(@, [says |-> s, early |-> pc[c] # "asking"])]
    BY <1>4 DEF Type
  <2>2. Append(tty[c], [says |-> s, early |-> pc[c] # "asking"]) \in Seq(Lines)
    BY DEF Lines
  <2> QED
    BY <1>4, <2>1, <2>2 DEF Type
<1>5. ASSUME NEW c \in Cmd, CloseStdin(c) \/ Kill(c) PROVE StdinType'
  BY <1>5 DEF CloseStdin, Kill, stdin
<1>6. CASE NextDay
  BY <1>6 DEF NextDay, stdin
<1> QED
  BY <1>1, <1>2, <1>3, <1>4, <1>5, <1>6 DEF Next

LEMMA IdleStep == ASSUME TypeInv, Next PROVE IdleHoldsNothing'
<1> USE DEF TypeInv, IdleHoldsNothing, Holds, Goto, stdin
<1>1. pc \in [Cmd -> Stages]
  BY DEF CommandType
<1>2. ASSUME NEW c \in Cmd, Callback(c) PROVE IdleHoldsNothing'
  <2>1. CASE Login(c) \/ Redirect(c) \/ TakeResult(c) \/ TimeOut(c) \/ Redeem(c)
    BY <1>1, <2>1 DEF Login, Redirect, TakeResult, TimeOut, Redeem
  <2>2. CASE TakeLine(c) \/ Scan(c)
    BY <1>1, <2>2 DEF TakeLine, Scan, Reads, StdinType
  <2> QED
    BY <1>2, <2>1, <2>2 DEF Callback
<1>3. ASSUME NEW c \in Cmd, Offer(c) PROVE IdleHoldsNothing'
  <2>1. CASE Tell(c) \/ Record(c) \/ Assent(c) \/ Install(c)
    BY <1>1, <2>1 DEF Tell, Record, Assent, Install
  <2>2. CASE LookOffer(c) \/ Drain(c) \/ Answer(c)
    BY <1>1, <2>2 DEF LookOffer, Drain, Answer, StdinType
  <2> QED
    BY <1>3, <2>1, <2>2 DEF Offer
<1>4. ASSUME NEW c \in Cmd, After(c) PROVE IdleHoldsNothing'
  BY <1>1, <1>4 DEF After, Work, LookHint, Fetch, SaveCache, Prompt, ReadAnswer, Submit,
                   EmptyState, WriteState, WriteFails, AfterHint
<1>5. ASSUME NEW c \in Cmd, Type(c) \/ CloseStdin(c) \/ Kill(c) PROVE IdleHoldsNothing'
  BY <1>1, <1>5 DEF Type, CloseStdin, Kill
<1>6. CASE NextDay
  BY <1>6 DEF NextDay
<1> QED
  BY <1>2, <1>3, <1>4, <1>5, <1>6 DEF Next

LEMMA PromptStep == ASSUME TypeInv, Next PROVE PromptType'
<1> USE QuestionsAssumption DEF TypeInv, PromptType, CopyIsSound, Sound, Goto
<1>1. pc \in [Cmd -> Stages] /\ day \in 0 .. MaxDay
  BY DEF MachineType, CommandType
<1>2. ASSUME NEW c \in Cmd, Callback(c) PROVE PromptType'
  BY <1>1, <1>2 DEF Callback, Login, Redirect, TakeResult, TakeLine, TimeOut, Redeem, Scan, stamps
<1>3. ASSUME NEW c \in Cmd, Offer(c) PROVE PromptType'
  BY <1>1, <1>3 DEF Offer, LookOffer, Drain, Tell, Record, Assent, Answer, Install, stamps
<1>4. ASSUME NEW c \in Cmd, After(c) PROVE PromptType'
  <2>1. CASE Work(c) \/ LookHint(c) \/ Fetch(c) \/ SaveCache(c)
    BY <1>1, <2>1 DEF Work, LookHint, Fetch, SaveCache, AfterHint, stamps
  <2>2. CASE Prompt(c)
    <3>1. Sound(Loaded)
      BY FreshIsSound DEF Loaded
    <3>2. Sound(Counted(Loaded)) /\ Counted(Loaded).first # Never
      BY <1>1, <3>1, CountedIsSound
    <3> QED
      BY <1>1, <2>2, <3>2 DEF Prompt, stamps
  <2>3. CASE ReadAnswer(c)
    <3> DEFINE s == [copy[c] EXCEPT !.prompted = day]
    <3>1. s \in State /\ WellFormed(s) /\ s.first = copy[c].first /\ s.prompted = day
      BY <1>1, <2>3 DEF ReadAnswer, State, WellFormed, Never
    <3>2. copy' = [copy EXCEPT ![c] = s] /\ day # Never
      BY <1>1, <2>3 DEF ReadAnswer, Never
    <3> HIDE DEF s
    <3> QED
      BY <1>1, <2>3, <3>1, <3>2 DEF ReadAnswer, stamps
  <2>4. CASE Submit(c)
    <3> DEFINE s == [copy[c] EXCEPT !.submitted = day]
    <3>1. s \in State /\ WellFormed(s) /\ s.first = copy[c].first
      BY <1>1, <2>4 DEF Submit, State, WellFormed, Never
    <3>2. copy' \in {copy, [copy EXCEPT ![c] = s]}
      BY <2>4 DEF Submit
    <3> HIDE DEF s
    <3> QED
      BY <1>1, <2>4, <3>1, <3>2 DEF Submit, stamps
  <2>5. CASE EmptyState(c) \/ WriteState(c) \/ WriteFails(c)
    BY <1>1, <2>5 DEF EmptyState, WriteState, WriteFails, AfterHint, stamps
  <2> QED
    BY <1>4, <2>1, <2>2, <2>3, <2>4, <2>5 DEF After
<1>5. ASSUME NEW c \in Cmd, Type(c) \/ CloseStdin(c) \/ Kill(c) PROVE PromptType'
  BY <1>1, <1>5 DEF Type, CloseStdin, Kill, stamps
<1>6. CASE NextDay
  <2>1. day' \in 0 .. MaxDay /\ day <= day'
    BY <1>1, <1>6 DEF NextDay
  <2>2. UNCHANGED <<file, copy, pc>>
    BY <1>6 DEF NextDay, stamps
  <2> QED
    BY <1>1, <2>1, <2>2 DEF State, WellFormed, Never
<1> QED
  BY <1>2, <1>3, <1>4, <1>5, <1>6 DEF Next

LEMMA TypeInvStep == TypeInv /\ [Next]_vars => TypeInv'
<1>1. CASE Next
  BY <1>1, MachineStep, CommandStep, StdinStep, IdleStep, PromptStep DEF TypeInv
<1>2. CASE UNCHANGED vars
  BY <1>2 DEF vars, machine, stamps, stdin, ghosts, TypeInv, MachineType, CommandType,
              StdinType, IdleHoldsNothing, PromptType, CopyIsSound, Sound, Holds, WellFormed
<1> QED
  BY <1>1, <1>2

(***************************************************************************)
(* Every variable keeps its type: the prompt's file, whenever it can be    *)
(* read, counts runs that took place and was asked after them.             *)
(***************************************************************************)
THEOREM TypeCorrect == Spec => []TypeOK
  BY TypeInvInit, TypeInvStep, TypeInvImplies, PTL DEF Spec

-----------------------------------------------------------------------------
(* The question is put once                                                 *)

\* Where a login has not put its question; from "drain" on nobody had.
NotPut == {"idle", "await", "redeem", "offer", "drain", "record"}
SawNone == {"drain", "record"}

AskInv ==
    /\ \A c \in put : pc[c] \notin NotPut /\ before[c] = {} /\ agent[c] \in offered
    /\ \A c \in Cmd : pc[c] \in SawNone => before[c] = {}
    /\ \A c, d \in put : c # d => agent[c] # agent[d]

LEMMA AskStep == ASSUME TypeInv, AskInv, Next PROVE AskInv'
<1> USE DEF TypeInv, CommandType, AskInv, NotPut, SawNone, Goto, machine, stdin, ghosts
<1>1. put \subseteq Cmd
  BY DEF MachineType
<1>2. ASSUME NEW c \in Cmd, Callback(c) PROVE AskInv'
  <2>1. CASE Login(c) \/ Redeem(c) \/ TimeOut(c) \/ Redirect(c)
    BY <1>1, <2>1 DEF Login, Redeem, TimeOut, Redirect
  <2>2. CASE TakeResult(c) \/ TakeLine(c) \/ Scan(c)
    BY <1>1, <2>2 DEF TakeResult, TakeLine, Scan
  <2> QED
    BY <1>2, <2>1, <2>2 DEF Callback
<1>3. ASSUME NEW c \in Cmd, Offer(c) PROVE AskInv'
  <2>1. CASE LookOffer(c)
    <3>1. c \notin put /\ (pc'[c] = "drain" => before'[c] = {})
      BY <2>1 DEF LookOffer
    <3> QED
      BY <1>1, <2>1, <3>1 DEF LookOffer
  <2>2. CASE Drain(c) \/ Answer(c) \/ Tell(c)
    BY <1>1, <2>2 DEF Drain, Answer, Tell
  <2>3. CASE Record(c)
    BY <1>1, <2>3 DEF Record
  <2>4. CASE Assent(c) \/ Install(c)
    BY <1>1, <2>4 DEF Assent, Install
  <2> QED
    BY <1>3, <2>1, <2>2, <2>3, <2>4 DEF Offer
<1>4. ASSUME NEW c \in Cmd, After(c) PROVE AskInv'
  <2> USE DEF AfterHint
  <2>1. CASE Work(c) \/ LookHint(c) \/ Fetch(c) \/ SaveCache(c)
    BY <1>1, <2>1 DEF Work, LookHint, Fetch, SaveCache
  <2>2. CASE Prompt(c) \/ ReadAnswer(c) \/ Submit(c)
    BY <1>1, <2>2 DEF Prompt, ReadAnswer, Submit
  <2>3. CASE EmptyState(c) \/ WriteState(c) \/ WriteFails(c)
    BY <1>1, <2>3 DEF EmptyState, WriteState, WriteFails
  <2> QED
    BY <1>4, <2>1, <2>2, <2>3 DEF After
<1>5. ASSUME NEW c \in Cmd, Type(c) \/ CloseStdin(c) \/ Kill(c) PROVE AskInv'
  BY <1>1, <1>5 DEF Type, CloseStdin, Kill
<1>6. CASE NextDay
  BY <1>6 DEF NextDay
<1> QED
  BY <1>2, <1>3, <1>4, <1>5, <1>6 DEF Next

(***************************************************************************)
(* "The question is put at most once per machine": however many logins,    *)
(* in however many agents, run at once, are killed or fail to record it,   *)
(* none is asked that looked after another had put its question.           *)
(***************************************************************************)
THEOREM PutOnce == Spec => []AskedOncePerMachine
<1>1. Init => AskInv
  BY DEF Init, AskInv, SawNone
<1>2. TypeInv /\ AskInv /\ [Next]_vars => AskInv'
  BY AskStep DEF vars, machine, ghosts, AskInv
<1>3. AskInv => AskedOncePerMachine
  BY DEF AskInv, AskedOncePerMachine
<1> QED
  BY <1>1, <1>2, <1>3, TypeInvInit, TypeInvStep, PTL DEF Spec

-----------------------------------------------------------------------------
(* The line that answers                                                    *)

\* Of a login that could drop every line typed before its question: none is
\* left once it has, and those read as its answer came after it.
OnTime(c) ==
    /\ pc[c] = "record" => tty[c] = <<>> /\ held[c] = <<>>
    /\ pc[c] = "asking" =>
        /\ \A i \in DOMAIN tty[c] : ~tty[c][i].early
        /\ \A i \in DOMAIN held[c] : ~held[c][i].early

AnswerInv ==
    /\ \A c \in Cmd : c \notin late => OnTime(c)
    /\ AnswersFollowQuestion

LEMMA AnswerStep == ASSUME TypeInv, AnswerInv, Next PROVE AnswerInv'
<1> USE DEF TypeInv, AnswerInv, OnTime, AnswersFollowQuestion, Goto, ghosts
<1>1. /\ pc \in [Cmd -> Stages] /\ tty \in [Cmd -> Seq(Lines)]
      /\ held \in [Cmd -> {<<>>} \cup {<<l>> : l \in Lines}]
  BY DEF CommandType, StdinType
<1>2. ASSUME NEW c \in Cmd, Callback(c) PROVE AnswerInv'
  <2>1. CASE Login(c) \/ Redeem(c) \/ TimeOut(c) \/ Redirect(c) \/ TakeResult(c)
    BY <1>1, <2>1 DEF Login, Redeem, TimeOut, Redirect, TakeResult, stdin
  <2>2. CASE TakeLine(c)
    BY <1>1, <2>2 DEF TakeLine
  <2>3. CASE Scan(c)
    <3>1. tty[c] \in Seq(Lines) /\ tty[c] # <<>>
      BY <1>1, <2>3 DEF Scan
    <3>2. /\ Head(tty[c]) = tty[c][1] /\ 1 \in DOMAIN tty[c]
          /\ \A i \in DOMAIN Tail(tty[c]) : i + 1 \in DOMAIN tty[c]
                                            /\ Tail(tty[c])[i] = tty[c][i + 1]
      BY <3>1
    <3>3. c \notin late => OnTime(c)'
      <4> DEFINE h == <<Head(tty[c])>>
                 t == Tail(tty[c])
      <4>1. held'[c] = h /\ tty'[c] = t /\ pc'[c] = pc[c]
        BY <1>1, <2>3 DEF Scan
      <4>2. c \notin late => pc[c] # "record"
        BY <3>1
      <4>3. DOMAIN h = {1} /\ h[1] = tty[c][1]
        BY <3>2
      <4> HIDE DEF h, t
      <4>4. c \notin late /\ pc[c] = "asking" => ~h[1].early /\ \A i \in DOMAIN t : ~t[i].early
        BY <3>2, <4>3 DEF t
      <4> QED
        BY <4>1, <4>2, <4>3, <4>4
    <3>4. \A d \in Cmd \ {c} : tty'[d] = tty[d] /\ held'[d] = held[d] /\ pc'[d] = pc[d]
      BY <1>1, <2>3 DEF Scan
    <3> QED
      BY <1>1, <2>3, <3>3, <3>4 DEF Scan
  <2> QED
    BY <1>2, <2>1, <2>2, <2>3 DEF Callback
<1>3. ASSUME NEW c \in Cmd, Offer(c) PROVE AnswerInv'
  <2>1. CASE LookOffer(c) \/ Tell(c) \/ Assent(c) \/ Install(c)
    BY <1>1, <2>1 DEF LookOffer, Tell, Assent, Install, stdin
  <2>2. CASE Drain(c)
    BY <1>1, <2>2 DEF Drain, Holds
  <2>3. CASE Record(c)
    BY <1>1, <2>3 DEF Record, stdin
  <2>4. CASE Answer(c)
    <3>1. \A i \in installs' \ installs : i = <<c, held[c][1]>> /\ pc[c] = "asking" /\ Holds(c)
      BY <2>4 DEF Answer
    <3>2. Holds(c) => 1 \in DOMAIN held[c]
      BY <1>1 DEF Holds
    <3>3. \A i \in installs' : i[2].early => i[1] \in late
      BY <3>1, <3>2
    <3>4. late' = late
      BY <2>4 DEF Answer
    <3>5. \A d \in Cmd : d \notin late => OnTime(d)'
      BY <1>1, <2>4 DEF Answer
    <3> QED
      BY <3>3, <3>4, <3>5
  <2> QED
    BY <1>3, <2>1, <2>2, <2>3, <2>4 DEF Offer
<1>4. ASSUME NEW c \in Cmd, After(c) PROVE AnswerInv'
  <2> USE DEF AfterHint, stdin
  <2>1. CASE Work(c) \/ LookHint(c) \/ Fetch(c) \/ SaveCache(c)
    BY <1>1, <2>1 DEF Work, LookHint, Fetch, SaveCache
  <2>2. CASE Prompt(c) \/ ReadAnswer(c) \/ Submit(c)
    BY <1>1, <2>2 DEF Prompt, ReadAnswer, Submit
  <2>3. CASE EmptyState(c) \/ WriteState(c) \/ WriteFails(c)
    BY <1>1, <2>3 DEF EmptyState, WriteState, WriteFails
  <2> QED
    BY <1>4, <2>1, <2>2, <2>3 DEF After
<1>5. ASSUME NEW c \in Cmd, Type(c) PROVE AnswerInv'
  <2>1. PICK s \in {"url", "yes"} :
          tty' = [tty EXCEPT ![c] = Append(@, [says |-> s, early |-> pc[c] # "asking"])]
    BY <1>5 DEF Type
  <2> DEFINE l == [says |-> s, early |-> pc[c] # "asking"]
             t == Append(tty[c], l)
  <2>2. \A i \in DOMAIN t : (i \in DOMAIN tty[c] /\ t[i] = tty[c][i]) \/ t[i] = l
    BY <1>1
  <2>3. pc[c] = "asking" => ~l.early
    OBVIOUS
  <2>4. /\ tty'[c] = t /\ \A d \in Cmd \ {c} : tty'[d] = tty[d]
        /\ late \subseteq late' /\ (pc[c] = "record" => c \in late')
        /\ UNCHANGED <<pc, held, installs>>
    BY <1>1, <1>5, <2>1 DEF Type
  <2> HIDE DEF l, t
  <2>5. c \notin late' => OnTime(c)'
    BY <2>2, <2>3, <2>4
  <2>6. \A d \in Cmd \ {c} : d \notin late' => OnTime(d)'
    BY <2>4
  <2> QED
    BY <2>4, <2>5, <2>6
<1>6. ASSUME NEW c \in Cmd, CloseStdin(c) \/ Kill(c) PROVE AnswerInv'
  BY <1>1, <1>6 DEF CloseStdin, Kill, stdin
<1>7. CASE NextDay
  BY <1>7 DEF NextDay, stdin
<1> QED
  BY <1>2, <1>3, <1>4, <1>5, <1>6, <1>7 DEF Next

(***************************************************************************)
(* "A line typed before the question is not an answer to it": only a login *)
(* that could not drop such a line, not yet read or typed while the        *)
(* question was recorded, takes it for one.                                *)
(***************************************************************************)
THEOREM OnlyAnswersInstall == Spec => []AnswersFollowQuestion
<1>1. Init => AnswerInv
  BY DEF Init, AnswerInv, OnTime, AnswersFollowQuestion
<1>2. TypeInv /\ AnswerInv /\ [Next]_vars => AnswerInv'
  BY AnswerStep DEF vars, stdin, ghosts, AnswerInv, OnTime, AnswersFollowQuestion
<1>3. AnswerInv => AnswersFollowQuestion
  BY DEF AnswerInv
<1> QED
  BY <1>1, <1>2, <1>3, TypeInvInit, TypeInvStep, PTL DEF Spec

-----------------------------------------------------------------------------
(* Once a day                                                               *)

InPrompt == {"ask", "comment", "save", "write"}

\* Today's prompt is in the file, or in the hands of the command that asks.
Asked ==
    \/ file # Torn /\ file.prompted = day /\ \A c \in Cmd : pc[c] \notin InPrompt
    \/ \E c \in Cmd : pc[c] = "ask" \/ (pc[c] \in InPrompt /\ copy[c].prompted = day)

\* While commands do not meet at the files and none is cut short.
CalmInv ==
    /\ \A c, d \in Cmd : Busy(c) /\ Busy(d) => c = d
    /\ file = Torn => \E c \in Cmd : pc[c] = "write"
    /\ \A c \in Cmd : pc[c] = "write" => file = Torn
    /\ \A d \in 0 .. MaxDay : asks[d] <= 1 /\ answers[d] <= 1
    /\ asks[day] = 1 => Asked
    /\ answers[day] = 1 => cache = day \/ \E c \in Cmd : pc[c] = "cache"
    /\ \A c \in Cmd : pc[c] = "fetch" => answers[day] = 0

DayInv ==
    /\ asks \in [0 .. MaxDay -> Nat] /\ answers \in [0 .. MaxDay -> Nat]
    /\ \A d \in 0 .. MaxDay : d > day => asks[d] = 0 /\ answers[d] = 0
    /\ calm => CalmInv

\* A step away from the files.
LEMMA AwayStep ==
    ASSUME DayInv, UNCHANGED <<file, cache, day, copy, asks, answers>>, calm' => calm,
           \A c \in Cmd : pc'[c] = pc[c] \/ (~Busy(c) /\ ~Busy(c)')
    PROVE  DayInv'
<1>1. ASSUME calm' PROVE CalmInv'
  <2>1. CalmInv
    BY <1>1 DEF DayInv
  <2>2. \A c \in Cmd : Busy(c)' <=> Busy(c)
    BY DEF Busy
  <2>3. \A c \in Cmd : \A s \in InPrompt \cup {"fetch", "cache"} : pc'[c] = s <=> pc[c] = s
    BY DEF Busy, InPrompt
  <2>4. Asked => Asked'
    BY <2>3 DEF Asked, InPrompt
  <2> QED
    BY <2>1, <2>2, <2>3, <2>4 DEF CalmInv, InPrompt
<1> QED
  BY <1>1 DEF DayInv

LEMMA DayStep == ASSUME TypeInv, DayInv, Next PROVE DayInv'
<1> USE QuestionsAssumption DEF Goto, machine, stamps, stdin, ghosts
<1>1. /\ pc \in [Cmd -> Stages] /\ day \in 0 .. MaxDay /\ copy \in [Cmd -> State]
      /\ file # Torn => file \in State
  BY DEF TypeInv, MachineType, CommandType, PromptType, Sound
<1>2. /\ asks \in [0 .. MaxDay -> Nat] /\ answers \in [0 .. MaxDay -> Nat]
      /\ \A d \in 0 .. MaxDay : d > day => asks[d] = 0 /\ answers[d] = 0
  BY DEF DayInv
<1>3. ASSUME NEW c \in Cmd, Callback(c) PROVE DayInv'
  <2>1. UNCHANGED <<file, cache, day, copy, asks, answers, calm>>
    BY <1>3 DEF Callback, Login, Redirect, TakeResult, TakeLine, TimeOut, Redeem, Scan
  <2>2. \A q \in Cmd : pc'[q] = pc[q] \/ (~Busy(q) /\ ~Busy(q)')
    BY <1>1, <1>3 DEF Callback, Login, Redirect, TakeResult, TakeLine, TimeOut, Redeem, Scan, Busy
  <2> QED
    BY <2>1, <2>2, AwayStep
<1>4. ASSUME NEW c \in Cmd, Offer(c) PROVE DayInv'
  <2>1. UNCHANGED <<file, cache, day, copy, asks, answers, calm>>
    BY <1>4 DEF Offer, LookOffer, Drain, Tell, Record, Assent, Answer, Install
  <2>2. \A q \in Cmd : pc'[q] = pc[q] \/ (~Busy(q) /\ ~Busy(q)')
    BY <1>1, <1>4 DEF Offer, LookOffer, Drain, Tell, Record, Assent, Answer, Install, Busy
  <2> QED
    BY <2>1, <2>2, AwayStep
<1>5. ASSUME NEW c \in Cmd, After(c) PROVE DayInv'
  <2>1. CASE Work(c) \/ (pc[c] \in {"hint", "prompt"} /\ UNCHANGED <<file, cache, day, copy,
                         asks, answers, calm>> /\ pc' \in {[pc EXCEPT ![c] = "end"],
                                                           [pc EXCEPT ![c] = "prompt"]})
    <3>1. UNCHANGED <<file, cache, day, copy, asks, answers, calm>>
      BY <2>1 DEF Work
    <3>2. \A q \in Cmd : pc'[q] = pc[q] \/ (~Busy(q) /\ ~Busy(q)')
      BY <1>1, <2>1 DEF Work, Busy
    <3> QED
      BY <3>1, <3>2, AwayStep
  <2>2. ASSUME LookHint(c), pc'[c] = "fetch" PROVE DayInv'
    <3>1. /\ pc' = [pc EXCEPT ![c] = "fetch"] /\ pc[c] = "hint" /\ cache # day
          /\ UNCHANGED <<file, cache, day, copy, asks, answers>>
          /\ calm' => calm /\ \A q \in Cmd \ {c} : ~Busy(q)
      BY <1>1, <2>2 DEF LookHint, Calm, AfterHint
    <3>2. ASSUME calm' PROVE CalmInv'
      <4>1. CalmInv /\ \A q \in Cmd \ {c} : ~Busy(q)
        BY <3>1, <3>2 DEF DayInv
      <4>2. answers[day] # 1
        BY <3>1, <4>1 DEF CalmInv, Busy
      <4>3. answers[day] = 0
        <5>1. answers[day] <= 1
          BY <1>1, <4>1 DEF CalmInv
        <5> QED
          BY <1>1, <1>2, <4>2, <5>1
      <4>4. \A q \in Cmd \ {c} : pc'[q] = pc[q]
        BY <1>1, <3>1
      <4>5. Asked => Asked'
        BY <1>1, <3>1 DEF Asked, InPrompt
      <4> QED
        BY <1>1, <3>1, <4>1, <4>3, <4>4, <4>5 DEF CalmInv, Busy
    <3> QED
      BY <3>1, <3>2 DEF DayInv
  <2>3. CASE Fetch(c)
    <3>1. ASSUME calm' PROVE CalmInv'
      <4>1. calm /\ pc[c] = "fetch" /\ UNCHANGED <<file, day, copy, asks>> /\ CalmInv
        BY <2>3, <3>1 DEF Fetch, DayInv
      <4>2. answers[day] = 0 /\ \A q \in Cmd \ {c} : ~Busy(q)
        BY <4>1 DEF CalmInv, Busy
      <4>3. \A d \in 0 .. MaxDay : answers'[d] <= 1
        BY <1>1, <2>3, <4>1, <4>2 DEF Fetch, CalmInv, DayInv
      <4>4. \/ pc' = [pc EXCEPT ![c] = "cache"]
            \/ pc' \in {[pc EXCEPT ![c] = "end"], [pc EXCEPT ![c] = "prompt"]} /\ answers' = answers
               /\ cache' = cache
        BY <2>3 DEF Fetch, AfterHint
      <4> QED
        BY <1>1, <4>1, <4>2, <4>3, <4>4 DEF CalmInv, Asked, InPrompt, Busy
    <3>2. /\ answers' \in [0 .. MaxDay -> Nat]
          /\ \A d \in 0 .. MaxDay : d > day => answers'[d] = 0
      BY <1>1, <2>3 DEF Fetch, DayInv
    <3>3. UNCHANGED <<asks, day>>
      BY <2>3 DEF Fetch
    <3> QED
      BY <3>1, <3>2, <3>3 DEF DayInv
  <2>4. CASE SaveCache(c)
    <3>1. /\ pc[c] = "cache" /\ cache' = day /\ UNCHANGED <<file, day, copy, asks, answers, calm>>
          /\ pc' \in {[pc EXCEPT ![c] = "end"], [pc EXCEPT ![c] = "prompt"]}
      BY <2>4 DEF SaveCache, AfterHint
    <3> QED
      BY <1>1, <3>1 DEF DayInv, CalmInv, Asked, InPrompt, Busy
  <2>5. ASSUME Prompt(c), pc'[c] # "end" PROVE DayInv'
    <3> DEFINE s == Counted(Loaded)
    <3>1. /\ pc[c] = "prompt" /\ copy' = [copy EXCEPT ![c] = s]
          /\ calm' => calm /\ \A q \in Cmd \ {c} : ~Busy(q)
          /\ UNCHANGED <<file, cache, day, answers>>
      BY <1>1, <2>5 DEF Prompt, Calm
    <3>2. s.prompted = Loaded.prompted
      <4>1. Loaded \in State
        BY <1>1, FreshIsSound DEF Loaded
      <4> QED
        BY <4>1 DEF Counted, State
    <3>3. \/ /\ ShouldPrompt(s) /\ pc' = [pc EXCEPT ![c] = "ask"]
             /\ asks' = [asks EXCEPT ![day] = @ + 1]
          \/ ~ShouldPrompt(s) /\ pc' = [pc EXCEPT ![c] = "save"] /\ asks' = asks
      BY <1>1, <2>5 DEF Prompt
    <3> HIDE DEF s
    <3>4. ASSUME calm' PROVE CalmInv'
      <4>1. calm /\ CalmInv /\ \A q \in Cmd \ {c} : ~Busy(q)
        BY <3>1, <3>4 DEF DayInv
      <4>2. file # Torn /\ s.prompted = file.prompted
        BY <3>1, <3>2, <4>1 DEF CalmInv, Busy, Loaded
      <4>3. asks[day] = 1 => s.prompted = day
        BY <3>1, <4>1, <4>2 DEF CalmInv, Asked, InPrompt, Busy
      <4>4. \A d \in 0 .. MaxDay : asks[d] <= 1
        BY <4>1 DEF CalmInv
      <4>5. ASSUME ShouldPrompt(s) PROVE asks[day] = 0
        <5>1. s.prompted # day
          BY <4>5 DEF ShouldPrompt
        <5>2. asks[day] # 1
          BY <4>3, <5>1
        <5>3. asks[day] \in Nat /\ asks[day] <= 1
          BY <1>1, <1>2, <4>4
        <5> QED
          BY <5>2, <5>3
      <4>6. \A d \in 0 .. MaxDay : asks'[d] <= 1
        <5>1. CASE asks' = asks
          BY <4>4, <5>1
        <5>2. CASE asks[day] = 0 /\ asks' = [asks EXCEPT ![day] = @ + 1]
          BY <1>1, <1>2, <4>4, <5>2
        <5> QED
          BY <3>3, <4>5, <5>1, <5>2
      <4>7. asks'[day] = 1 => pc'[c] = "ask" \/ (pc'[c] = "save" /\ copy'[c].prompted = day)
        BY <1>1, <3>1, <3>3, <4>3
      <4>8. \A q \in Cmd \ {c} : pc'[q] = pc[q]
        BY <1>1, <3>3
      <4>9. Asked' \/ asks'[day] # 1
        BY <3>1, <4>7 DEF Asked, InPrompt
      <4> QED
        BY <1>1, <3>1, <3>3, <4>1, <4>2, <4>6, <4>8, <4>9 DEF CalmInv, Busy
    <3>5. /\ asks' \in [0 .. MaxDay -> Nat]
          /\ \A d \in 0 .. MaxDay : d > day => asks'[d] = 0
      BY <1>1, <3>3 DEF DayInv
    <3> QED
      BY <3>1, <3>4, <3>5 DEF DayInv
  <2>6. CASE ReadAnswer(c)
    <3>1. /\ pc[c] = "ask" /\ copy' = [copy EXCEPT ![c] = [@ EXCEPT !.prompted = day]]
          /\ pc' \in {[pc EXCEPT ![c] = "comment"], [pc EXCEPT ![c] = "save"]}
          /\ UNCHANGED <<file, cache, day, asks, answers, calm>>
      BY <2>6 DEF ReadAnswer
    <3>2. copy'[c].prompted = day
      BY <1>1, <3>1 DEF State
    <3> QED
      BY <1>1, <3>1, <3>2 DEF DayInv, CalmInv, Asked, InPrompt, Busy
  <2>7. CASE Submit(c)
    <3>1. /\ pc[c] = "comment" /\ pc' = [pc EXCEPT ![c] = "save"]
          /\ copy' \in {copy, [copy EXCEPT ![c] = [@ EXCEPT !.submitted = day]]}
          /\ UNCHANGED <<file, cache, day, asks, answers, calm>>
      BY <2>7 DEF Submit
    <3>2. \A q \in Cmd : copy'[q].prompted = copy[q].prompted
      BY <1>1, <3>1 DEF State
    <3> QED
      BY <1>1, <3>1, <3>2 DEF DayInv, CalmInv, Asked, InPrompt, Busy
  <2>8. CASE EmptyState(c)
    <3>1. /\ pc[c] = "save" /\ pc' = [pc EXCEPT ![c] = "write"] /\ file' = Torn
          /\ UNCHANGED <<copy, cache, day, asks, answers, calm>>
      BY <2>8 DEF EmptyState
    <3> QED
      BY <1>1, <3>1 DEF DayInv, CalmInv, Asked, InPrompt, Busy
  <2>9. CASE WriteState(c)
    <3>1. /\ pc[c] = "write" /\ pc' = [pc EXCEPT ![c] = "end"]
          /\ UNCHANGED <<copy, cache, day, asks, answers, calm>>
          /\ file = Torn => file' = copy[c]
      BY <2>9 DEF WriteState
    <3>2. copy[c] # Torn
      BY <1>1 DEF State, Never
    <3> QED
      BY <1>1, <3>1, <3>2 DEF DayInv, CalmInv, Asked, InPrompt, Busy
  <2>10. CASE WriteFails(c)
    BY <2>10 DEF WriteFails, DayInv
  <2>11. CASE LookHint(c)
    <3>1. CASE pc' = [pc EXCEPT ![c] = "fetch"]
      BY <1>1, <2>2, <2>11, <3>1
    <3>2. CASE pc' = [pc EXCEPT ![c] = AfterHint(c)] /\ calm' = calm
      BY <2>1, <2>11, <3>2 DEF LookHint, AfterHint
    <3> QED
      BY <2>11, <3>1, <3>2 DEF LookHint
  <2>12. CASE Prompt(c)
    <3>1. CASE pc' = [pc EXCEPT ![c] = "end"] /\ UNCHANGED <<copy, asks, calm>>
      BY <2>1, <2>12, <3>1 DEF Prompt
    <3>2. CASE pc' \in {[pc EXCEPT ![c] = "ask"], [pc EXCEPT ![c] = "save"]}
      BY <1>1, <2>5, <2>12, <3>2
    <3> QED
      BY <2>12, <3>1, <3>2 DEF Prompt
  <2> QED
    BY <1>5, <2>1, <2>3, <2>4, <2>6, <2>7, <2>8, <2>9, <2>10, <2>11, <2>12 DEF After
<1>6. ASSUME NEW c \in Cmd, Type(c) \/ CloseStdin(c) PROVE DayInv'
  <2>1. UNCHANGED <<file, cache, day, copy, asks, answers, calm, pc>>
    BY <1>6 DEF Type, CloseStdin
  <2> QED
    BY <2>1, AwayStep
<1>7. ASSUME NEW c \in Cmd, Kill(c) PROVE DayInv'
  <2>1. UNCHANGED <<file, cache, day, copy, asks, answers>>
    BY <1>7 DEF Kill
  <2>2. CASE Busy(c)
    <3>1. ~calm'
      BY <1>7, <2>2 DEF Kill
    <3> QED
      BY <2>1, <3>1 DEF DayInv
  <2>3. CASE ~Busy(c)
    <3>1. \A q \in Cmd : pc'[q] = pc[q] \/ (~Busy(q) /\ ~Busy(q)')
      BY <1>1, <1>7, <2>3 DEF Kill, Busy
    <3>2. calm' => calm
      BY <1>7 DEF Kill
    <3> QED
      BY <2>1, <3>1, <3>2, AwayStep
  <2> QED
    BY <2>2, <2>3
<1>8. CASE NextDay
  <2>1. /\ day' = day + 1 /\ day' \in 0 .. MaxDay
        /\ UNCHANGED <<file, cache, copy, pc, asks, answers, calm>>
    BY <1>1, <1>8 DEF NextDay
  <2>2. asks'[day'] = 0 /\ answers'[day'] = 0
    BY <1>1, <2>1 DEF DayInv
  <2>3. CalmInv => CalmInv'
    BY <2>1, <2>2 DEF CalmInv, Busy
  <2>4. \A d \in 0 .. MaxDay : d > day' => asks'[d] = 0 /\ answers'[d] = 0
    BY <1>1, <2>1 DEF DayInv
  <2> QED
    BY <2>1, <2>3, <2>4 DEF DayInv
<1> QED
  BY <1>3, <1>4, <1>5, <1>6, <1>7, <1>8 DEF Next

(***************************************************************************)
(* "At most one ask per day", and one answer of GitHub's a day: over any   *)
(* number of commands and days, while no two commands meet at the files    *)
(* and none is cut short while it has them in hand.                        *)
(***************************************************************************)
THEOREM AskedOnceADay == Spec => []OncePerDay
<1>1. Init => DayInv
  <2> SUFFICES ASSUME Init PROVE DayInv
    OBVIOUS
  <2>1. file # Torn
    BY QuestionsAssumption, FreshIsSound DEF Init, State, Never
  <2> QED
    BY <2>1, QuestionsAssumption DEF Init, DayInv, CalmInv, Busy
<1>2. TypeInv /\ DayInv /\ [Next]_vars => DayInv'
  BY DayStep, AwayStep DEF vars, stamps, ghosts, Busy
<1>3. DayInv => OncePerDay
  BY DEF DayInv, CalmInv, OncePerDay
<1> QED
  BY <1>1, <1>2, <1>3, TypeInvInit, TypeInvStep, PTL DEF Spec
=============================================================================
