------------------------------ MODULE Questions ------------------------------
(***************************************************************************)
(* What a command asks its user, and what is remembered of it: browser     *)
(* login's wait for the redirect or a pasted URL (cmd/login_browser.go),   *)
(* the offer of the skills after it (skills_offer.go), the feedback prompt *)
(* (feedback_prompt.go, internal/feedback/state.go) and the update hint    *)
(* (upgrade.go).  Commands of several terminals share the lists in the     *)
(* config, the prompt's state file and the hint's cache; inside a login    *)
(* one goroutine reads stdin for whoever waits for a line.                 *)
(***************************************************************************)
EXTENDS Naturals, Sequences, FiniteSets

CONSTANTS
    Cmd,         \* invocations of the CLI
    Agent,       \* coding agents a login may run inside
    FolderOf,    \* the skills folder each of them reads
    NoAgent,
    Torn,        \* a file truncated or half overwritten: it does not parse
    MinRuns,     \* MinSuccessfulBeforeFirstPrompt
    MaxDay,      \* bound: days that pass (PromptInterval and CacheTTL are a day)
    MaxLines,    \* bound: lines typed into a login
    MaxFaults    \* bound: kills and failed writes

ASSUME QuestionsAssumption ==
    /\ DOMAIN FolderOf = Agent /\ NoAgent \notin Agent
    /\ Torn \notin [first : Nat, prompted : Nat, submitted : Nat, count : Nat]
    /\ MinRuns \in Nat /\ MaxDay \in Nat /\ MaxLines \in Nat /\ MaxFaults \in Nat

VARIABLES
    offered, hinted,   \* Skills.Offered and Skills.Hinted of the config
    current,           \* the folders that hold every bundled skill
    file,              \* feedback-state.json
    cache,             \* upgrade-check.json: the day of the last answer
    day,
    pc, agent,         \* each command: where it is, and the agent it runs in
    done,              \* the redirect's result, a channel of one
    tty, feed, held,   \* lines typed and not read; the reader of stdin, and the line it holds
    copy,              \* the prompt state a command has read
    put,               \* logins that have put the question
    before,            \* what put was when a login looked at the config
    late,              \* logins with a line no one could drop before their question
    installs,          \* the logins that installed, and the line that said so
    asks,              \* feedback prompts of each day
    answers,           \* GitHub's answers of each day
    faults, calm       \* calm: no fault, no torn file, and no two commands at the state at once

machine == <<offered, hinted, current>>
stdin   == <<tty, feed, held>>
stamps  == <<file, cache>>
ghosts  == <<put, before, late, installs, asks, answers, calm>>
vars    == <<machine, stamps, day, pc, agent, done, stdin, copy, ghosts, faults>>

Never == MaxDay + 1   \* a zero time
Fresh == [first |-> Never, prompted |-> Never, submitted |-> Never, count |-> 0]

Lines == [says : {"url", "yes"}, early : BOOLEAN]   \* "url" is a no to the question

Goto(c, stage) == pc' = [pc EXCEPT ![c] = stage]
Fault == faults < MaxFaults /\ faults' = faults + 1

Init ==
    /\ offered = {} /\ hinted = {} /\ current = {}
    /\ file = Fresh /\ day \in 0 .. MaxDay /\ cache \in {day, Never}
    /\ pc \in [Cmd -> {"idle", "end"}]             \* "end": never run
    /\ agent \in [Cmd -> Agent \cup {NoAgent}]     \* a login, or another command
    /\ done = [c \in Cmd |-> "empty"]
    /\ tty = [c \in Cmd |-> <<>>] /\ held = [c \in Cmd |-> <<>>]
    /\ feed = [c \in Cmd |-> "off"]
    /\ copy = [c \in Cmd |-> Fresh]
    /\ put = {} /\ before = [c \in Cmd |-> {}] /\ late = {} /\ installs = {}
    /\ asks = [d \in 0 .. MaxDay |-> 0] /\ answers = [d \in 0 .. MaxDay |-> 0]
    /\ faults = 0 /\ calm = TRUE

-----------------------------------------------------------------------------
(* awaitCallback *)

\* A login in a terminal starts the reader of stdin; elsewhere nothing reads it.
Login(c) ==
    /\ pc[c] = "idle" /\ agent[c] # NoAgent /\ Goto(c, "await")
    /\ \E f \in {"open", "off"} : feed' = [feed EXCEPT ![c] = f]
    /\ UNCHANGED <<machine, stamps, day, agent, done, tty, held, copy, ghosts, faults>>

\* The handler: the first delivery fills the channel, a later one is dropped.
Redirect(c) ==
    /\ pc[c] = "await"
    /\ done[c] = "empty"
    /\ \E r \in {"code", "error"} : done' = [done EXCEPT ![c] = r]
    /\ UNCHANGED <<machine, stamps, day, pc, agent, stdin, copy, ghosts, faults>>

TakeResult(c) ==
    /\ pc[c] = "await" /\ done[c] # "empty"
    /\ Goto(c, IF done[c] = "code" THEN "redeem" ELSE "end")
    /\ done' = [done EXCEPT ![c] = "empty"]
    /\ UNCHANGED <<machine, stamps, day, agent, stdin, copy, ghosts, faults>>

Holds(c) == held[c] # <<>>

\* A line that is not this login's URL is passed over.
TakeLine(c) ==
    /\ pc[c] = "await" /\ Holds(c)
    /\ held' = [held EXCEPT ![c] = <<>>]
    /\ IF held[c][1].says = "url" THEN Goto(c, "redeem") ELSE UNCHANGED pc
    /\ UNCHANGED <<machine, stamps, day, agent, done, tty, feed, copy, ghosts, faults>>

TimeOut(c) ==
    /\ pc[c] = "await"
    /\ Goto(c, "end")
    /\ UNCHANGED <<machine, stamps, day, agent, done, stdin, copy, ghosts, faults>>

\* redeemAndPersist, which Credentials models.
Redeem(c) ==
    /\ pc[c] = "redeem"
    /\ \E next \in {"offer", "end"} : Goto(c, next)
    /\ UNCHANGED <<machine, stamps, day, agent, done, stdin, copy, ghosts, faults>>

\* From here on nobody takes a line: what is typed later is not followed.
Reads(c) == pc[c] \in {"await", "redeem", "offer", "drain", "record", "asking"}

\* lineFeed: the reader scans a line, then waits for whoever takes it.
Scan(c) ==
    /\ Reads(c) /\ feed[c] = "open" /\ ~Holds(c) /\ tty[c] # <<>>
    /\ held' = [held EXCEPT ![c] = <<Head(tty[c])>>]
    /\ tty' = [tty EXCEPT ![c] = Tail(@)]
    /\ UNCHANGED <<machine, stamps, day, pc, agent, done, feed, copy, ghosts, faults>>

-----------------------------------------------------------------------------
(* offerSkills *)

\* config.Load.  --quiet, --yes and a run without a terminal are choices of
\* the user; with neither there is nothing to offer, or the one question.
LookOffer(c) ==
    /\ pc[c] = "offer"
    /\ before' = [before EXCEPT ![c] = put]
    /\ \/ Goto(c, "hint") /\ UNCHANGED feed
       \/ /\ agent[c] \notin offered /\ FolderOf[agent[c]] \notin current
          /\ \/ Goto(c, "assent") /\ UNCHANGED feed
             \/ Goto(c, "tell") /\ UNCHANGED feed
             \/ /\ offered = {} /\ Goto(c, "drain")
                /\ feed' = [feed EXCEPT ![c] = IF @ = "off" THEN "open" ELSE @]
    /\ UNCHANGED <<machine, stamps, day, agent, done, tty, held, copy, put, late, installs,
                   asks, answers, calm, faults>>

Drain_Off(c) ==   \* mutant: what was typed before is left where it is
    /\ pc[c] = "drain" /\ Goto(c, "record")
    /\ UNCHANGED <<machine, stamps, day, agent, done, stdin, copy, ghosts, faults>>

\* drainLines takes lines while the reader has one ready to hand over.
Drain(c) ==
    /\ pc[c] = "drain"
    /\ \/ Holds(c) /\ held' = [held EXCEPT ![c] = <<>>] /\ UNCHANGED pc
       \/ feed[c] = "open" /\ ~Holds(c) /\ Goto(c, "record") /\ UNCHANGED held
       \/ feed[c] = "closed" /\ Goto(c, "tell") /\ UNCHANGED held
    /\ late' = IF ~Holds(c) /\ tty[c] # <<>> THEN late \cup {c} ELSE late
    /\ UNCHANGED <<machine, stamps, day, agent, done, tty, feed, copy, put, before, installs,
                   asks, answers, calm, faults>>

Tell(c) ==
    /\ pc[c] = "tell" /\ Goto(c, "hint")
    /\ hinted' \in {hinted, hinted \cup {agent[c]}}
    /\ UNCHANGED <<offered, current, stamps, day, agent, done, stdin, copy, ghosts, faults>>

Record_Anyway(c) ==   \* mutant: a name another login has recorded is no reason to stop
    /\ pc[c] = "record" /\ Goto(c, "asking")
    /\ offered' = offered \cup {agent[c]} /\ put' = put \cup {c}
    /\ UNCHANGED <<hinted, current, stamps, day, agent, done, stdin, copy, before, late,
                   installs, asks, answers, calm, faults>>

\* config.Update(appendNew): recorded, under the lock, before it is asked.
Record(c) ==
    /\ pc[c] = "record"
    /\ IF agent[c] \in offered
       THEN Goto(c, "hint") /\ UNCHANGED <<offered, put>>
       ELSE \/ Goto(c, "hint") /\ UNCHANGED <<offered, put>>
            \/ /\ Goto(c, "asking")
               /\ offered' = offered \cup {agent[c]} /\ put' = put \cup {c}
    /\ UNCHANGED <<hinted, current, stamps, day, agent, done, stdin, copy, before, late,
                   installs, asks, answers, calm, faults>>

\* --yes records the same and installs without asking.
Assent(c) ==
    /\ pc[c] = "assent"
    /\ \/ Goto(c, "hint") /\ UNCHANGED offered
       \/ agent[c] \notin offered /\ offered' = offered \cup {agent[c]} /\ Goto(c, "install")
    /\ UNCHANGED <<hinted, current, stamps, day, agent, done, stdin, copy, ghosts, faults>>

\* askToInstall; at the end of stdin it prints the command instead.
Answer(c) ==
    /\ pc[c] = "asking"
    /\ \/ /\ Holds(c) /\ held' = [held EXCEPT ![c] = <<>>]
          /\ IF held[c][1].says = "yes"
             THEN Goto(c, "install") /\ installs' = installs \cup {<<c, held[c][1]>>}
             ELSE Goto(c, "hint") /\ UNCHANGED installs
       \/ feed[c] = "closed" /\ Goto(c, "hint") /\ UNCHANGED <<held, installs>>
    /\ UNCHANGED <<machine, stamps, day, agent, done, tty, feed, copy, put, before, late,
                   asks, answers, calm, faults>>

\* installSkillsIn, which Skills models.
Install(c) ==
    /\ pc[c] = "install" /\ Goto(c, "hint")
    /\ current' \in {current, current \cup {FolderOf[agent[c]]}}
    /\ UNCHANGED <<offered, hinted, stamps, day, agent, done, stdin, copy, ghosts, faults>>
-----------------------------------------------------------------------------
(* After any successful command: the update hint, then the feedback prompt  *)

\* Between reading a file that is shared and having written it.
Busy(c) == pc[c] \in {"fetch", "cache", "ask", "comment", "save", "write"}
Calm(c) == calm' = (calm /\ \A q \in Cmd \ {c} : ~Busy(q))

Work(c) ==
    /\ pc[c] = "idle" /\ agent[c] = NoAgent /\ Goto(c, "hint")
    /\ UNCHANGED <<machine, stamps, day, agent, done, stdin, copy, ghosts, faults>>

AfterHint(c) == IF agent[c] = NoAgent THEN "prompt" ELSE "end"   \* login is never asked

\* maybePrintUpdateHint: nothing to do, a fresh cache, or a request.
LookHint(c) ==
    /\ pc[c] = "hint"
    /\ \/ Goto(c, AfterHint(c)) /\ UNCHANGED calm
       \/ cache # day /\ Goto(c, "fetch") /\ Calm(c)
    /\ UNCHANGED <<machine, stamps, day, agent, done, stdin, copy, put, before, late, installs,
                   asks, answers, faults>>

\* Without an answer nothing is remembered; with one, os.WriteFile first
\* empties the cache.
Fetch(c) ==
    /\ pc[c] = "fetch"
    /\ \/ Goto(c, AfterHint(c)) /\ UNCHANGED <<cache, answers>>
       \/ /\ answers' = [answers EXCEPT ![day] = @ + 1]
          /\ Goto(c, "cache") /\ cache' = Never
    /\ UNCHANGED <<machine, file, day, agent, done, stdin, copy, put, before, late, installs,
                   asks, calm, faults>>

SaveCache(c) ==
    /\ pc[c] = "cache"
    /\ Goto(c, AfterHint(c)) /\ cache' = day
    /\ UNCHANGED <<machine, file, day, agent, done, stdin, copy, ghosts, faults>>

ShouldPrompt(s) ==
    /\ day \notin {s.prompted, s.submitted}
    /\ s.prompted = Never => s.count >= MinRuns \/ s.first < day

Loaded == IF file = Torn THEN Fresh ELSE file

\* This run counted: the first one is stamped.
Counted(s) ==
    [s EXCEPT !.first = IF @ = Never THEN day ELSE @,
              !.count = IF @ < MinRuns THEN @ + 1 ELSE @]   \* no more is asked of it

\* maybePromptFeedback, unless there is no terminal or the user opted out.
Prompt(c) ==
    /\ pc[c] = "prompt"
    /\ \/ Goto(c, "end") /\ UNCHANGED <<copy, asks, calm>>
       \/ /\ copy' = [copy EXCEPT ![c] = Counted(Loaded)]
          /\ Calm(c)
          /\ IF ShouldPrompt(Counted(Loaded))
             THEN Goto(c, "ask") /\ asks' = [asks EXCEPT ![day] = @ + 1]
             ELSE Goto(c, "save") /\ UNCHANGED asks
    /\ UNCHANGED <<machine, stamps, day, agent, done, stdin, put, before, late, installs, answers,
                   faults>>

ReadAnswer_StampsRefusals(c) ==   \* mutant: only a no is remembered as asked
    /\ pc[c] = "ask"
    /\ \/ copy' = [copy EXCEPT ![c].prompted = day] /\ Goto(c, "save")
       \/ Goto(c, "comment") /\ UNCHANGED copy
    /\ UNCHANGED <<machine, stamps, day, agent, done, stdin, ghosts, faults>>

\* Any line, or none.  The stamp is the time of the answer.
ReadAnswer(c) ==
    /\ pc[c] = "ask"
    /\ copy' = [copy EXCEPT ![c].prompted = day]
    /\ \E next \in {"comment", "save"} : Goto(c, next)
    /\ UNCHANGED <<machine, stamps, day, agent, done, stdin, ghosts, faults>>

Submit_ForgetsFailure(c) ==   \* mutant: what could not be sent is not remembered as asked
    /\ pc[c] = "comment"
    /\ \/ copy' = [copy EXCEPT ![c].submitted = day] /\ Goto(c, "save")
       \/ Goto(c, "end") /\ UNCHANGED copy
    /\ UNCHANGED <<machine, stamps, day, agent, done, stdin, ghosts, faults>>

\* runInlineFeedback: sent, nothing to send, or an error.
Submit(c) ==
    /\ pc[c] = "comment" /\ Goto(c, "save")
    /\ copy' \in {copy, [copy EXCEPT ![c].submitted = day]}
    /\ UNCHANGED <<machine, stamps, day, agent, done, stdin, ghosts, faults>>

\* SaveState: os.WriteFile empties the file and writes it.
EmptyState(c) ==
    /\ pc[c] = "save" /\ Goto(c, "write")
    /\ file' = Torn
    /\ UNCHANGED <<machine, cache, day, agent, done, stdin, copy, ghosts, faults>>

\* Of two that write at once the longer may leave its end behind the shorter.
WriteState(c) ==
    /\ pc[c] = "write" /\ Goto(c, "end")
    /\ file' \in {copy[c]} \cup (IF file = Torn THEN {} ELSE {Torn})
    /\ UNCHANGED <<machine, cache, day, agent, done, stdin, copy, ghosts, faults>>

WriteFails(c) ==
    /\ pc[c] \in {"cache", "save", "write"} /\ Fault
    /\ Goto(c, IF pc[c] = "cache" THEN AfterHint(c) ELSE "end")
    /\ calm' = FALSE
    /\ UNCHANGED <<machine, stamps, day, agent, done, stdin, copy, put, before, late, installs,
                   asks, answers>>

-----------------------------------------------------------------------------
(* The user, and the clock                                                  *)

\* A line typed before the question is early, whatever it says.
Type(c) ==
    /\ Reads(c) /\ feed[c] # "closed"
    /\ Len(tty[c]) + Len(held[c]) < MaxLines
    /\ \E s \in {"url", "yes"} :
        tty' = [tty EXCEPT ![c] = Append(@, [says |-> s, early |-> pc[c] # "asking"])]
    /\ late' = IF pc[c] = "record" THEN late \cup {c} ELSE late
    /\ UNCHANGED <<machine, stamps, day, pc, agent, done, feed, held, copy, put, before, installs,
                   asks, answers, calm, faults>>

\* The end of stdin, once what was typed is read.
CloseStdin(c) ==
    /\ Reads(c) /\ feed[c] = "open" /\ tty[c] = <<>> /\ ~Holds(c)
    /\ feed' = [feed EXCEPT ![c] = "closed"]
    /\ UNCHANGED <<machine, stamps, day, pc, agent, done, tty, held, copy, ghosts, faults>>

Kill(c) ==
    /\ pc[c] \notin {"idle", "end"} /\ Fault
    /\ Goto(c, "end")
    /\ calm' = (calm /\ ~Busy(c))
    /\ UNCHANGED <<machine, stamps, day, agent, done, stdin, copy, put, before, late, installs,
                   asks, answers>>

NextDay ==
    /\ day < MaxDay /\ day' = day + 1
    /\ UNCHANGED <<machine, stamps, pc, agent, done, stdin, copy, ghosts, faults>>

Callback(c) ==
    Login(c) \/ Redirect(c) \/ TakeResult(c) \/ TakeLine(c) \/ TimeOut(c) \/ Redeem(c) \/ Scan(c)
Offer(c) ==
    \/ LookOffer(c) \/ Drain(c) \/ Tell(c) \/ Record(c) \/ Assent(c) \/ Answer(c) \/ Install(c)
After(c) ==
    \/ Work(c) \/ LookHint(c) \/ Fetch(c) \/ SaveCache(c) \/ Prompt(c) \/ ReadAnswer(c)
    \/ Submit(c) \/ EmptyState(c) \/ WriteState(c) \/ WriteFails(c)

Next ==
    \/ \E c \in Cmd :
          Callback(c) \/ Offer(c) \/ After(c) \/ Type(c) \/ CloseStdin(c) \/ Kill(c)
    \/ NextDay

Spec == Init /\ [][Next]_vars

-----------------------------------------------------------------------------
(* Correctness *)

Stages == {"idle", "await", "redeem", "offer", "drain", "tell", "record", "asking", "assent",
           "install", "hint", "fetch", "cache", "prompt", "ask", "comment", "save", "write",
           "end"}

\* Nobody is asked before a run, and nothing is sent unasked.
WellFormed(s) ==
    /\ s.count \in 0 .. MinRuns
    /\ {s.first, s.prompted, s.submitted} \subseteq 0 .. Never
    /\ s.prompted # Never => s.first <= s.prompted
    /\ s.submitted # Never => s.prompted # Never

TypeOK ==
    /\ offered \subseteq Agent /\ hinted \subseteq Agent
    /\ current \subseteq {FolderOf[a] : a \in Agent}
    /\ file # Torn => WellFormed(file)
    /\ cache \in 0 .. Never /\ day \in 0 .. MaxDay
    /\ agent \in [Cmd -> Agent \cup {NoAgent}]
    /\ \A c \in Cmd :
        /\ pc[c] \in Stages
        /\ pc[c] \in {"save", "write"} => WellFormed(copy[c])
        /\ done[c] \in {"empty", "code", "error"}
        /\ tty[c] \in Seq(Lines) /\ held[c] \in {<<>>} \cup {<<l>> : l \in Lines}
        /\ feed[c] \in {"off", "open", "closed"} /\ (Holds(c) => feed[c] = "open")
    /\ put \subseteq Cmd /\ late \subseteq Cmd
    /\ faults \in 0 .. MaxFaults /\ calm \in BOOLEAN

(***************************************************************************)
(* "The question is put at most once per machine": each agent's at most    *)
(* once, and a second one only by a login in another agent that looked at  *)
(* the config before the first was recorded.                               *)
(***************************************************************************)
AskedOncePerMachine ==
    \A c, d \in put : c # d => agent[c] # agent[d] /\ c \notin before[d] /\ d \notin before[c]

(***************************************************************************)
(* "A line typed before the question is not an answer to it", unless the   *)
(* reader of stdin had not come to it when the lines were dropped, or it   *)
(* was typed while the question was being recorded.                        *)
(***************************************************************************)
AnswersFollowQuestion ==
    \A i \in installs : i[2].early => i[1] \in late

(***************************************************************************)
(* "At most one ask per day", and "the network hit happens at most once a  *)
(* day per machine", counting the requests that GitHub answers: over any   *)
(* number of commands that do not meet at the files and are not cut short  *)
(* while they ask.                                                         *)
(***************************************************************************)
OncePerDay == calm => \A d \in 0 .. MaxDay : asks[d] <= 1 /\ answers[d] <= 1
=============================================================================
