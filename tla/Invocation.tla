----------------------------- MODULE Invocation -----------------------------
(***************************************************************************)
(* One command as its caller sees it, with -o json: the flags that gate    *)
(* it, the requests it sends, the answers Plivo may give to each, and what *)
(* the run reports - a document on stdout, an exit code, and whether it is *)
(* worth sending again.  The caller is the loop of docs/errors.md and of   *)
(* the bundled skill: it runs a command again when the report invites it.  *)
(*                                                                         *)
(* A command is a sequence of steps (Commands); the module holds for any   *)
(* set of them.                                                            *)
(***************************************************************************)
EXTENDS Integers, Sequences

CONSTANTS
    Program,        \* the commands, each a sequence of steps
    MaxAttempts,    \* bound: runs of one command by its caller
    MaxPages,       \* bound: pages of a list, maxListPages in the code
    PageRetries     \* bound: times a rate-limited page is read again

VARIABLES
    cmd,      \* the command
    flags,    \* --yes, --dry-run, --force, --all, and a --query that will fail
    at,       \* the step the run is at
    dry,      \* the client's DryRun
    sent,     \* api.WriteSent
    partial,  \* partialErr: the error that ended a list early
    page,     \* pages a list has read
    tries,    \* times its next page was rate limited
    docs,     \* results printed on stdout
    exit,     \* what the run reported
    ended,    \* whether it has
    applied,  \* times Plivo carried out each step of the command, in all runs
    hidden,   \* of these, the times it was carried out behind a ServerError
    attempt

vars == <<cmd, flags, at, dry, sent, partial, page, tries, docs, exit, ended, applied,
          hidden, attempt>>

Steps == [do : {"check", "gate", "force", "client", "look", "try", "peek", "list",
                "request", "raw", "contacto"},
          verb : {"", "get", "post", "patch", "delete"},
          on : STRING]

ASSUME InvocationAssumption ==
    /\ Program \subseteq Seq(Steps)
    /\ MaxAttempts \in Nat \ {0} /\ MaxPages \in Nat \ {0} /\ PageRetries \in Nat

Flags == [yes : BOOLEAN, dry : BOOLEAN, force : BOOLEAN, all : BOOLEAN, query : BOOLEAN]

\* What a run reports: clierr's code as its exit code, why, and `retryable`.
Report(code, why, retryable) == [code |-> code, why |-> why, retryable |-> retryable]

Done       == Report(0, "done", FALSE)
UsageError == Report(1, "usage", FALSE)
NoLogin    == Report(2, "login", FALSE)
Refusal    == Report(5, "refused", FALSE)
QueryError == Report(1, "query", FALSE)
Garbled    == Report(1, "garbled", FALSE)     \* a 2xx that does not decode
OddPage    == Report(3, "garbled", TRUE)      \* clierr.Upstream

\* FromHTTP: 4xx, a redirect, 401 and 403, 429, and 5xx and 408.
RateLimited == Report(4, "answer", TRUE)
ServerError == Report(3, "answer", TRUE)      \* whatever the request's verb
AnswerErrors ==
    {Report(1, "answer", FALSE), Report(3, "answer", FALSE), Report(2, "answer", FALSE),
     RateLimited, ServerError}

\* transportError: only a GET is worth repeating.  `plivo api` and the agent
\* service's client report every lost request as a plain NetworkError.
Lost_AnyVerb(s) == Report(3, "lost", TRUE)   \* mutant
Lost(s) == Report(3, "lost", s.verb = "get" \/ s.do \in {"raw", "contacto"})

Reports ==
    {Done, UsageError, NoLogin, Refusal, QueryError, Garbled, OddPage}
    \cup AnswerErrors \cup {Report(3, "lost", b) : b \in BOOLEAN}

Write(s) == s.do \in {"request", "raw", "contacto"} /\ s.verb # "get"

(***************************************************************************)
(* How a well-made command is put together; the theorems ask for no more.  *)
(***************************************************************************)
Sends(s) == s.do \in {"request", "raw", "contacto", "list"}

\* "Spend and destructive commands need --yes": what costs money or cannot be
\* undone, by the bundled skill's own list.  A delete under Call/ or Member/
\* stops what is playing.
SpendsOrDestroys(s) ==
    \/ s.verb = "post" /\ s.on \in {"Call", "Message", "PhoneNumber", "Masking/Session", "Brand",
                                    "Campaign", "Campaign/Update", "Verify/Session",
                                    "Participant", "Member/Kick", "Any"}
    \/ s.verb = "get" /\ s.on = "Cnam"
    \/ s.verb = "delete" /\ s.on \notin {"Call/Play", "Call/Speak", "Call/Record", "Member/Mute",
                                         "Member/Deaf", "Member/Play", "Member/Speak", "Token"}

ClientFirst(p) ==
    \A i \in DOMAIN p : Sends(p[i]) => \E j \in 1 .. i - 1 : p[j].do = "client"

Gated(p) ==
    \A i \in DOMAIN p :
        Sends(p[i]) /\ SpendsOrDestroys(p[i])
          => \E j \in 1 .. i - 1 : p[j].do \in {"gate", "force"}

\* One write, by api.Client, that only reads back may follow, and no list.
OneWriteLast(p) ==
    \A i \in DOMAIN p :
        Write(p[i]) => /\ p[i].do = "request"
                       /\ \A j \in DOMAIN p : p[j].do # "list" /\ (j > i => p[j].do = "peek")

ListLast(p) == \A i \in DOMAIN p : p[i].do = "list" => i = Len(p)

-----------------------------------------------------------------------------

Fresh ==
    /\ at' = 1 /\ dry' = FALSE /\ sent' = FALSE /\ partial' = Done
    /\ page' = 0 /\ tries' = 0 /\ docs' = 0 /\ exit' = Done /\ ended' = FALSE

Init ==
    /\ cmd \in Program /\ flags \in Flags
    /\ at = 1 /\ dry = FALSE /\ sent = FALSE /\ partial = Done
    /\ page = 0 /\ tries = 0 /\ docs = 0 /\ exit = Done /\ ended = FALSE
    /\ applied = [i \in DOMAIN cmd |-> 0] /\ hidden = [i \in DOMAIN cmd |-> 0]
    /\ attempt = 1

Here == cmd[at]
Doing(kinds) == ~ended /\ at \in DOMAIN cmd /\ Here.do \in kinds

Advance == at' = at + 1 /\ UNCHANGED <<exit, ended>>
Stop(report) == exit' = report /\ ended' = TRUE /\ UNCHANGED at
Carried == applied' = [applied EXCEPT ![at] = @ + 1]
caller == <<cmd, flags, attempt>>

\* Flags and arguments, or what a read returned.
Check ==
    /\ Doing({"check"})
    /\ Advance \/ Stop(UsageError)
    /\ UNCHANGED <<caller, dry, sent, partial, page, tries, docs, applied, hidden>>

Gate_ForceToo ==   \* mutant: --force is taken for --yes
    /\ Doing({"gate"})
    /\ IF flags.yes \/ flags.dry \/ flags.force THEN Advance ELSE Stop(Refusal)
    /\ dry' = (dry \/ flags.dry)
    /\ UNCHANGED <<caller, sent, partial, page, tries, docs, applied, hidden>>

\* guardSpend and applyDryRun.
Gate ==
    /\ Doing({"gate"})
    /\ IF flags.yes \/ flags.dry THEN Advance ELSE Stop(Refusal)
    /\ dry' = (dry \/ flags.dry)
    /\ UNCHANGED <<caller, sent, partial, page, tries, docs, applied, hidden>>

\* confirmDelete: an object in use needs --force too, --dry-run or not.
ForceGate ==
    /\ Doing({"force"})
    /\ \E used \in BOOLEAN :
        IF (flags.yes \/ flags.dry) /\ (used => flags.force) THEN Advance ELSE Stop(Refusal)
    /\ UNCHANGED <<caller, dry, sent, partial, page, tries, docs, applied, hidden>>

\* getClient; without a saved login the run ends.
Client ==
    /\ Doing({"client"})
    /\ \/ Advance /\ dry' = flags.dry
       \/ Stop(NoLogin) /\ UNCHANGED dry
    /\ UNCHANGED <<caller, sent, partial, page, tries, docs, applied, hidden>>

\* readThrough: sent under --dry-run as well, and DryRun is put back.  A TryLook
\* that got no answer it could read is passed over.
Look ==
    /\ Doing({"look", "try"})
    /\ \/ Advance
       \/ \E e \in AnswerErrors : Stop(e)
       \/ Here.do = "look" /\ \E e \in {Lost(Here), Garbled, OddPage} : Stop(e)
    /\ UNCHANGED <<caller, dry, sent, partial, page, tries, docs, applied, hidden>>

Peek_MayFail ==   \* mutant: the read-back's error ends the run
    /\ Doing({"peek"})
    /\ \/ Advance
       \/ ~flags.dry /\ \E e \in AnswerErrors : Stop(e)
    /\ UNCHANGED <<caller, dry, sent, partial, page, tries, docs, applied, hidden>>

\* Read back after a write, whatever comes of it.
Peek ==
    /\ Doing({"peek"})
    /\ Advance
    /\ UNCHANGED <<caller, dry, sent, partial, page, tries, docs, applied, hidden>>

-----------------------------------------------------------------------------
(* Requests.  Under --dry-run each is printed on stderr and not sent.      *)

Preview ==
    /\ Doing({"request", "raw", "contacto", "list"}) /\ dry
    /\ Advance
    /\ UNCHANGED <<caller, dry, sent, partial, page, tries, docs, applied, hidden>>

\* WriteSent is api.Client's alone.
NotesSent(s) == s.do = "request" /\ s.verb # "get"

\* A 2xx.  A delete's body is not decoded, and `plivo api` prints what it gets.
Accepted ==
    /\ Doing({"request", "raw", "contacto"}) /\ ~dry
    /\ Carried
    /\ sent' = (sent \/ NotesSent(Here))
    /\ \/ Advance
       \/ Here.do # "raw" /\ Here.verb # "delete" /\ Stop(Garbled)
    /\ UNCHANGED <<caller, dry, partial, page, tries, docs, hidden>>

Answered_Ignored ==   \* mutant: the handler does not look at the API's error
    /\ Doing({"request", "raw", "contacto"}) /\ ~dry
    /\ Advance
    /\ UNCHANGED <<caller, dry, sent, partial, page, tries, docs, applied, hidden>>

\* Any other answer ends the run with its error, and notes no write.  408 and
\* 5xx may come from a gateway before a service that carried the request out.
Answered ==
    /\ Doing({"request", "raw", "contacto"}) /\ ~dry
    /\ \E e \in AnswerErrors :
        /\ Stop(e)
        /\ \/ UNCHANGED <<applied, hidden>>
           \/ e = ServerError /\ Carried /\ hidden' = [hidden EXCEPT ![at] = @ + 1]
    /\ UNCHANGED <<caller, dry, sent, partial, page, tries, docs>>

\* No answer, or a cut-off one: Plivo may have carried the request out or not.
Unanswered ==
    /\ Doing({"request", "raw", "contacto"}) /\ ~dry
    /\ Stop(Lost(Here))
    /\ UNCHANGED applied \/ Carried
    /\ UNCHANGED <<caller, dry, sent, partial, page, tries, docs, hidden>>

\* One page of a list without --all; with it, pages until the last or the limit.
ReadPage ==
    /\ Doing({"list"}) /\ ~dry
    /\ \/ Advance /\ page' = page + 1
       \/ flags.all /\ page + 1 < MaxPages /\ page' = page + 1 /\ UNCHANGED <<at, exit, ended>>
    /\ tries' = 0
    /\ UNCHANGED <<caller, dry, sent, partial, docs, applied, hidden>>

PageLimited_Always ==   \* mutant: no end to the retries
    /\ Doing({"list"}) /\ ~dry /\ flags.all
    /\ tries' = tries + 1
    /\ UNCHANGED <<caller, at, dry, sent, partial, page, docs, exit, ended, applied, hidden>>

PageLimited ==
    /\ Doing({"list"}) /\ ~dry /\ flags.all /\ tries < PageRetries
    /\ tries' = tries + 1
    /\ UNCHANGED <<caller, at, dry, sent, partial, page, docs, exit, ended, applied, hidden>>

PageErrors ==
    (AnswerErrors \ {RateLimited}) \cup {Lost(Here)}
    \cup (IF flags.all THEN {OddPage} ELSE {Garbled})
    \cup (IF flags.all /\ tries < PageRetries THEN {} ELSE {RateLimited})

PageFails_Ends ==   \* mutant: a later page's error ends the run, its rows unprinted
    /\ Doing({"list"}) /\ ~dry
    /\ \E e \in PageErrors : Stop(e)
    /\ UNCHANGED <<caller, dry, sent, partial, page, tries, docs, applied, hidden>>

\* A failed first page ends the run; a later one leaves the rows to be printed
\* and its error in partialErr.
PageFails ==
    /\ Doing({"list"}) /\ ~dry
    /\ \E e \in PageErrors :
        IF page = 0 THEN Stop(e) /\ UNCHANGED partial
        ELSE Advance /\ partial' = e
    /\ UNCHANGED <<caller, dry, sent, page, tries, docs, applied, hidden>>

-----------------------------------------------------------------------------
(* The result and the caller *)

\* `plivo api` has a --query of its own, which filters nothing.
Filtered == flags.query /\ \A i \in DOMAIN cmd : cmd[i].do # "raw"

\* Nothing is printed of a preview.  A --query that fails once a write was sent
\* gives way to the whole result.
PrintResult ==
    /\ ~ended /\ at \notin DOMAIN cmd
    /\ IF flags.dry THEN Stop(Done) /\ UNCHANGED docs
       ELSE IF Filtered /\ ~sent THEN Stop(QueryError) /\ UNCHANGED docs
       ELSE Stop(partial) /\ docs' = docs + 1
    /\ UNCHANGED <<caller, dry, sent, partial, page, tries, applied, hidden>>

\* What the caller takes for an invitation: `retryable`, exit 2 (log in and
\* retry) and exit 4 (wait and retry).
Invites(report) == report.retryable \/ report.code \in {2, 4}

RunAgain ==
    /\ ended /\ Invites(exit) /\ attempt < MaxAttempts
    /\ attempt' = attempt + 1
    /\ Fresh
    /\ UNCHANGED <<cmd, flags, applied, hidden>>

\* A human approves what was refused: "add the flag the hint names".
Approve ==
    /\ ended /\ exit = Refusal /\ attempt < MaxAttempts
    /\ attempt' = attempt + 1
    /\ \E f \in {flags.force, TRUE} : flags' = [flags EXCEPT !.yes = TRUE, !.force = f]
    /\ Fresh
    /\ UNCHANGED <<cmd, applied, hidden>>

Next ==
    \/ Check \/ Gate \/ ForceGate \/ Client \/ Look \/ Peek
    \/ Preview \/ Accepted \/ Answered \/ Unanswered
    \/ ReadPage \/ PageLimited \/ PageFails
    \/ PrintResult \/ RunAgain \/ Approve

Spec == Init /\ [][Next]_vars

-----------------------------------------------------------------------------
(* Correctness *)

TypeOK ==
    /\ cmd \in Program /\ flags \in Flags
    /\ at \in 1 .. Len(cmd) + 1
    /\ dry \in BOOLEAN /\ sent \in BOOLEAN /\ ended \in BOOLEAN
    /\ partial \in Reports /\ exit \in Reports
    /\ page \in Nat /\ tries \in 0 .. PageRetries
    /\ docs \in 0 .. 1
    /\ applied \in [DOMAIN cmd -> Nat] /\ hidden \in [DOMAIN cmd -> Nat]
    /\ attempt \in 1 .. MaxAttempts

(***************************************************************************)
(* What spends money or destroys something is never carried out by a run   *)
(* without --yes.  "--dry-run prints the request and exits without sending *)
(* a write": nothing is, also where the command turns DryRun off for the   *)
(* reads a preview needs.                                                  *)
(***************************************************************************)
Consented == \A i \in DOMAIN cmd : applied[i] > 0 /\ SpendsOrDestroys(cmd[i]) => flags.yes

DryRunWritesNothing ==
    flags.dry => \A i \in DOMAIN cmd : Write(cmd[i]) => applied[i] = 0

ConsentBeforeWrite == Consented /\ DryRunWritesNothing

(***************************************************************************)
(* "From then on the run may have changed the account, so nothing after it *)
(* may fail in a way that invites a second send" (api.WriteSent), and a    *)
(* lost write "may have reached Plivo": a report that invites another run, *)
(* or one with the --query put right, says that nothing was written, in    *)
(* this run or an earlier one.  What was carried out behind a 408 or 5xx   *)
(* is left out: FromHTTP calls these retryable for a write as well.        *)
(***************************************************************************)
NeverInvitesSecondSend ==
    ended /\ (Invites(exit) \/ exit.why = "query") =>
        \A i \in DOMAIN cmd : Write(cmd[i]) => applied[i] = hidden[i]

(***************************************************************************)
(* A caller that does what the reports say has Plivo carry out one write   *)
(* of its command twice only where the first was answered with 408 or 5xx: *)
(* the times it is carried out are those, and one more.                    *)
(***************************************************************************)
NoWriteTwice == \A i \in DOMAIN cmd : Write(cmd[i]) => applied[i] <= hidden[i] + 1

(***************************************************************************)
(* Exit 0 without --dry-run means that every write of the command has been *)
(* carried out; scripts go by the exit code alone.                         *)
(***************************************************************************)
SuccessMeansDone ==
    ended /\ exit.code = 0 /\ ~flags.dry =>
        \A i \in DOMAIN cmd : Write(cmd[i]) => applied[i] >= 1

(***************************************************************************)
(* stdout holds one document when the run succeeded, and the rows read     *)
(* when a list ended early; nothing at all otherwise.                      *)
(***************************************************************************)
OneDocument ==
    ended => (docs = 1 <=> ~flags.dry /\ exit.why # "query" /\ (exit = Done \/ page > 0))
=============================================================================
