# A TLA+ model of the plivo CLI

This directory models the parts of the plivo CLI in which something can go
wrong between two steps: commands that share files, the OS keychain and the
server's objects with other commands, that can be killed anywhere, whose calls
can fail after they took effect, and whose goroutines race for one result. The
modules are model-checked with TLC on small instances; most of their safety
properties are also proved with TLAPS for every value of the constants.

Contents:

1. [The system](#1-the-system): its components and what makes each correct
2. [The modules](#2-the-modules): how state and actions correspond to the code
3. [The runs](#3-the-runs): what is checked, the bounds, and what was found
4. [Fairness](#4-fairness)
5. [The proofs](#5-the-proofs)
6. [What is not modelled](#6-what-is-not-modelled)
7. [The plan](#7-the-plan)

`PROJECT.json` has the same facts in a form for tools: which lines of the source
each definition stands for (`map`), the hazards with the properties that would
catch them (`hazards`), and for each property a plausible bug that breaks it
(`mutants`, defined in the modules as operators with a suffix, such as
`TakeLock_Held`).

## 1. The system

`plivo` is one Go binary. Every invocation is a process that reads
`~/.plivo/config.toml` and a token, makes HTTP requests to the Plivo API, prints
and exits. There is no daemon, so there is little state in memory that outlives
a request. What is hard is mostly outside the process: invocations in different
terminals, or by several coding agents at once, meet in the files under
`~/.plivo`, in the OS keychain, in the objects of one account at Plivo, in the
process table, in the skills folders of the agents and in the installed binary
itself. A command may be killed or lose its connection at each of these
meetings. Inside a process a few commands run goroutines: browser login, the
test and simulation of an audio stream, and the bridge of a streams forward.

**Credentials and config store** (`internal/config`, `cmd/login.go`,
`cmd/auth.go`, `cmd/config.go`; module `Credentials`).
State: `config.toml` with the active profile, the profiles and the telemetry
setting, one token per profile in the OS keychain or, when the keychain refuses
it, inline in the file; `config.lock`.
Operations: `login`, `logout` and `auth remove`, `auth use`, `config telemetry`,
and `Resolve`, with which any command finds its auth_id and token. All changes
of the file go through `config.Update`: lock, load, change, save by rename,
unlock.
Hard: two commands at once; the lock is given up on after ten seconds and does
not exist on every file system; login writes the keychain while it holds the
lock and before the config is saved, logout after it has released it; `Resolve`
reads the two stores one after the other with no lock.
Correct when: no change is lost or saved over; the active profile exists; a
profile resolves to a token of its own organization, whatever was killed or
refused; a login's token is the one used from then on; nobody waits for ever.

**Streams forward** (`cmd/voice_streams_forward.go`, `internal/tunnel`; module
`Forward`).
State: the application's answer URL at Plivo, the state file
`~/.plivo/streams-forward/<app>.json` (original URL, tunnel URL, pids), the
tunnel process, and what the run itself remembers.
Operations: read the application, decide what its original URL is, refuse or
ask, stop a leftover tunnel, start one, save the state, redirect, serve, restore
on Ctrl-C or when the tunnel or the server stops, remove the state.
Hard: a killed run leaves the application on a dead tunnel and the only copy of
the original in the file; `os.WriteFile` truncates that file before it writes;
a POST may take effect and its answer be lost; the recorded pids may be reused;
runs in two terminals overlap; the owner edits the application meanwhile.
Correct when: the owner's URL can always be found again and the next run
restores it; a throwaway tunnel URL is never taken for an original; no run
stops a live run's tunnel.

**One command and its caller** (`internal/api/client.go`, `cmd/safety.go`,
`internal/clierr`, `internal/output`, `cmd/lists.go` and the handlers of every
resource command; modules `Invocation` and `Commands`).
State: the flags, whether a write has been sent (`api.WriteSent`), whether the
client previews (`DryRun`), the page of a list, what was printed; at Plivo, what
was carried out.
Operations: checks, the gates for what spends or destroys, reads a write depends
on, the write itself, a list page by page, the report: a document on stdout, an
exit code, and whether the error is worth retrying.
Hard: a write's answer may be lost after it took effect, and the caller is a
program that runs the command again when the report invites it; a handler that
sends before its gate, or with a client that `--dry-run` does not reach, does
so only on some of its paths.
Correct when: nothing that spends or destroys goes out without consent, and
nothing at all under `--dry-run`; no write is invited twice, but
where the code says so of a 408 or 5xx; exit 0 means every
write was carried out; stdout has one document.

**What a command asks its user** (`cmd/login_browser.go`, `cmd/skills_offer.go`,
`cmd/feedback_prompt.go`, `internal/feedback`, the hint in `cmd/upgrade.go`;
module `Questions`).
State: the lists `Skills.Offered` and `Skills.Hinted` in the config, the prompt's
state file, the hint's cache; in a login, the channel of one result and the
goroutine that reads stdin.
Operations: wait for the browser's redirect, a pasted URL or the timeout; offer
the skills; print the update hint; ask for a rating.
Hard: what was asked is read in one step and written in another, so commands at
once may both ask; the state file is emptied before it is written; redirect,
pasted URL and timeout race; a line typed for one question may be read by the
next.
Correct when: the machine is asked about skills once, a day has one rating
prompt and one request for the hint, and skills are installed only for an
answer to the question or for `--yes`.

**Skills** (`cmd/skill.go`, `skill_hashes.go`; module `Skills`).
State: `SKILL.md` of every bundled skill in the folders of several agents, at
home and in the repository, some of them links; what was kept as
`SKILL.md.retired`.
Operations: `skill install` (one or all, an agent, the project, a directory,
`--force`, `--dry-run`), `skill update`, and the retirement of a skill that a new
one replaces.
Hard: users edit these files, and no lock is taken between the look at a copy
and the write over it; `os.WriteFile` empties the file first; a link may lead out
of the repository; two runs may choose one free `.retired` name.
Correct when: what a user edited is never lost, a project install never writes
outside the repository, and a skill never stays beside the one that replaces it.

**Streams test, simulate and the bridge** (`cmd/voice_streams_test_cmd.go`,
`cmd/voice_streams_simulate.go`, `internal/wsproxy`; module `Streams`).
State: the connections, the frames on their way, the writer and the reader of
the probe, the counters of the result, the two copiers of the bridge.
Operations: the checks of the answer URL and its XML, dial, start, media, wait
for an answer, stop, close, the verdict; the bridge's dial, copies and teardown.
Hard: the endpoint may answer, close, drop or stop reading at any moment, and the
probe's two goroutines and the bridge's two see it in either order.
Correct when: a pass means that all of the call was taken and, where asked for,
answered; a failure is blamed on an endpoint that did something; nothing is
streamed after a check that forbids it; the test ends and the bridge lets both
connections go.

**SIP trunking deletes and updates** (`cmd/sip_write.go`, the page walk of
`cmd/lists.go`; module `SipTrunks`).
State: the account's URIs, trunks and numbers at Plivo, which others change;
the command's position in the list it walks and what it found.
Operations: before a delete, walk every page of the lists that could show a
dependent, and refuse without `--force` if there is one; DELETE; after a URI
delete read back each trunk found. An update reads the trunk for the fields the
API would clear and posts them along.
Hard: check and write are separate requests with nothing to tie them together;
pages are addressed by offset in a list that shifts; a read in the middle fails.
Correct when: an unforced delete spares what has depended on the object since
the check began; the report never calls a living trunk deleted; an update
leaves alone what no flag names.

**Self-upgrade** (`cmd/upgrade.go`, `internal/release`; module `Upgrade`).
State: three file names (the binary, `<exe>.upgrade.tmp`, `<exe>.old`) and the
inodes behind them.
Operations: look up the release, download, check the SHA-256, apply the
signature policy, rename over the binary, on Windows by way of `<exe>.old`.
Hard: a failure or kill at any step; the policy's cases (signed or not, from
before signing, cosign or not, a fetch that fails); all upgrades of one binary
share one temporary file.
Correct when: the binary is one whole release at every moment; "done" means
installed and checked; "failed" means unchanged.

### Components not modelled

| Component | Why |
|---|---|
| Buddy: `ask` and `support` (`cmd/buddy.go`, `internal/api/sse.go`) | One goroutine reads and prints the stream; see [the plan](#7-the-plan) |
| Streams readiness, diagnose | Reads and probes, each of which stands alone and changes nothing |
| Docs, command map, links, redaction, webhook signatures | Text and pure functions on text |
| Profiles of development builds | One file of one command, in internal builds only |
| Generators and packaging | Run when the program is built |

### How the parts interact

Every command reads its credentials as `Credentials` models it and sends its
requests as `Invocation` does. Browser login runs the wait of `Questions`, then
the change of `Credentials`, then the offer of `Questions`, which edits the
config through `config.Update` and installs skills by the code `Skills` models.
Forward serves through the bridge of `Streams`. Every command but login ends
with the update hint and the rating prompt of `Questions`.

The compositions are made where two parts meet in one state: `Invocation` runs
the handlers of `Commands`; `Streams` has the probe, the bridge and the
endpoint on the same connections; `Credentials` implements `ProfileStore`. The
rest meet only in that one runs after the other. They share the directory
`~/.plivo`, in which each has files of its own; the config, which two edit, is
in `Questions` as the one atomic change that `Credentials` shows
`config.Update` to be.

## 2. The modules

A module's actions are the points at which a process or goroutine reads or
changes something another can see; the code between two such points is part of
the action before or after it. `pc` is the place in the code. Every local value
the code carries from one such point to a later one is a variable, because it
can be stale by then. History variables, which no code reads and which serve the
properties only, are named as such.

### Forward, MCForward, ForwardProofs

| Variable | In the code |
|---|---|
| `app` | the application's `answer_url` and `answer_method`, which always travel together |
| `disk` | the state file; `NoState` when it is missing, empty or torn, all of which `readForwardState` takes for none |
| `seen`, `saved`, `orig`, `turl` | the URL the GET returned, the run recorded in the state read, `original`, the run's tunnel URL |
| `tunnel`, `reused` | tunnel processes; numbers of dead runs that another program has |
| `due`, `alone` | history: what the owner last asked for; that no run has met another or an edit |
| `faults`, `edits` | bounded counters |

The actions follow `runVoiceStreamsForward` from top to bottom. `GetApp` and
`Decide` are two steps since the state file is read after the request returned.
`Confirm` comes after a prompt that can stay open for hours, and looks at the
recorded process again there, as the code does. `OpenState` and `WriteState` are
the two halves of `os.WriteFile`. A POST is a step when it takes effect
(`Redirect`, `Restore`) and another when its answer arrives (`Serve`,
`Forget`), so a failure or kill falls before, between or after. URLs are in
three classes the code distinguishes: throwaway tunnel domains, ngrok domains,
which may be fixed and belong to the owner, and all others. Tunnel names of
localhost.run are fresh for each run; ngrok gives any domain nobody is serving.

Runs may overlap and the owner may edit at any moment. What the help promises
about the owner's URL it promises for one run after another, and it promises
that the restore overwrites an edit made while a forward runs; so these
properties are stated for behaviours that are still `alone`. The others hold in
all.

### ProfileStore, Credentials, MCCredentials, CredentialsProofs

`ProfileStore` is the abstract specification: a config on which login, removal,
`auth use` and `config telemetry` are one atomic step each. Its operators
(`WithProfile`, `Without`, `Activated`, `Telemetry`, `FreeFor`) are also the
edits the commands of `Credentials` apply to their copy. The refinement mapping
is the identity on `config`: the step `Save` must be a `ProfileStore` step on
the config as it is at that moment.

| Variable | In the code |
|---|---|
| `config` | `config.toml`; a read and a rename are one step each |
| `keychain` | the token per profile name in the OS keychain |
| `holder` | who holds `config.lock` |
| `job` | a command's arguments, and later the profile name it settled on |
| `copy` | the config loaded by `Update` and edited |
| `sent` | the token a request goes out with |

`TakeLock`, `GiveUp`, `Load`, one change, `Save` or `SaveFails`, and `Unlock` are
`config.Update`; `Load` fails where the file cannot be read or parsed, and so does
`ResolveProfile`. `PersistProfile` is the change login makes: it picks the name,
offers the token to the keychain, which takes it or not, and puts the profile in
the copy with the token inline if it did not. `DeleteToken` is logout's last
step, after `Unlock`. `ResolveProfile` and `GetToken` are `Resolve`'s two reads.
A `Kill` releases the lock, as the operating system does. With `Locks = FALSE`,
`TakeLock` goes on without one (`lock_other.go`, and file systems that refuse).

The organizations modelled all have the same slug, the case in which the choice
of a name matters: name *i* is the slug with suffix *-i*. The initial state is
any config and keychain earlier commands can leave, with inline tokens and
orphaned keychain entries included.

### Commands, Invocation, MCInvocation, InvocationProofs

A command is a sequence of steps, and `Commands` says for each handler which:
checks of flags, the gate (`guardSpend`, `confirmDestructive`), the gate that
knows the dependents (`confirmDelete`), `getClient`, a read that a write depends
on, the request, a list, a read back. A handler with optional steps is the set of
its paths. The names are the handlers' own.

`Invocation` runs any set of such sequences. Its actions are the steps, the
answers a request may get, and the caller:

| Variable | In the code |
|---|---|
| `flags` | `--yes`, `--dry-run`, `--force`, `--all`, and a `--query` that will fail |
| `at` | the step of the handler |
| `dry`, `sent` | the client's `DryRun`, `api.WriteSent` |
| `partial`, `page`, `tries` | `partialErr`, and where `fetchAllPages` is |
| `docs`, `exit`, `ended` | the documents on stdout, the error's exit code and `retryable` |
| `applied` | history: how often Plivo carried out each step |
| `hidden` | history: how often of these it answered 408 or 5xx all the same |
| `cmd`, `attempt` | the command, and the caller's runs of it |

`Accepted`, `Answered` and `Unanswered` are `api.Client`'s three ends of a request;
in the third Plivo may have carried it out. So it may behind a 408 or a 5xx
(`ServerError`), which can be a gateway's answer before a service that did the work;
any other error answer (4xx, 401, 403, 429, a redirect) is Plivo's own refusal and
taken to mean that nothing was done. `Lost` is `transportError`: a lost GET is worth repeating, a
lost write is not, but for requests that `plivo api` and the agent service's client
send. `RunAgain` and `Approve` are the caller of `docs/errors.md` and of the bundled
skill: again on `retryable` and on exits 2 and 4, with `--yes` on exit 5.

What the theorems need of a command is in four operators, `ClientFirst`, `Gated`,
`OneWriteLast` and `ListLast`; the assumption `CommandsWellMade` of `MCInvocation`
evaluates them on every command of `Commands`, so a handler that sends before its
gate fails there. Commands with a second write, of `plivo api` or of the agent service
do not have `OneWriteLast`.

### Questions, MCQuestions, QuestionsProofs

| Variable | In the code |
|---|---|
| `offered`, `hinted` | the two lists of the config |
| `current` | the skills folders that hold every bundled skill |
| `file`, `cache`, `day` | `feedback-state.json`, `upgrade-check.json`, the clock in days |
| `done` | the channel of one result in `awaitCallback` |
| `tty`, `feed`, `held` | lines typed, the goroutine that scans stdin, the line it holds for whoever asks |
| `copy` | the prompt state a command has read |
| `put`, `before`, `late`, `installs`, `asks`, `answers`, `calm` | history |

`Login` to `Scan` are `awaitCallback`; `LookOffer`, `Drain`, `Record`, `Answer`,
`Assent`, `Tell` and `Install` are `offerSkills`; `LookHint`, `Fetch` and `SaveCache`
are the update hint; `Prompt` to `WriteFails` are `maybePromptFeedback` with the two
steps of its `os.WriteFile`. A user types ahead, closes stdin or answers at any
moment. A line is this login's URL or not, and a yes or not.

### Skills, MCSkills, SkillsProofs

Paths and files are apart, because a folder may be linked: `link` says which file a
path resolves to. `file` holds what a copy is (absent, half written, a version some
release shipped, the bundled version, an edit) and `retired` what was kept beside it
as `SKILL.md.retired`, `.2` and so on. `Start` is the check of all paths of a project
install; `LookInstall` and `LookUpdate` read a copy and decide; `Truncate`, `Fill` and
`WriteFails` are `os.WriteFile` (and the read of an update that fails); `ChooseName`, `Rename` and `RenameFails` retire a
replaced skill. `todo` is what the loops of a run have still to visit: the copies it
was asked for (`Installs`, `Updates`), and after each that was made the skills this one
replaces (`Supersede`), which go before the next copy. `Save` is the owner, at any moment; `OldInstall` is an older binary
that puts the old skill back. `saved`, `excused` and `again` are history: what was
saved, what of it the command does not promise to keep (overwritten by its owner or
under `--force`, or saved or retired after a run had looked), and the files others
wrote while a run was under way. `NeverBoth` leaves out an old skill's file that a link
makes the file of a copy too: whoever installs that copy writes it.

### Streams, MCStreams, StreamsProofs

Each connection has two ends with a queue and a flag for having dropped it. A direct
call has one connection, a bridged one has two. A write waits when `Buffer` frames
are in the way and then its deadline passes (`slow`); what was sent before a drop can
still be read.

| Actor | Actions and code |
|---|---|
| probe | `Fetch`, `CheckStream`: simulate's checks. `Dial`, `SendStart`, `SendMedia`, `Wait`, `SendStop`, `Moment`, `HungUp`, `Close`, `StopReader`, `Fail`, `Finish`: `streamsProbe.run` |
| reader | `Read`, `ReadFails`, `Leave`: `streamsReadBack` |
| bridge | `BridgeDials`, `CopyRead`, `CopyReadFails`, `CopyWrite`, `CopyWriteFails`, `Cancelled`, `BridgeCloses`: `wsproxy.Bridge` and its two copiers |
| endpoint | answers, closes, drops, or leaves what it gets unread |
| user | `Interrupt` |

`sentBack`, `endFirst` and `slow` are history. Frames are of six classes; what is in
them, the codecs and the pacing are left out.

### SipTrunks, MCSipTrunks, SipTrunksProofs

`uris`, `trunks`, `fields`, `numbers` and `route` are the account. A list is a set of
rows in the order of `place`, which is any order but the same for all of a behaviour:
a new row may come anywhere, no row overtakes another. `Offset` counts the rows before one,
so it shifts as rows come and go, and `Page` has the rows at the offsets asked for.
`offset` and `found` are the walk, `stored` is what an update read, `report` what was read back. `ReadPage` is
one request of `walkPages` with both of its ends (the total, an empty page) and
the early end of the number walk; `WalkEnds` passes from the filter on the
primary URI to that on the fallback URI. `DeleteURI`, `DeleteTrunk` and `Send`
take effect and then either report success or, when the answer is lost,
failure. What the API does on a delete is external: a URI takes along the trunks
it is the primary of, and a trunk detaches its numbers. What becomes of a deleted
fallback URI is not documented, so both outcomes are allowed. `NewTrunk`,
`Repoint`, `Reroute`, `Buy` and `Release` are changes made elsewhere.

`steady[c]` is history: the things that depended on c's target, unchanged, since c
began to look. `Watch`, a conjunct of `Next`, computes it, and leaves out a number
that moved up past the walk (`Overtaken`). `gone[c]` is what the server deleted with
c's URI, `listed` the trunk IDs given so far, none of which is given again.

Credentials and IP access control lists are deleted by the code of URIs with
one list to walk and no read-back, a subset of the steps of `uri delete`.

### Upgrade, MCUpgrade, UpgradeProofs

`name` maps the three file names to inodes and `data` holds the pieces of each
inode, because an upgrade goes on writing the inode it opened when its name has
been renamed away. `Open` is `O_CREATE|O_TRUNC`: it empties the file another
upgrade left or is using. `OpenFails` is the one failure that leaves that file alone.
`CheckSums` reads the file that has the name *now*.
`CheckSignature` is `verifyManifestSignature` with its whole table: signature
published or not, cosign there or not, `PLIVO_ALLOW_UNSIGNED`, the first
signed release, a fetch or cosign itself failing. `Swap` is the Unix rename;
`MoveAside` and `MoveIn` with `Revert` are Windows. Every later error path removes
the shared temporary file (`GiveUp`).

## 3. The runs

Each run answers one question. `CHECK_DEADLOCK FALSE` is set in all of them
because commands end: a state in which every invocation is done is the normal
end of a behaviour. Symmetry is used only in runs without liveness, over
invocations that nothing in the module tells apart.

| Run | Properties | Instance | Shows |
|---|---|---|---|
| `forward` | `TypeOK`, `OriginalNeverThrowaway`, `OwnerURLRecoverable`, `ServingRestoresOwed`, `LostOnlyWhileRecovering`, `StopsOnlyDeadTunnels`, `TunnelLossRestores` | 2 runs in sequence or overlapping, 2 faults, 1 edit, pid reuse, fairness | One kill or failure anywhere never loses the owner's URL and the next serving run restores it; more faults lose it by one kind of step only; a throwaway URL never becomes an original; no run stops a live run's tunnel; a tunnel that dies leads to the teardown |
| `credentials` | `TypeOK`, `TokensAreOwn`, `RequestsUseOwnToken`, `EveryProfileHasToken`, `ImplementsStore`, `LatestLoginUsed`, `CommandsEnd` | 2 commands of every kind, 2 organizations, 2 names, 1 kill, locks, fairness | Every save is one atomic change of the current config; tokens stay with their organization; while nobody logs out no profile loses its token, no request mixes two organizations and the latest login counts; nobody waits for ever |
| `invocation` | `TypeOK`, `ConsentBeforeWrite`, `NeverInvitesSecondSend`, `NoWriteTwice`, `SuccessMeansDone`, `OneDocument` | every command of `OneWrite`, all flags, 3 attempts, 3 pages, 2 retries of a page | Nothing is written without consent or under `--dry-run`; a caller that does what the reports say writes a second time only after a 408 or 5xx; exit 0 is the truth; one document |
| `questions` | `TypeOK`, `AskedOncePerMachine`, `AnswersFollowQuestion`, `OncePerDay` | 3 commands, or 2 logins, or a login and a command; 2 agents, 2 days, 1 line typed, 1 fault | Who is asked how often, and which line is the answer |
| `skills` | `TypeOK`, `EditsSurvive`, `StaysInside`, `NeverBoth` | 2 runs, 2 skills, one replaced skill, 3 folders, 1 edit, links | Edits survive outside the window between look and write; a link out of the repository is never written through; no skill stays beside its replacement |
| `streams` | `TypeOK`, `PassIsEarned`, `BlameIsFair`, `NothingAfterFailedCheck`, `CallsEnd` | one call of 2 media frames and 1 answer: a bridged test, direct tests, simulate with and without its call; fairness | What a pass, a blame and the counters mean; a test ends and the bridge lets both connections go |
| `sip_dependents` | `TypeOK`, `UnforcedSpares`, `ReportedTrunks`, `KeptIfSteady` | 2 commands, 3 trunks, 2 URIs, 2 numbers, pages of 1, 1 change elsewhere | Checks, reports and updates hold what they promise while others change the account |
| `upgrade_alone` | `TypeOK`, `BinaryWhole`, `VerdictIsTrue` | 2 upgrades in sequence, 4 releases, 2 faults, 1 kill, all four machines | One upgrade at a time is atomic, never skips a check it owes, and tells the truth |

### Where the code and its promises part

Four runs check one property each that a comment or a help text states, and end
with a counterexample.

- `credentials_late_delete` (`DeletedOnceGone`). Logout removes the keychain
  token "once the profile is gone" (`cmd/login.go:310`), but after `Update` has
  released the lock. A login of the same profile that saves in between has its
  new token deleted; the profile is left without one. `auth remove` is the same.
- `forward_doc_second_refused` (`NoTwoServe`). The help says "a second forward on
  the app is refused while one runs". Two runs that both read the application
  before either redirects it both serve, and the second overwrites the first's
  state.
- `invocation_retry` (`NeverInvitesSecondSend`). "From then on the run may have
  changed the account, so nothing after it may fail in a way that invites a second
  send" (`api/client.go:33`). `endpoints create --agent` and `endpoints update
  --agent` write the endpoint and then link it; an error of the link is reported as
  it came, and a 429, a 401 or a 5xx invites the whole command again, which creates
  a second endpoint.
- `upgrade_overlap` (`BinaryWhole`). "Atomically replaces the running binary" and
  "verify ... before swapping the binary in" hold for one upgrade. A second one
  truncates the file the first has verified and is about to rename, so an empty
  or partial, unverified file becomes the binary.

Some properties are stated with an exception, because the behaviour excepted is
in the code.

- *Forward*: "after a killed run the next one restores it" fails after two faults.
  The recovering run replaces the state that names the old tunnel before it
  redirects; killed in between, it leaves the application on a tunnel that no state
  names. `LostOnlyWhileRecovering` says that this is the only way. Of three runs an
  owner's URL on a fixed ngrok domain, once lost so, can come back by chance as a
  later run's tunnel and go again with it, which the property leaves out.
- *SipTrunks*: the walk over numbers reads them by offset. A number released from a
  page already read moves the rest up, one is skipped, and if it is the one routed
  to the trunk the delete goes out without `--force` (`sip_write.go:405`,
  `lists.go:480`). `UnforcedSpares` leaves out exactly that number.
- *Questions*: "A line typed before the question is not an answer to it"
  (`skills_offer.go:125`) fails when the goroutine that reads stdin has not scanned
  the line yet as the others are dropped, and for a line typed while the config lock
  is waited for. "The question is put at most once per machine" fails for two logins
  at once in two agents, both of which looked before either recorded. `OncePerDay` is
  stated for commands that do not meet at the files and are not cut short: Ctrl-C at
  the rating prompt is not recorded, a torn state file reads as none, and while
  GitHub cannot be reached every command asks it again.
- *Skills*: an edit saved between a run's look and its write is lost. A copy left
  half written by a kill or a full disk reads as edited and is kept from then on.
- *Streams*: `ctx = "live"` in `PassIsEarned`: a test stopped by Ctrl-C still passes
  on what it sent, with a warning. `BridgeEnds` leaves out an endpoint that neither
  reads nor drops the connection: the bridge waits on it without a deadline.
- *Invocation*: commands of `plivo api`, and minting and revoking tokens, report every
  lost request as retryable, writes too (`api.go:188`, `authToken.go:192`), and are
  not in `OneWrite`. A 408 or 5xx is retryable for any verb, by the code
  (`clierr.go:267`) and by its documentation (`docs/errors.md:74`), though a gateway
  may have answered for a service that carried the write out. A caller who follows
  the report then sends the write again. The model has these answers and counts such
  writes in `hidden`; `NeverInvitesSecondSend` leaves them out, and `NoWriteTwice`
  says that each adds one second send and nothing else does.
- *Skills, reading*: `installSkill` skips the look for edits when it cannot read the
  copy (`skill.go:443`), so `--force` is not needed to write over one that can be
  written and not read. The model's copies can be read; an update that cannot read
  one ends with its error (`WriteFails`).

### Bounds, and why they are enough

- *Forward.* Two runs and two faults are the pair of any conflict over one file
  and the shortest behaviour in which recovery is itself cut short; the state that
  a third run would inherit is the one the theorems speak of for any number of runs.
  Two own URLs tell an edit from the original; the ngrok domain is also a possible
  original, and a stray tunnel URL is what an earlier tool may have left.
- *Credentials.* A lost update, a late delete and a mixed read each take two
  commands; "earlier" commands are all in the initial states. Two names and two
  organizations with one slug give every case of the name choice, refusal
  included. `FirstSpec` calls A the organization that logged in first, which is
  symmetry, and starts with at most one trace of what a keychain refused or kept
  before. `MaxName` cuts the search for a name: a login that finds every name
  taken by the other organization stops there, as if it waited for the keychain,
  where the code would go on to the next suffix.
- *Invocation.* The longest command has one write, and each attempt is like the
  last but for what was applied before, so a third attempt meets every case. Three
  pages make a first, a middle and a last; two retries make a page that is read on
  the second. The numbers in the code are only larger.
- *Questions.* Two logins race for the lists, two commands for the state file, and a
  third command sees what they left. With two days each stamp is of today or earlier,
  which is all the code looks at. One line is early or late, a URL or a yes.
  `MinRuns = 2` has a run that counts and one that asks.
- *Skills.* Two runs and one edit are the actors of every race; two skills let a run
  be between two copies; a linked home folder, a path that leaves the repository and
  one that leads into a home folder are the three kinds of link.
- *Streams.* Two media frames have a first and a last; with a buffer of one, the
  second waits on the endpoint. The bridge has two queues of the same size each way.
- *SipTrunks.* Pages of one row put a boundary between any two rows. Three
  trunks allow one that appears during the walk, before the rows read or behind
  them (`AnyPlace`); two commands allow a delete against another and against an
  update.
- *Upgrade.* Two pieces make a partial download; four releases cover each kind
  of signature and an unsigned one from before signing; two faults are needed for
  both renames on Windows to fail; a kill with a second upgrade after it covers
  what is left behind.

## 4. Fairness

Three modules assume some, all of it weak.

- `Forward!FairSpec`: on what a run does once its tunnel has stopped
  (`NoticeTunnel`, the teardown, `Close`). The select on `tn.Done` is the program's
  own, the requests have timeouts, so each either takes effect or fails, and the
  teardown asks the user nothing. Nothing is assumed of the prompt, of starting a
  tunnel, or of the world.
- `Credentials!Fairness`: on the steps of `config.Update`, including giving up on
  the lock, and on changes that do not touch the keychain. A keychain call may open
  a dialog and wait for its user, so a login may hold the lock for ever;
  `CommandsEnd` says all others still end.
- `Streams!Spec`: on each goroutine of the program (the probe, the reader, the two
  copiers, the bridge's dial and close). Every wait of the probe has a deadline in
  the code, so its steps never depend on the endpoint, which owes nothing: it may
  neither read nor answer nor drop. Nor is Ctrl-C assumed.

The other modules are checked for safety only. Their loops are bounded, their
calls time out and their prompts wait for a user who owes no answer, which leaves no
liveness worth stating.

## 5. The proofs

Every theorem is proved from the module's named assumption on its constants
(`ForwardAssumption` and so on, which TLC evaluates in the runs) and the premises
listed here, for any sets of runs, commands, URLs, skills or releases and any values
of the bounds.

| Theorem | Premises | Property |
|---|---|---|
| `ForwardProofs!TypeCorrect` | none | `TypeOK` |
| `ForwardProofs!NeverThrowaway` | none | `OriginalNeverThrowaway` |
| `ForwardProofs!StopsOnlyDead` | none | `StopsOnlyDeadTunnels` |
| `ForwardProofs!OneFaultRecoverable` | none | `OwnerURLRecoverable` |
| `ForwardProofs!OneFaultRestores` | none | `ServingRestoresOwed` |
| `ForwardProofs!LossOnlyInRecovery` | none | `LostOnlyWhileRecovering` |
| `CredentialsProofs!TypeCorrect` | none | `TypeOK` |
| `CredentialsProofs!ActiveExists` | none, so also without locks | `ActiveNamesProfile` |
| `CredentialsProofs!ImplementsProfileStore` | `Locks = TRUE` | `ImplementsStore`, the refinement |
| `CredentialsProofs!TokensOwn` | `Locks = TRUE` | `TokensAreOwn` |
| `CredentialsProofs!ProfilesKeepTokens` | `Locks = TRUE` | `EveryProfileHasToken` |
| `CredentialsProofs!RequestsAreOwn` | `Locks = TRUE` | `RequestsUseOwnToken` |
| `CredentialsProofs!LatestLoginCounts` | `Locks = TRUE` | `LatestLoginUsed` |
| `InvocationProofs!TypeCorrect` | none | `TypeOK` |
| `InvocationProofs!DryRunIsPreview` | `ClientFirst` | `DryRunWritesNothing` |
| `InvocationProofs!AlwaysConsent` | `ClientFirst`, `Gated` | `ConsentBeforeWrite` |
| `InvocationProofs!ReportsAreHonest` | `OneWriteLast` | `NeverInvitesSecondSend` |
| `InvocationProofs!WritesHappenOnce` | `OneWriteLast` | `NoWriteTwice` |
| `InvocationProofs!SuccessIsDone` | none | `SuccessMeansDone` |
| `InvocationProofs!PrintsOnce` | `ListLast` | `OneDocument` |
| `QuestionsProofs!TypeCorrect` | none | `TypeOK` |
| `QuestionsProofs!PutOnce` | none | `AskedOncePerMachine` |
| `QuestionsProofs!OnlyAnswersInstall` | none | `AnswersFollowQuestion` |
| `QuestionsProofs!AskedOnceADay` | none | `OncePerDay` |
| `SkillsProofs!TypesHold` | none | `TypeOK` |
| `SkillsProofs!EditsKept` | none | `EditsSurvive` |
| `SkillsProofs!InsideRepository` | none | `StaysInside` |
| `SkillsProofs!NeverBothSkills` | none | `NeverBoth` |
| `StreamsProofs!TypesHold` | none | `TypeOK` |
| `StreamsProofs!PassEarned` | none | `PassIsEarned` |
| `StreamsProofs!FailedCheckIsLast` | none | `NothingAfterFailedCheck` |
| `StreamsProofs!BlameOnlyTheEndpoint` | none | `BlameIsFair` |
| `StreamsProofs!CallsAreFinite` | none | no run: each step brings the end nearer |
| `SipTrunksProofs!TypeCorrect` | none | `TypeOK` |
| `SipTrunksProofs!Spares` | none | `UnforcedSpares` |
| `SipTrunksProofs!ReportTrue` | none | `ReportedTrunks` |
| `SipTrunksProofs!UpdateKeeps` | none | `KeptIfSteady` |
| `UpgradeProofs!TypeCorrect` | none | `TypeOK` |
| `UpgradeProofs!AlwaysWhole` | `Overlap = FALSE` | `BinaryWhole` |
| `UpgradeProofs!VerdictTrue` | `Overlap = FALSE` | `VerdictIsTrue` |
| `UpgradeProofs!NeverMissing` | none | no run: the binary's name always stands for a file, off Windows |
| `UpgradeProofs!ChecksAreOwn` | none | no run: no upgrade gets past its own signature check |

The premises are not technical: `upgrade_overlap` shows what two upgrades at once
do, without locks a change can be saved over another, and each premise on commands
is one that `CommandsWellMade` evaluates on the real ones, `OneWriteLast` excepted
for the commands of `invocation_retry`.

**Forward.** `TypeInv` adds to `TypeOK` that a run past the start of its tunnel
has a tunnel URL and one that is writing has an original. `NeverThrowaway` and
`StopsOnlyDead` follow from it step by step. `OwnerURLRecoverable` is not
inductive: a state file may name the right original under a tunnel the
application is not on. `SequentialInv` follows the URL through a run: it is on
the application (`Home`), or in the file of the tunnel the application is on
(`OnLoan`), and the live run knows it (`RunKnows`); only a run recovering from
the one fault has it in memory alone, and with no fault left nothing can stop
that run. `OwedAndSaved` keeps old state files from being believed: a
tunnel is never on one of the owner's own domains, and a file whose tunnel is a
fixed ngrok domain that is itself owed has that domain as its original. With any
number of faults nothing is known of the URL once it is lost, so `HandedOnInv` says
less: *while* it is on the application or in the file, a run that has decided knows
it. That is enough to say which step can lose it.

**Credentials.** `WholeInv` carries "the active profile exists" to every copy in
hand: each copy is one whole config, so even a save over somebody's change is
consistent. `LockInv` says that a command inside `Update` holds the lock, that
its copy is the current config until it edits it, and that at `Save` the copy is
the current config with its own change (`OwnChange`). From that `Save` is a step
of `ProfileStore`. `TokenInv` adds that a login about to save has put its
organization's token where the profile will look (`PutOwnToken`). It is needed
because the keychain is written first: at that moment the name is free or
already the organization's, and nobody else can save it while the lock is held;
a late `DeleteToken` only takes tokens away. `QuietInv` is for behaviours in which
nobody logs out: no profile is without a token, what a login put is still there when
it saves (`PutLatest`), and the name a request has read still belongs to the
organization it read (`NamedOrg`), as no edit moves a name from one to another.

**Invocation.** The properties are about `applied`, which outlives a run, so each
invariant says what is left of the run once a step was carried out. `DryInv`: past
`getClient` the flag is in the client. `ConsentInv`: past a gate the run has one of
the flags that opened it. `OnceInv`: once the write may have been carried out,
and not behind a 408 or 5xx, that was once, the run is past it with `sent` noted, and
a run that has ended has a report that invites nothing. `SuccessInv`: a run that is not a preview has carried out
every write it is past. `ListInv`: past the first page of a list nothing is left but
the list and the result, so a partial list and a result never both come out.

**Questions.** `AskInv`: whoever put the question had found the list empty and is
past `Record`, which under the lock lets one login of each agent through.
`AnswerInv`: of a login whose reader could drop every line, none typed early is left
when the question is put. `DayInv` with `CalmInv`: at most one command is between the
read and the write of a file, the file is torn only in its hands, and today's prompt
is in the file or in the hands of the command that asks.

**Skills.** `EditInv` is the property with what a run holds: the copy it is about to
write is no edit that must be kept, unless under `--force` (`WriteSafe`), and neither
is what has the `.retired` name it has chosen (`RenameSafe`). Both hold of what the
run saw; the history variable `excused` is exactly what makes them true still.
`RunInv` is `TypeOK` with what the provers need of the lists: each item is a copy of a
skill in one of the folders or an old skill in one of the home directory, and the first
one fits where the run is (`AtWork`), so its path resolves to a file. `InsideInv`: an
install has looked at all its paths before the first write, so every copy it has still
to make is one it may make (`Allowed`), and a run that writes is at such a file; an
update looks at each path as it comes to it, and a file that a home folder leads to as
well is not protected. `RetireInv`: as long as an install has nothing amiss to report,
each old skill is in its list to be retired, or the skill that replaces it is in its
list to be copied, or it is gone (`Gone`). What is gone stays so, because a run that
writes is at a copy (`WriterAtCopy`) and anyone else leaves a trace in `again`; at the
end the list is empty, which leaves the third case alone.

**Streams.** `VerdictInv`: of simulate's checks the one that fails is the last; past
the loop every frame has been sent unless Ctrl-C ended it; a verdict on the counts
comes after the reader has left. `BlameInv`: as long as the endpoint has done nothing,
reads in time and nobody pressed Ctrl-C, no end is dropped, no copier has ended, and
the reader is not stopped before the probe closes. `TypeOK` needs `CountInv`: the
frames read and those on their way, in the queues or in the hands of the bridge's
copier, are together at most what the endpoint has sent. Which end can still take
something, and that each step moves a frame and makes none, is what its lemmas say.
`CallsAreFinite` is the half of `CallsEnd` that needs no fairness: `Ahead`, a number,
falls with every step. It is the sum of what is left of the probe, of the frames not
yet sent and of those on their way (a frame for the bridge is worth more than the same
frame past it), of the ends still up, and of the copiers and the reader; the close
frame that a dropped end leaves behind is worth less than the end was. So nobody goes
round in circles, for any number of frames, and what is left to `CallsEnd` is that
nobody waits for ever.

**SipTrunks.** `EveryOffset` says that the rows of a list have the offsets 0, 1, 2 and
so on (an injection between finite sets of one size is onto), so a page is empty only
behind the last row, and a dependent that is at or behind the page's first row and not
on the page is behind the page (`BehindPage`). `StayBehind` is what a change of the
list may do: as long as no row before the walk's offset leaves, the rows behind it
stay behind. `SpareInv` is the walk with these: as long as it has found nothing,
every steady dependent is still ahead of it, in this list or in the next. For a URI
the filter makes every row a dependent, so a walk that has found nothing has read
nothing, and nothing can have moved past it; only the walk over numbers, which reads
rows of others, needs the exception in `UnforcedSpares`. `ReportInv`: an ID is not
given twice, so a trunk that answers 404 stays gone. `StoredInv`: what an update has
read is what the trunk is, while somebody else has not changed it.

**Upgrade.** `UpgradeInv` is `TypeOK`, `BinaryWhole`, and: at most one upgrade
works (`OneWorks`); the open file is the one called tmp (`OpenIsTmp`), so a write
cannot reach the binary; the binary is what the upgrade started from until it is
replaced (`CurrentKept`), which an upgrade that fails leaves; and after the checks
tmp is the whole release and trusted (`VerifiedKept`), which the rename
installs. Without the last two the halves of `VerdictIsTrue`, which are theorems of
their own (`DoneInstalled`, `FailedUnchanged`), do not follow from what a single step sees.
When upgrades overlap only `TypeOK` is left of this, as `upgrade_overlap` shows, and
`OverlapInv` says what else holds. Only a rename of a file that is there reaches the
binary's name, so off Windows it is never missing (`NeverMissing`); and what an upgrade
was told and found out about its release's signature is its own (`ChecksAreOwn`),
whatever became of the file. For `TypeOK` an upgrade that creates tmp must find an unused
inode: the other two names and the upgrades can use at most two inodes and one each, and
there is one more.

**Model-checked only.** Liveness (`TunnelLossRestores`, `CommandsEnd`, `CallsEnd`)
rests on fairness and so on ENABLED, which this version of the proof system does not
reason about. Every invariant and every other action property of the runs is a theorem.

## 6. What is not modelled

Within the modelled systems:

- *Forward*: the signature check and the webhook of serving, and more than one
  application, since state file and API object are per application.
- *Credentials*: TOML and file modes; environment variables and flags that
  replace the profile; `--dry-run`, which reads once and changes nothing. Without
  locks two commands lose changes, as `lock_other.go:10` accepts; what still holds
  then is `ActiveExists`.
- *Invocation*: URLs, bodies and headers; the output formats; the sums of account
  usage. `sip test` and the connection guides are probes and text.
- *Questions*: which agent a run is in; the feedback command's own questions and its
  event; version comparison and the response header that replaces the hint. A line
  typed ahead that the rating prompt's reader buffers and drops.
- *Skills*: `skill list` and `skill --print`, which write nothing; the digests, which
  are classes here.
- *Streams*: codecs, pacing and the text of the XML; each check is a choice of its
  outcome. The caller ignores the error the bridge returns, so the model has none.
- *SipTrunks*: creates (one POST), URI and credential updates (one POST, with the
  stored username carried along), parsing of IDs.
- *Upgrade*: `--check` and `--dry-run`, the Homebrew refusal, and two upgrades at once
  on Windows, where each also locks the other's files. Files are durable once written:
  the code does not sync the download before the rename (`upgrade.go:164`), and what a
  power cut leaves then depends on the file system.

Three hazards have no property: the two above that rest on what a file system does
(`config.go:250`, `upgrade.go:164`), and a support stream that ends cleanly but early
(`buddy.go:452`). The components left out are in section 1 with the reason. Pure
functions and formatting are left out because a unit test reaches all they can do.

## 7. The plan

1. `Buddy`: the event stream, what is kept of it in the session's history, and the
   stream that ends before its last event. Property: the history holds what was
   shown, and a cut stream is told from a finished one.
2. The sums of account usage over pages, as a recursive function against a reference.
