---------------------------- MODULE Credentials ----------------------------
(***************************************************************************)
(* Commands that share ~/.plivo/config.toml and the OS keychain: login,    *)
(* logout and auth remove, auth use, config telemetry, and any command     *)
(* that reads the credentials to send a request.  The config changes only  *)
(* through config.Update, which holds a lock on ~/.plivo/config.lock; the  *)
(* keychain is written inside it by login and outside it by logout.        *)
(*                                                                         *)
(* Organizations whose names give one slug are modelled, the case in which *)
(* a login has to pick another profile name: name i stands for the slug    *)
(* with the suffix -i, and name 1 for the slug itself.  A file is replaced *)
(* by a rename, so reading and saving it are one step each.                *)
(***************************************************************************)
EXTENDS Naturals, FiniteSets

CONSTANTS
    Cmd,        \* invocations of the CLI, one process each
    Org,        \* organizations that log in
    MaxName,    \* bound: suffixes tried for a profile name
    Kinds,      \* the commands an instance runs
    Locks,      \* does the file system take locks (lock_unix.go, lock_other.go)
    MaxLive,    \* bound: commands running at the same time
    MaxKills,   \* bound: commands killed
    Earlier,    \* the commands before these
    NoConfig,   \* no config in hand
    NoName, NoOrg, NoToken, Nobody

Name == 1..MaxName
Token == [org : Org, by : Cmd \cup {Earlier}]

VARIABLES
    config,     \* ~/.plivo/config.toml
    keychain,   \* the token the OS keychain holds for each profile name
    holder,     \* the command that holds ~/.plivo/config.lock
    pc,         \* where each command is
    job,        \* what it was asked, with the profile name it settled on
    copy,       \* the config it read and edits
    sent,       \* the token a request carries
    kills

vars == <<config, keychain, holder, pc, job, copy, sent, kills>>

Store == INSTANCE ProfileStore WITH config <- config

ASSUME CredentialsAssumption ==
    /\ MaxName \in Nat \ {0}
    /\ Kinds \subseteq {"login", "logout", "use", "telemetry", "request"}
    /\ Locks \in BOOLEAN /\ MaxLive \in Nat /\ MaxKills \in Nat
    /\ NoName \notin Name /\ NoOrg \notin Org /\ NoToken \notin Token
    /\ Nobody \notin Cmd /\ NoConfig \notin Store!Config

Job == [kind : Kinds \cup {"none"}, name : Name \cup {NoName}, org : Org \cup {NoOrg}, on : BOOLEAN]
NoJob == [kind |-> "none", name |-> NoName, org |-> NoOrg, on |-> TRUE]

Stages == {"idle", "lock", "load", "change", "save", "saved", "refused", "forget",
           "token", "done", "killed"}

TypeOK ==
    /\ config \in Store!Config
    /\ keychain \in [Name -> Token \cup {NoToken}]
    /\ holder \in Cmd \cup {Nobody}
    /\ pc \in [Cmd -> Stages]
    /\ job \in [Cmd -> Job]
    /\ copy \in [Cmd -> Store!Config \cup {NoConfig}]
    /\ sent \in [Cmd -> Token \cup {NoToken}]
    /\ kills \in 0..MaxKills

Live(c) == pc[c] \notin {"idle", "done", "killed"}
Goto(c, stage) == pc' = [pc EXCEPT ![c] = stage]

\* The token profileWithToken finds: inline before the keychain's.
TokenOf(n) == IF config.profiles[n].token # NoToken THEN config.profiles[n].token ELSE keychain[n]
HasToken(n) == Store!Has(config, n) => TokenOf(n) # NoToken
OwnToken(n) ==
    Store!Has(config, n) /\ TokenOf(n) # NoToken => TokenOf(n).org = config.profiles[n].org

\* A token as a login of command c gets it from the auth server.
Redeemed(c) == [org |-> job[c].org, by |-> c]

\* As earlier commands leave it.  A token in the config is one the keychain
\* did not take; a token without a profile is one it did not give up.
Left == [org : Org, by : {Earlier}]

Init ==
    /\ config \in [active : Name \cup {NoName}, telemetry : {TRUE},
                  profiles : [Name -> [org : Org, token : Left \cup {NoToken}] \cup {Store!NoProfile}]]
    /\ Store!ActiveNamesProfile
    /\ keychain \in [Name -> Left \cup {NoToken}]
    /\ \A n \in Name : HasToken(n) /\ OwnToken(n)
    /\ holder = Nobody
    /\ pc = [c \in Cmd |-> "idle"]
    /\ job = [c \in Cmd |-> NoJob]
    /\ copy = [c \in Cmd |-> NoConfig]
    /\ sent = [c \in Cmd |-> NoToken]
    /\ kills = 0

-----------------------------------------------------------------------------
(* config.Update *)

\* A command starts with its arguments.  A login has its credentials by then.
Start(c) ==
    /\ pc[c] = "idle"
    /\ Cardinality({d \in Cmd : Live(d)}) < MaxLive
    /\ \E j \in Job :
        /\ j.kind \in Kinds
        /\ j.kind = "login" <=> j.org # NoOrg
        /\ j.kind = "use" => j.name # NoName
        /\ j.kind = "telemetry" => j.name = NoName
        /\ j.kind # "telemetry" => j.on = TRUE
        /\ job' = [job EXCEPT ![c] = j]
        /\ Goto(c, IF j.kind = "request" THEN "load" ELSE "lock")
    /\ UNCHANGED <<config, keychain, holder, copy, sent, kills>>

\* Mutant: a held lock does not stop the command.
TakeLock_Held(c) ==
    /\ pc[c] = "lock"
    /\ holder' = IF Locks THEN c ELSE holder
    /\ Goto(c, "load")
    /\ UNCHANGED <<config, keychain, job, copy, sent, kills>>

\* lockWithin: where no locks are taken the command goes on without.
TakeLock(c) ==
    /\ pc[c] = "lock"
    /\ IF Locks THEN holder = Nobody /\ holder' = c ELSE UNCHANGED holder
    /\ Goto(c, "load")
    /\ UNCHANGED <<config, keychain, job, copy, sent, kills>>

\* Mutant: a held lock is waited for without end.
GiveUp_Never(c) == FALSE /\ UNCHANGED vars

\* lockWait has passed and another command still holds the lock.
GiveUp(c) ==
    /\ pc[c] = "lock"
    /\ Locks /\ holder # Nobody
    /\ Goto(c, "done")
    /\ UNCHANGED <<config, keychain, holder, job, copy, sent, kills>>

\* The config in hand goes out of scope.
Returns(c, stage) ==
    /\ copy' = [copy EXCEPT ![c] = NoConfig]
    /\ Goto(c, stage)

\* The file may not be read or not be parsed, which ends the change here.
Load(c) ==
    /\ pc[c] = "load" /\ job[c].kind # "request"
    /\ \/ copy' = [copy EXCEPT ![c] = config] /\ Goto(c, "change")
       \/ UNCHANGED copy /\ Goto(c, "refused")
    /\ UNCHANGED <<config, keychain, holder, job, sent, kills>>

\* Save: the rename.
Save(c) ==
    /\ pc[c] = "save"
    /\ config' = copy[c]
    /\ Returns(c, "saved")
    /\ UNCHANGED <<keychain, holder, job, sent, kills>>

\* Mutant: the file is written in place, and a failed write leaves half of it.
SaveFails_HalfWritten(c) ==
    /\ pc[c] = "save"
    /\ config' = NoConfig
    /\ Returns(c, "refused")
    /\ UNCHANGED <<keychain, holder, job, sent, kills>>

\* A failed write or rename leaves the file as it was.
SaveFails(c) ==
    /\ pc[c] = "save"
    /\ Returns(c, "refused")
    /\ UNCHANGED <<config, keychain, holder, job, sent, kills>>

\* Update returns.  Only a logout goes on.
Unlock(c) ==
    /\ pc[c] \in {"saved", "refused"}
    /\ holder' = IF holder = c THEN Nobody ELSE holder
    /\ Goto(c, IF pc[c] = "saved" /\ job[c].kind = "logout" THEN "forget" ELSE "done")
    /\ UNCHANGED <<config, keychain, job, copy, sent, kills>>

-----------------------------------------------------------------------------
(* The changes *)

Edits(c, cfg) ==
    /\ copy' = [copy EXCEPT ![c] = cfg]
    /\ Goto(c, "save")

\* Mutant: the name is not checked against the organization that has it.
Picks_AnyName(c, n) == n = IF job[c].name = NoName THEN 1 ELSE job[c].name

\* persistProfile's name: the one asked for, or else the first suffix of the
\* slug; either way free or already this organization's.
Picks(c, n) ==
    /\ Store!FreeFor(copy[c], n, job[c].org)
    /\ IF job[c].name # NoName
       THEN n = job[c].name
       ELSE \A m \in Name : m < n => ~Store!FreeFor(copy[c], m, job[c].org)

\* Mutants: the token is lost when the keychain refuses it; the profile that
\* is there is edited, with whatever token it had inline.
NewProfile_NoFallback(c, n, taken) == [org |-> job[c].org, token |-> NoToken]
NewProfile_EditsInPlace(c, n, taken) ==
    [org |-> job[c].org, token |-> IF taken THEN copy[c].profiles[n].token ELSE Redeemed(c)]

\* The token is in the keychain, or inline when the keychain did not take it.
NewProfile(c, n, taken) ==
    [org |-> job[c].org, token |-> IF taken THEN NoToken ELSE Redeemed(c)]

PersistProfile(c) ==
    /\ pc[c] = "change" /\ job[c].kind = "login"
    /\ \E n \in Name, taken \in BOOLEAN :
        /\ Picks(c, n)
        /\ job' = [job EXCEPT ![c].name = n]
        /\ keychain' = IF taken THEN [keychain EXCEPT ![n] = Redeemed(c)] ELSE keychain
        /\ Edits(c, Store!WithProfile(copy[c], n, NewProfile(c, n, taken)))
    /\ UNCHANGED <<config, holder, sent, kills>>

\* logout and auth remove; with no name the active profile is meant.
Leaving(c) == IF job[c].name = NoName THEN copy[c].active ELSE job[c].name
Leaves(c) == Leaving(c) # NoName /\ Store!Has(copy[c], Leaving(c))

RemoveProfile(c) ==
    /\ pc[c] = "change" /\ job[c].kind = "logout"
    /\ Leaves(c)
    /\ job' = [job EXCEPT ![c].name = Leaving(c)]
    /\ Edits(c, Store!Without(copy[c], Leaving(c)))
    /\ UNCHANGED <<config, keychain, holder, sent, kills>>

UseProfile(c) ==
    /\ pc[c] = "change" /\ job[c].kind = "use"
    /\ Store!Has(copy[c], job[c].name)
    /\ Edits(c, Store!Activated(copy[c], job[c].name))
    /\ UNCHANGED <<config, keychain, holder, job, sent, kills>>

SetTelemetry(c) ==
    /\ pc[c] = "change" /\ job[c].kind = "telemetry"
    /\ Edits(c, Store!Telemetry(copy[c], job[c].on))
    /\ UNCHANGED <<config, keychain, holder, job, sent, kills>>

\* The change returns an error: a name another organization has, no such
\* profile, no active one.
Refuse(c) ==
    /\ pc[c] = "change"
    /\ \/ /\ job[c].kind = "login" /\ job[c].name # NoName
          /\ ~Store!FreeFor(copy[c], job[c].name, job[c].org)
       \/ job[c].kind = "logout" /\ ~Leaves(c)
       \/ job[c].kind = "use" /\ ~Store!Has(copy[c], job[c].name)
    /\ Returns(c, "refused")
    /\ UNCHANGED <<config, keychain, holder, job, sent, kills>>

\* Once the profile is gone: DeleteToken, whose error is dropped.
DeleteToken(c) ==
    /\ pc[c] = "forget"
    /\ keychain' \in {keychain, [keychain EXCEPT ![job[c].name] = NoToken]}
    /\ Goto(c, "done")
    /\ UNCHANGED <<config, holder, job, copy, sent, kills>>

-----------------------------------------------------------------------------
(* A request's credentials *)

\* Resolve's Load, which may fail, and the named or the active profile, with the
\* inline token.
ResolveProfile(c) ==
    /\ pc[c] = "load" /\ job[c].kind = "request"
    /\ LET n == IF job[c].name = NoName THEN config.active ELSE job[c].name IN
       \/ Goto(c, "done") /\ UNCHANGED <<job, sent>>      \* no config, or no such profile
       \/ /\ n # NoName /\ Store!Has(config, n)
          /\ job' = [job EXCEPT ![c] = [@ EXCEPT !.name = n, !.org = config.profiles[n].org]]
          /\ sent' = [sent EXCEPT ![c] = config.profiles[n].token]
          /\ Goto(c, IF config.profiles[n].token = NoToken THEN "token" ELSE "done")
    /\ UNCHANGED <<config, keychain, holder, copy, kills>>

\* GetToken, read after the config; without a token nothing is sent.
GetToken(c) ==
    /\ pc[c] = "token"
    /\ sent' \in {sent, [sent EXCEPT ![c] = keychain[job[c].name]]}
    /\ Goto(c, "done")
    /\ UNCHANGED <<config, keychain, holder, job, copy, kills>>

-----------------------------------------------------------------------------
\* The process ends; the lock goes with it.
Kill(c) ==
    /\ Live(c) /\ kills < MaxKills
    /\ kills' = kills + 1
    /\ Returns(c, "killed")
    /\ holder' = IF holder = c THEN Nobody ELSE holder
    /\ UNCHANGED <<config, keychain, job, sent>>

Change(c) ==
    \/ PersistProfile(c) \/ RemoveProfile(c) \/ UseProfile(c) \/ SetTelemetry(c) \/ Refuse(c)

Update(c) == TakeLock(c) \/ GiveUp(c) \/ Load(c) \/ Save(c) \/ SaveFails(c) \/ Unlock(c)

Next ==
    \E c \in Cmd :
        \/ Start(c) \/ Update(c) \/ Change(c) \/ DeleteToken(c)
        \/ ResolveProfile(c) \/ GetToken(c) \/ Kill(c)

Spec == Init /\ [][Next]_vars

\* A call to the OS keychain may ask its user and wait, so no fairness is
\* assumed of the steps that make one; every other step is the program's own.
Fairness ==
    \A c \in Cmd : WF_vars(Update(c)) /\ WF_vars(Change(c) /\ job[c].kind # "login")

FairSpec == Spec /\ Fairness

-----------------------------------------------------------------------------
(* Properties *)

\* With locks, config.Update is what ProfileStore says of it: no command saves
\* over a change another made after it read the config, none saves under a
\* name another organization took meanwhile.
ImplementsStore == Store!Spec

\* The active profile exists, even where two changes at once lose one: what a
\* command saves is one whole config, edited.
ActiveNamesProfile == Store!ActiveNamesProfile

\* With locks, whatever the keychain refuses and wherever commands are killed,
\* the token a profile resolves to is one its own organization was given.
TokensAreOwn == \A n \in Name : OwnToken(n)

NobodyLogsOut == \A c \in Cmd : job[c].kind # "logout"

\* While nobody logs out, no kill and no refusal of the keychain leaves a
\* profile without a token, so no login has to be repeated.
EveryProfileHasToken == NobodyLogsOut => \A n \in Name : HasToken(n)

\* While nobody logs out, a login that has saved its profile is the one that
\* requests under this name use from then on, also when an earlier login left
\* its token inline or in the keychain.
LatestLoginUsed ==
    [][\A c \in Cmd :
         NobodyLogsOut /\ job[c].kind = "login" /\ pc[c] = "save" /\ pc'[c] = "saved"
           => TokenOf(job[c].name)' = Redeemed(c)]_vars

\* The config and the keychain are read one after the other, without the lock.
\* While nobody logs out, a request still goes out with one organization's
\* auth_id and token.
RequestsUseOwnToken ==
    NobodyLogsOut =>
        \A c \in Cmd : job[c].kind = "request" /\ sent[c] # NoToken => sent[c].org = job[c].org

\* The keychain may hold a login, with the lock, as long as its user lets it.
\* Every other command still ends: it gives up on the lock.
CommandsEnd ==
    \A c \in Cmd : pc[c] = "lock" ~>
        pc[c] \in {"done", "killed", "forget"} \/ (pc[c] = "change" /\ job[c].kind = "login")

\* runLogout and runAuthRemove delete the keychain token "once the profile is
\* gone" (cmd/login.go:310, cmd/auth.go:136).
DeletedOnceGone ==
    [][\A n \in Name : keychain[n] # NoToken /\ keychain'[n] = NoToken
          => ~Store!Has(config, n)]_vars
=============================================================================
