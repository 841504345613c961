------------------------- MODULE CredentialsProofs -------------------------
(***************************************************************************)
(* What holds of Credentials for every number of commands, organizations   *)
(* and profile names, however they interleave and wherever they are        *)
(* killed.  With locks, the commands implement ProfileStore.               *)
(***************************************************************************)
EXTENDS Credentials, TLAPS

USE CredentialsAssumption

(***************************************************************************)
(* What each stage has in hand.                                            *)
(***************************************************************************)
Equipped ==
    \A c \in Cmd :
        /\ job[c].kind = "login" => job[c].org \in Org
        /\ job[c].kind = "use" => job[c].name \in Name
        /\ pc[c] = "token" => job[c].name \in Name
        /\ pc[c] \in {"change", "save"} => copy[c] \in Store!Config

TypeInv == TypeOK /\ Equipped

\* The three changes give a config when they are given one.
LEMMA ChangeTypes ==
    ASSUME NEW cfg \in Store!Config, NEW n \in Name
    PROVE  /\ \A p \in Store!Profile : Store!WithProfile(cfg, n, p) \in Store!Config
           /\ Store!Without(cfg, n) \in Store!Config
           /\ Store!Activated(cfg, n) \in Store!Config
           /\ \A on \in BOOLEAN : Store!Telemetry(cfg, on) \in Store!Config
  BY DEF Store!Config, Store!Profile, Store!WithProfile, Store!Without, Store!Activated,
         Store!Telemetry, Store!NoProfile

LEMMA TypeInvInit == Init => TypeInv
<1> SUFFICES ASSUME Init PROVE TypeInv
  OBVIOUS
<1> USE DEF Init
<1>1. Left \subseteq Token
  BY DEF Left, Token
<1>2. config \in Store!Config
  <2>1. [org : Org, token : Left \cup {NoToken}] \cup {Store!NoProfile} \subseteq Store!Profile
    BY <1>1 DEF Store!Profile
  <2> QED
    BY <2>1 DEF Store!Config
<1>3. keychain \in [Name -> Token \cup {NoToken}]
  BY <1>1
<1>4. job \in [Cmd -> Job]
  BY DEF Job, NoJob
<1>5. TypeOK
  BY <1>2, <1>3, <1>4 DEF TypeOK, Stages
<1>6. Equipped
  BY DEF Equipped, NoJob
<1> QED
  BY <1>5, <1>6 DEF TypeInv

LEMMA TypeInvStep == TypeInv /\ [Next]_vars => TypeInv'
<1> USE DEF TypeInv, TypeOK, Equipped, Stages, Goto, Returns, Edits
<1> SUFFICES ASSUME TypeInv, [Next]_vars PROVE TypeInv'
  OBVIOUS
<1>1. ASSUME NEW c \in Cmd, Start(c) PROVE TypeInv'
  <2> PICK j \in Job :
        /\ j.kind \in Kinds
        /\ j.kind = "login" <=> j.org # NoOrg
        /\ j.kind = "use" => j.name # NoName
        /\ job' = [job EXCEPT ![c] = j]
        /\ Goto(c, IF j.kind = "request" THEN "load" ELSE "lock")
    BY <1>1 DEF Start
  <2> QED
    BY <1>1 DEF Start, Job
<1>2. ASSUME NEW c \in Cmd, TakeLock(c) \/ GiveUp(c) \/ Load(c) PROVE TypeInv'
  BY <1>2 DEF TakeLock, GiveUp, Load
<1>3. ASSUME NEW c \in Cmd, Save(c) \/ SaveFails(c) \/ Unlock(c) PROVE TypeInv'
  BY <1>3 DEF Save, SaveFails, Unlock
<1>4. ASSUME NEW c \in Cmd, PersistProfile(c) PROVE TypeInv'
  <2>1. Redeemed(c) \in Token
    BY <1>4 DEF PersistProfile, Redeemed, Token
  <2>2. PICK n \in Name, taken \in BOOLEAN :
          /\ job' = [job EXCEPT ![c].name = n]
          /\ keychain' = IF taken THEN [keychain EXCEPT ![n] = Redeemed(c)] ELSE keychain
          /\ Edits(c, Store!WithProfile(copy[c], n, NewProfile(c, n, taken)))
    BY <1>4 DEF PersistProfile
  <2>3. NewProfile(c, n, taken) \in Store!Profile
    BY <1>4, <2>1 DEF PersistProfile, NewProfile, Store!Profile
  <2>4. Store!WithProfile(copy[c], n, NewProfile(c, n, taken)) \in Store!Config
    BY <1>4, <2>3, ChangeTypes DEF PersistProfile
  <2>5. job' \in [Cmd -> Job] /\ \A d \in Cmd : job'[d].kind = job[d].kind /\ job'[d].org = job[d].org
    BY <2>2 DEF Job
  <2>6. \A d \in Cmd \ {c} : job'[d] = job[d]
    BY <2>2
  <2>7. keychain' \in [Name -> Token \cup {NoToken}]
    BY <2>1, <2>2
  <2>8. TypeOK'
    BY <1>4, <2>2, <2>4, <2>5, <2>7 DEF PersistProfile
  <2>9. Equipped'
    BY <1>4, <2>2, <2>4, <2>5, <2>6 DEF PersistProfile
  <2> QED
    BY <2>8, <2>9
<1>5. ASSUME NEW c \in Cmd, RemoveProfile(c) PROVE TypeInv'
  <2>1. Leaving(c) \in Name
    BY <1>5 DEF RemoveProfile, Leaves, Leaving, Job, Store!Config
  <2>2. Store!Without(copy[c], Leaving(c)) \in Store!Config
    BY <1>5, <2>1, ChangeTypes DEF RemoveProfile
  <2> QED
    BY <1>5, <2>1, <2>2 DEF RemoveProfile, Job
<1>6. ASSUME NEW c \in Cmd, UseProfile(c) PROVE TypeInv'
  <2>1. Store!Activated(copy[c], job[c].name) \in Store!Config
    BY <1>6, ChangeTypes DEF UseProfile
  <2> QED
    BY <1>6, <2>1 DEF UseProfile
<1>7. ASSUME NEW c \in Cmd, SetTelemetry(c) PROVE TypeInv'
  <2>1. Store!Telemetry(copy[c], job[c].on) \in Store!Config
    BY <1>7 DEF SetTelemetry, Store!Config, Store!Telemetry, Job
  <2> QED
    BY <1>7, <2>1 DEF SetTelemetry
<1>8. ASSUME NEW c \in Cmd, Refuse(c) \/ DeleteToken(c) \/ Kill(c) PROVE TypeInv'
  BY <1>8 DEF Refuse, DeleteToken, Kill
<1>9. ASSUME NEW c \in Cmd, ResolveProfile(c) PROVE TypeInv'
  <2> DEFINE n == IF job[c].name = NoName THEN config.active ELSE job[c].name
  <2>1. CASE Goto(c, "done") /\ UNCHANGED <<job, sent>>
    BY <1>9, <2>1 DEF ResolveProfile
  <2>2. CASE n # NoName /\ Store!Has(config, n) /\ ~(Goto(c, "done") /\ UNCHANGED <<job, sent>>)
    <3>1. n \in Name
      BY <2>2 DEF Store!Config, Job
    <3>2. config.profiles[n].org \in Org /\ config.profiles[n].token \in Token \cup {NoToken}
      BY <2>2, <3>1 DEF Store!Has, Store!Config, Store!Profile
    <3>3. /\ job' = [job EXCEPT ![c] = [@ EXCEPT !.name = n, !.org = config.profiles[n].org]]
          /\ sent' = [sent EXCEPT ![c] = config.profiles[n].token]
          /\ Goto(c, IF config.profiles[n].token = NoToken THEN "token" ELSE "done")
          /\ job[c].kind = "request"
          /\ UNCHANGED <<config, keychain, holder, copy, kills>>
      BY <1>9, <2>2 DEF ResolveProfile
    <3> HIDE DEF n
    <3>4. [job[c] EXCEPT !.name = n, !.org = config.profiles[n].org] \in Job
      <4>1. job[c] \in Job
        OBVIOUS
      <4> QED
        BY <4>1, <3>1, <3>2 DEF Job
    <3>5. job' \in [Cmd -> Job]
      BY <3>3, <3>4
    <3>6. \A d \in Cmd \ {c} : job'[d] = job[d]
      BY <3>3
    <3>7. job'[c] = [job[c] EXCEPT !.name = n, !.org = config.profiles[n].org]
      BY <3>3
    <3>8. job'[c].name = n /\ job'[c].kind = "request"
      BY <3>3, <3>7 DEF Job
    <3>9. TypeOK'
      BY <3>2, <3>3, <3>5
    <3>10. Equipped'
      BY <3>1, <3>3, <3>6, <3>8
    <3> QED
      BY <3>9, <3>10
  <2> QED
    BY <1>9, <2>1, <2>2 DEF ResolveProfile
<1>10. ASSUME NEW c \in Cmd, GetToken(c) PROVE TypeInv'
  BY <1>10 DEF GetToken
<1>11. ASSUME UNCHANGED vars PROVE TypeInv'
  BY <1>11 DEF vars
<1> QED
  BY <1>1, <1>2, <1>3, <1>4, <1>5, <1>6, <1>7, <1>8, <1>9, <1>10, <1>11
     DEF Next, Update, Change

(***************************************************************************)
(* The config read, edited and saved is always one of ProfileStore's, and  *)
(* the keychain holds tokens.                                              *)
(***************************************************************************)
THEOREM TypeCorrect == Spec => []TypeOK
<1>1. TypeInv => TypeOK
  BY DEF TypeInv
<1> QED
  BY <1>1, TypeInvInit, TypeInvStep, PTL DEF Spec

(***************************************************************************)
(* Whatever is saved was read whole and edited whole, so an active profile *)
(* exists even where two unlocked commands lose a change.                  *)
(***************************************************************************)
Whole(cfg) == cfg.active # NoName => Store!Has(cfg, cfg.active)

WholeInv ==
    /\ Whole(config)
    /\ \A c \in Cmd : pc[c] \in {"change", "save"} => Whole(copy[c])

LEMMA ChangesKeepWhole ==
    ASSUME NEW cfg \in Store!Config, Whole(cfg), NEW n \in Name
    PROVE  /\ \A o \in Org, t \in Token \cup {NoToken} :
                Whole(Store!WithProfile(cfg, n, [org |-> o, token |-> t]))
           /\ Whole(Store!Without(cfg, n))
           /\ Store!Has(cfg, n) => Whole(Store!Activated(cfg, n))
<1>1. ASSUME NEW o \in Org, NEW t \in Token \cup {NoToken}
      PROVE  Whole(Store!WithProfile(cfg, n, [org |-> o, token |-> t]))
  <2>1. [org |-> o, token |-> t] # Store!NoProfile
    BY DEF Store!NoProfile
  <2> QED
    BY <2>1 DEF Whole, Store!Has, Store!Config, Store!WithProfile
<1>2. Whole(Store!Without(cfg, n))
  BY DEF Whole, Store!Has, Store!Config, Store!Without
<1>3. Store!Has(cfg, n) => Whole(Store!Activated(cfg, n))
  BY DEF Whole, Store!Has, Store!Config, Store!Activated
<1> QED
  BY <1>1, <1>2, <1>3

LEMMA WholeStep == TypeInv /\ WholeInv /\ [Next]_vars => WholeInv'
<1> USE DEF WholeInv, TypeInv, TypeOK, Stages, Goto, Returns, Edits
<1> SUFFICES ASSUME TypeInv, WholeInv, [Next]_vars PROVE WholeInv'
  OBVIOUS
<1>1. ASSUME NEW c \in Cmd, Start(c) \/ TakeLock(c) \/ GiveUp(c) \/ Unlock(c) \/ DeleteToken(c)
      PROVE  WholeInv'
  BY <1>1 DEF Start, TakeLock, GiveUp, Unlock, DeleteToken
<1>2. ASSUME NEW c \in Cmd, Load(c) PROVE WholeInv'
  BY <1>2 DEF Load
<1>3. ASSUME NEW c \in Cmd, Save(c) PROVE WholeInv'
  BY <1>3 DEF Save
<1>4. ASSUME NEW c \in Cmd, SaveFails(c) \/ Refuse(c) \/ Kill(c) PROVE WholeInv'
  BY <1>4 DEF SaveFails, Refuse, Kill
<1>5. ASSUME NEW c \in Cmd, PersistProfile(c) PROVE WholeInv'
  <2>1. PICK n \in Name, taken \in BOOLEAN :
          Edits(c, Store!WithProfile(copy[c], n, NewProfile(c, n, taken)))
    BY <1>5 DEF PersistProfile
  <2>2. job[c].org \in Org /\ Redeemed(c) \in Token /\ copy[c] \in Store!Config /\ Whole(copy[c])
    BY <1>5 DEF PersistProfile, Equipped, Redeemed, Token
  <2>3. Whole(Store!WithProfile(copy[c], n, NewProfile(c, n, taken)))
    BY <2>2, ChangesKeepWhole DEF NewProfile
  <2> QED
    BY <1>5, <2>1, <2>3 DEF PersistProfile
<1>6. ASSUME NEW c \in Cmd, RemoveProfile(c) PROVE WholeInv'
  <2>1. Leaving(c) \in Name
    BY <1>6 DEF RemoveProfile, Leaves, Leaving, Job, Store!Config, Equipped
  <2>2. Whole(Store!Without(copy[c], Leaving(c)))
    BY <1>6, <2>1, ChangesKeepWhole DEF RemoveProfile, Equipped
  <2> QED
    BY <1>6, <2>2 DEF RemoveProfile
<1>7. ASSUME NEW c \in Cmd, UseProfile(c) PROVE WholeInv'
  <2>1. Whole(Store!Activated(copy[c], job[c].name))
    BY <1>7, ChangesKeepWhole DEF UseProfile, Equipped
  <2> QED
    BY <1>7, <2>1 DEF UseProfile
<1>8. ASSUME NEW c \in Cmd, SetTelemetry(c) PROVE WholeInv'
  <2>1. Whole(Store!Telemetry(copy[c], job[c].on))
    BY <1>8 DEF SetTelemetry, Equipped, Whole, Store!Telemetry, Store!Has, Store!Config
  <2> QED
    BY <1>8, <2>1 DEF SetTelemetry
<1>9. ASSUME NEW c \in Cmd, ResolveProfile(c) \/ GetToken(c) PROVE WholeInv'
  BY <1>9 DEF ResolveProfile, GetToken
<1>10. ASSUME UNCHANGED vars PROVE WholeInv'
  BY <1>10 DEF vars
<1> QED
  BY <1>1, <1>2, <1>3, <1>4, <1>5, <1>6, <1>7, <1>8, <1>9, <1>10 DEF Next, Update, Change

(***************************************************************************)
(* The active profile exists, with or without locks.                       *)
(***************************************************************************)
THEOREM ActiveExists == Spec => []ActiveNamesProfile
<1>1. Init => WholeInv
  BY DEF Init, WholeInv, Whole, Store!ActiveNamesProfile
<1>2. WholeInv => ActiveNamesProfile
  BY DEF WholeInv, Whole, ActiveNamesProfile, Store!ActiveNamesProfile
<1> QED
  BY <1>1, <1>2, TypeInvInit, TypeInvStep, WholeStep, PTL DEF Spec

-----------------------------------------------------------------------------
(***************************************************************************)
(* With locks: a command inside config.Update holds the lock, the config   *)
(* it edits is the one on disk, and what it is about to save is the config *)
(* on disk with its own change.                                            *)
(***************************************************************************)
Updating(c) ==
    pc[c] \in {"load", "change", "save", "saved", "refused"} /\ job[c].kind # "request"

OwnChange(c) ==
    \/ /\ job[c].kind = "login" /\ job[c].name \in Name
       /\ Store!FreeFor(config, job[c].name, job[c].org)
       /\ \E t \in Token \cup {NoToken} :
            copy[c] = Store!WithProfile(config, job[c].name, [org |-> job[c].org, token |-> t])
    \/ /\ job[c].kind = "logout" /\ job[c].name \in Name
       /\ Store!Has(config, job[c].name)
       /\ copy[c] = Store!Without(config, job[c].name)
    \/ /\ job[c].kind = "use"
       /\ Store!Has(config, job[c].name)
       /\ copy[c] = Store!Activated(config, job[c].name)
    \/ job[c].kind = "telemetry" /\ copy[c] = Store!Telemetry(config, job[c].on)

LockInv ==
    \A c \in Cmd :
        /\ pc[c] \in {"change", "save", "saved", "refused"} => job[c].kind # "request"
        /\ Updating(c) => holder = c
        /\ pc[c] = "change" => copy[c] = config
        /\ pc[c] = "save" => OwnChange(c)

LEMMA LockInvInit == Init => LockInv
BY DEF Init, LockInv, Updating

\* A step of c leaves the others what LockInv says of them, if it leaves the
\* config alone and takes the lock from nobody else.
LEMMA OthersKeepLock ==
    ASSUME LockInv, NEW c \in Cmd, config' = config,
           \A d \in Cmd \ {c} : pc'[d] = pc[d] /\ job'[d] = job[d] /\ copy'[d] = copy[d],
           \A d \in Cmd \ {c} : holder = d => holder' = d
    PROVE  \A d \in Cmd \ {c} :
             /\ pc'[d] \in {"change", "save", "saved", "refused"} => job'[d].kind # "request"
             /\ Updating(d)' => holder' = d
             /\ pc'[d] = "change" => copy'[d] = config'
             /\ pc'[d] = "save" => OwnChange(d)'
<1> TAKE d \in Cmd \ {c}
<1>1. pc'[d] = pc[d] /\ job'[d] = job[d] /\ copy'[d] = copy[d]
  OBVIOUS
<1>2. Updating(d)' <=> Updating(d)
  BY <1>1 DEF Updating
<1>3. OwnChange(d)' <=> OwnChange(d)
  BY <1>1 DEF OwnChange
<1> QED
  BY <1>1, <1>2, <1>3 DEF LockInv

LEMMA LockInvStep ==
    ASSUME Locks = TRUE
    PROVE  TypeInv /\ LockInv /\ [Next]_vars => LockInv'
<1> USE DEF TypeInv, TypeOK, Stages, Goto, Returns, Edits
<1> SUFFICES ASSUME TypeInv, LockInv, [Next]_vars PROVE LockInv'
  OBVIOUS
<1>1. ASSUME NEW c \in Cmd, Start(c) PROVE LockInv'
  <2>1. \A d \in Cmd \ {c} : pc'[d] = pc[d] /\ job'[d] = job[d] /\ copy'[d] = copy[d]
    BY <1>1 DEF Start
  <2>2. pc'[c] = "lock" \/ (pc'[c] = "load" /\ job'[c].kind = "request")
    BY <1>1 DEF Start
  <2>3. config' = config /\ holder' = holder
    BY <1>1 DEF Start
  <2> QED
    BY <2>1, <2>2, <2>3, OthersKeepLock DEF LockInv, Updating
<1>2. ASSUME NEW c \in Cmd, TakeLock(c) PROVE LockInv'
  <2>1. /\ \A d \in Cmd \ {c} : pc'[d] = pc[d] /\ job'[d] = job[d] /\ copy'[d] = copy[d]
        /\ \A d \in Cmd \ {c} : holder = d => holder' = d
        /\ config' = config /\ pc'[c] = "load" /\ holder' = c
    BY <1>2 DEF TakeLock
  <2> QED
    BY <2>1, OthersKeepLock DEF LockInv, Updating
<1>3. ASSUME NEW c \in Cmd, GiveUp(c) \/ DeleteToken(c) \/ GetToken(c) PROVE LockInv'
  <2>1. /\ \A d \in Cmd \ {c} : pc'[d] = pc[d] /\ job'[d] = job[d] /\ copy'[d] = copy[d]
        /\ config' = config /\ holder' = holder /\ pc'[c] = "done"
    BY <1>3 DEF GiveUp, DeleteToken, GetToken
  <2> QED
    BY <2>1, OthersKeepLock DEF LockInv, Updating
<1>4. ASSUME NEW c \in Cmd, Load(c) PROVE LockInv'
  <2>1. /\ \A d \in Cmd \ {c} : pc'[d] = pc[d] /\ job'[d] = job[d] /\ copy'[d] = copy[d]
        /\ config' = config /\ holder' = holder /\ job' = job
        /\ pc'[c] = "refused" \/ (pc'[c] = "change" /\ copy'[c] = config)
        /\ Updating(c) /\ job[c].kind # "request"
    BY <1>4 DEF Load, Updating
  <2>2. holder = c
    BY <2>1 DEF LockInv
  <2> QED
    BY <2>1, <2>2, OthersKeepLock DEF LockInv, Updating
<1>5. ASSUME NEW c \in Cmd, Save(c) PROVE LockInv'
  <2>1. holder = c /\ job[c].kind # "request"
    BY <1>5 DEF Save, LockInv, Updating
  <2>2. \A d \in Cmd \ {c} : ~Updating(d)
    BY <2>1 DEF LockInv
  <2>3. /\ \A d \in Cmd \ {c} : pc'[d] = pc[d] /\ job'[d] = job[d]
        /\ pc'[c] = "saved" /\ job' = job /\ holder' = holder
    BY <1>5 DEF Save
  <2>4. \A d \in Cmd \ {c} : pc[d] \notin {"change", "save", "saved", "refused"}
    BY <2>2 DEF LockInv, Updating
  <2> QED
    BY <2>1, <2>2, <2>3, <2>4 DEF LockInv, Updating
<1>6. ASSUME NEW c \in Cmd, SaveFails(c) \/ Refuse(c) PROVE LockInv'
  <2>1. /\ \A d \in Cmd \ {c} : pc'[d] = pc[d] /\ job'[d] = job[d] /\ copy'[d] = copy[d]
        /\ config' = config /\ holder' = holder /\ job' = job /\ pc'[c] = "refused"
    BY <1>6 DEF SaveFails, Refuse
  <2>2. holder = c /\ job[c].kind # "request"
    BY <1>6 DEF SaveFails, Refuse, LockInv, Updating
  <2> QED
    BY <2>1, <2>2, OthersKeepLock DEF LockInv, Updating
<1>7. ASSUME NEW c \in Cmd, Unlock(c) PROVE LockInv'
  <2>1. /\ \A d \in Cmd \ {c} : pc'[d] = pc[d] /\ job'[d] = job[d] /\ copy'[d] = copy[d]
        /\ \A d \in Cmd \ {c} : holder = d => holder' = d
        /\ config' = config /\ pc'[c] \in {"forget", "done"}
    BY <1>7 DEF Unlock
  <2> QED
    BY <2>1, OthersKeepLock DEF LockInv, Updating
<1>8. ASSUME NEW c \in Cmd, Kill(c) PROVE LockInv'
  <2>1. /\ \A d \in Cmd \ {c} : pc'[d] = pc[d] /\ job'[d] = job[d] /\ copy'[d] = copy[d]
        /\ \A d \in Cmd \ {c} : holder = d => holder' = d
        /\ config' = config /\ pc'[c] = "killed"
    BY <1>8 DEF Kill
  <2> QED
    BY <2>1, OthersKeepLock DEF LockInv, Updating
<1>9. ASSUME NEW c \in Cmd, Change(c), ~Refuse(c) PROVE LockInv'
  <2>1. /\ \A d \in Cmd \ {c} : pc'[d] = pc[d] /\ job'[d] = job[d] /\ copy'[d] = copy[d]
        /\ config' = config /\ holder' = holder /\ pc'[c] = "save"
        /\ pc[c] = "change"
    BY <1>9 DEF Change, PersistProfile, RemoveProfile, UseProfile, SetTelemetry
  <2>2. holder = c /\ copy[c] = config /\ job[c].kind # "request"
    BY <2>1 DEF LockInv, Updating
  <2>3. job'[c].kind = job[c].kind /\ OwnChange(c)'
    <3>1. CASE PersistProfile(c)
      <4>1. PICK n \in Name, taken \in BOOLEAN :
              /\ Store!FreeFor(copy[c], n, job[c].org)
              /\ job' = [job EXCEPT ![c].name = n]
              /\ Edits(c, Store!WithProfile(copy[c], n, NewProfile(c, n, taken)))
        BY <3>1 DEF PersistProfile, Picks
      <4> DEFINE inline == IF taken THEN NoToken ELSE Redeemed(c)
      <4>2. inline \in Token \cup {NoToken}
        BY <3>1 DEF PersistProfile, Redeemed, Token, Equipped
      <4>3. job'[c].kind = "login" /\ job'[c].name = n /\ job'[c].org = job[c].org
        BY <3>1, <4>1 DEF PersistProfile, Job
      <4>4. copy'[c] = Store!WithProfile(config', n, [org |-> job'[c].org, token |-> inline])
        BY <2>1, <2>2, <4>1, <4>3 DEF NewProfile
      <4>5. Store!FreeFor(config', n, job'[c].org)
        BY <2>1, <2>2, <4>1, <4>3
      <4> HIDE DEF inline
      <4> QED
        BY <3>1, <4>2, <4>3, <4>4, <4>5 DEF OwnChange, PersistProfile
    <3>2. CASE RemoveProfile(c)
      <4>1. Leaving(c) \in Name /\ Store!Has(copy[c], Leaving(c))
        BY <3>2 DEF RemoveProfile, Leaves, Leaving, Job, Store!Config, Equipped
      <4>2. job'[c].kind = "logout" /\ job'[c].name = Leaving(c)
        BY <3>2, <4>1 DEF RemoveProfile, Job
      <4>3. copy'[c] = Store!Without(config', Leaving(c))
        BY <3>2, <2>1, <2>2 DEF RemoveProfile
      <4> QED
        BY <2>1, <2>2, <3>2, <4>1, <4>2, <4>3 DEF OwnChange, RemoveProfile
    <3>3. CASE UseProfile(c)
      BY <3>3, <2>1, <2>2 DEF UseProfile, OwnChange
    <3>4. CASE SetTelemetry(c)
      BY <3>4, <2>1, <2>2 DEF SetTelemetry, OwnChange
    <3> QED
      BY <1>9, <3>1, <3>2, <3>3, <3>4 DEF Change
  <2> QED
    BY <2>1, <2>2, <2>3, OthersKeepLock DEF LockInv, Updating
<1>10. ASSUME NEW c \in Cmd, ResolveProfile(c) PROVE LockInv'
  <2>1. /\ \A d \in Cmd \ {c} : pc'[d] = pc[d] /\ job'[d] = job[d] /\ copy'[d] = copy[d]
        /\ config' = config /\ holder' = holder /\ pc'[c] \in {"done", "token"}
    BY <1>10 DEF ResolveProfile
  <2> QED
    BY <2>1, OthersKeepLock DEF LockInv, Updating
<1>11. ASSUME UNCHANGED vars PROVE LockInv'
  BY <1>11 DEF vars, LockInv, Updating, OwnChange
<1> QED
  BY <1>1, <1>2, <1>3, <1>4, <1>5, <1>6, <1>7, <1>8, <1>9, <1>10, <1>11 DEF Next, Update, Change

(***************************************************************************)
(* On a file system with locks, no command saves over a change another     *)
(* made after it read the config: the commands implement ProfileStore, in  *)
(* which each change is one step.                                          *)
(***************************************************************************)
THEOREM ImplementsProfileStore ==
    ASSUME Locks = TRUE
    PROVE  Spec => ImplementsStore
<1>1. Init => Store!Init
  <2> SUFFICES ASSUME Init PROVE Store!Init
    OBVIOUS
  <2>1. config \in Store!Config
    BY TypeInvInit DEF TypeInv, TypeOK
  <2> QED
    BY <2>1 DEF Init, Store!Init
<1>2. TypeInv /\ LockInv /\ [Next]_vars => [Store!Next]_config
  <2> SUFFICES ASSUME TypeInv, LockInv, [Next]_vars, config' # config PROVE Store!Next
    OBVIOUS
  <2>1. PICK c \in Cmd : Save(c)
    BY DEF Next, vars, Start, Update, Change, TakeLock, GiveUp, Load, SaveFails, Unlock,
           PersistProfile, RemoveProfile, UseProfile, SetTelemetry, Refuse, DeleteToken,
           ResolveProfile, GetToken, Kill
  <2>2. OwnChange(c) /\ config' = copy[c] /\ job[c] \in Job
    BY <2>1 DEF Save, LockInv, TypeInv, TypeOK
  <2>3. CASE job[c].kind = "login"
    <3>1. job[c].org \in Org
      BY <2>3 DEF TypeInv, Equipped
    <3> QED
      BY <2>2, <2>3, <3>1 DEF OwnChange, Store!Next, Store!Login
  <2>4. CASE job[c].kind = "logout"
    BY <2>2, <2>4 DEF OwnChange, Store!Next, Store!Remove
  <2>5. CASE job[c].kind = "use"
    BY <2>2, <2>5 DEF OwnChange, Store!Next, Store!Use, TypeInv, Equipped
  <2>6. CASE job[c].kind = "telemetry"
    BY <2>2, <2>6 DEF OwnChange, Store!Next, Store!SetTelemetry, Job
  <2> QED
    BY <2>2, <2>3, <2>4, <2>5, <2>6 DEF OwnChange
<1> QED
  BY <1>1, <1>2, TypeInvInit, TypeInvStep, LockInvInit, LockInvStep, PTL
     DEF Spec, ImplementsStore, Store!Spec

(***************************************************************************)
(* A login writes the keychain before the config.  Between the two, the    *)
(* token it has put there, or inline in the config it is about to save, is *)
(* its organization's.                                                     *)
(***************************************************************************)
PutOwnToken(c) ==
    LET n == job[c].name
        t == IF copy[c].profiles[n].token # NoToken THEN copy[c].profiles[n].token ELSE keychain[n]
    IN  t # NoToken => t.org = job[c].org

TokenInv ==
    /\ TokensAreOwn
    /\ \A c \in Cmd : pc[c] = "save" /\ job[c].kind = "login" => PutOwnToken(c)

\* Of what TokenInv speaks of only the keychain changes, and it only loses
\* tokens: a removal by logout, or nothing at all.
LEMMA TokensOnlyLost ==
    ASSUME TokenInv, TypeInv, UNCHANGED config,
           \A n \in Name : keychain'[n] \in {keychain[n], NoToken},
           \A c \in Cmd : pc'[c] = "save" => pc[c] = "save" /\ job'[c] = job[c] /\ copy'[c] = copy[c],
           \A c \in Cmd : pc[c] = "save" /\ job[c].kind = "login" => job[c].name \in Name
    PROVE  TokenInv'
<1>1. TokensAreOwn'
  BY DEF TokenInv, TokensAreOwn, OwnToken, TokenOf, Store!Has
<1>2. ASSUME NEW c \in Cmd, pc'[c] = "save", job'[c].kind = "login" PROVE PutOwnToken(c)'
  BY <1>2 DEF TokenInv, PutOwnToken
<1> QED
  BY <1>1, <1>2 DEF TokenInv

LEMMA TokenInvInit == Init => TokenInv
BY DEF Init, TokenInv, TokensAreOwn

LEMMA TokenInvStep ==
    ASSUME Locks = TRUE
    PROVE  TypeInv /\ LockInv /\ TokenInv /\ [Next]_vars => TokenInv'
<1> USE DEF TypeInv, TypeOK, Stages, Goto, Returns, Edits
<1> SUFFICES ASSUME TypeInv, LockInv, TokenInv, [Next]_vars PROVE TokenInv'
  OBVIOUS
<1>0. \A c \in Cmd : pc[c] = "save" /\ job[c].kind = "login" => job[c].name \in Name
  BY DEF LockInv, OwnChange
<1>1. ASSUME NEW c \in Cmd, PersistProfile(c) PROVE TokenInv'
  <2>1. PICK n \in Name, taken \in BOOLEAN :
          /\ Store!FreeFor(copy[c], n, job[c].org)
          /\ job' = [job EXCEPT ![c].name = n]
          /\ keychain' = IF taken THEN [keychain EXCEPT ![n] = Redeemed(c)] ELSE keychain
          /\ Edits(c, Store!WithProfile(copy[c], n, NewProfile(c, n, taken)))
    BY <1>1 DEF PersistProfile, Picks
  <2>2. holder = c /\ copy[c] = config /\ UNCHANGED config
    BY <1>1 DEF PersistProfile, LockInv, Updating
  <2>3. \A d \in Cmd \ {c} : pc'[d] # "save"
    BY <1>1, <2>2 DEF PersistProfile, LockInv, Updating
  <2>4. Redeemed(c).org = job[c].org
    BY DEF Redeemed
  <2>5. TokensAreOwn'
    <3> SUFFICES ASSUME NEW m \in Name PROVE OwnToken(m)'
      BY DEF TokensAreOwn
    <3>1. OwnToken(m)
      BY DEF TokenInv, TokensAreOwn
    <3>2. CASE m # n
      BY <2>1, <2>2, <3>1, <3>2 DEF OwnToken, TokenOf, Store!Has
    <3>3. CASE m = n /\ taken
      BY <2>1, <2>2, <2>4, <3>1, <3>3
         DEF OwnToken, TokenOf, Store!Has, Store!FreeFor, Store!Config, Store!Profile
    <3>4. CASE m = n /\ ~taken
      BY <2>1, <2>2, <3>1, <3>4 DEF OwnToken, TokenOf, Store!Has
    <3> QED
      BY <3>2, <3>3, <3>4
  <2>6. PutOwnToken(c)'
    <3>1. job'[c].name = n /\ job'[c].org = job[c].org
      BY <2>1 DEF Job
    <3>2. copy'[c].profiles[n].token = IF taken THEN NoToken ELSE Redeemed(c)
      <4>1. copy'[c] = Store!WithProfile(config, n, NewProfile(c, n, taken)) /\ config \in Store!Config
        BY <2>1, <2>2
      <4>2. copy'[c].profiles[n] = NewProfile(c, n, taken)
        BY <4>1 DEF Store!WithProfile, Store!Config
      <4> QED
        BY <4>2 DEF NewProfile
    <3>3. taken => keychain'[n] = Redeemed(c)
      BY <2>1
    <3>4. Redeemed(c) # NoToken
      BY <1>1 DEF PersistProfile, Redeemed, Token, Equipped
    <3>5. CASE taken
      BY <2>4, <3>1, <3>2, <3>3, <3>5 DEF PutOwnToken
    <3>6. CASE ~taken
      BY <2>4, <3>1, <3>2, <3>4, <3>6 DEF PutOwnToken
    <3> QED
      BY <3>5, <3>6
  <2> QED
    BY <2>3, <2>5, <2>6 DEF TokenInv
<1>2. ASSUME NEW c \in Cmd, Save(c) PROVE TokenInv'
  <2>1. OwnChange(c) /\ config' = copy[c] /\ UNCHANGED <<keychain, job>>
    BY <1>2 DEF Save, LockInv
  <2>2. \A d \in Cmd : pc'[d] # "save"
    BY <1>2 DEF Save, LockInv, Updating
  <2>3. TokensAreOwn'
    <3> SUFFICES ASSUME NEW m \in Name PROVE OwnToken(m)'
      BY DEF TokensAreOwn
    <3>1. OwnToken(m)
      BY DEF TokenInv, TokensAreOwn
    <3>2. CASE job[c].kind = "login"
      <4>1. PICK t \in Token \cup {NoToken} :
              config' = Store!WithProfile(config, job[c].name, [org |-> job[c].org, token |-> t])
        BY <2>1, <3>2 DEF OwnChange
      <4>2. job[c].name \in Name /\ PutOwnToken(c)
        BY <1>0, <1>2, <3>2 DEF Save, TokenInv
      <4>3. CASE m # job[c].name
        BY <2>1, <3>1, <4>1, <4>3 DEF OwnToken, TokenOf, Store!Has, Store!WithProfile, Store!Config
      <4>4. CASE m = job[c].name
        <5>1. config'.profiles[m] = [org |-> job[c].org, token |-> t]
          BY <4>1, <4>2, <4>4 DEF Store!WithProfile, Store!Config
        <5> QED
          BY <2>1, <4>2, <4>4, <5>1 DEF PutOwnToken, OwnToken, TokenOf
      <4> QED
        BY <4>3, <4>4
    <3>3. CASE job[c].kind # "login"
      <4>1. config'.profiles[m] \in {config.profiles[m], Store!NoProfile}
        <5>1. CASE job[c].kind = "logout"
          <6>1. config' = Store!Without(config, job[c].name) /\ config \in Store!Config
            BY <2>1, <5>1 DEF OwnChange
          <6>2. config'.profiles = [config.profiles EXCEPT ![job[c].name] = Store!NoProfile]
            BY <6>1 DEF Store!Without, Store!Config
          <6>3. config.profiles \in [Name -> Store!Profile]
            BY <6>1 DEF Store!Config
          <6> QED
            BY <6>2, <6>3
        <5>2. CASE job[c].kind # "logout"
          <6>1. config'.profiles = config.profiles
            BY <2>1, <3>3, <5>2 DEF OwnChange, Store!Activated, Store!Telemetry, Store!Config
          <6> QED
            BY <6>1
        <5> QED
          BY <5>1, <5>2
      <4> QED
        BY <2>1, <3>1, <4>1 DEF OwnToken, TokenOf, Store!Has
    <3> QED
      BY <3>2, <3>3
  <2> QED
    BY <2>2, <2>3 DEF TokenInv
<1>3. ASSUME NEW c \in Cmd, RemoveProfile(c) \/ UseProfile(c) \/ SetTelemetry(c) PROVE TokenInv'
  <2>1. /\ UNCHANGED <<config, keychain>>
        /\ \A d \in Cmd \ {c} : pc'[d] = pc[d] /\ job'[d] = job[d] /\ copy'[d] = copy[d]
        /\ job[c].kind # "login"
    BY <1>3 DEF RemoveProfile, UseProfile, SetTelemetry
  <2>2. job'[c].kind # "login"
    BY <1>3, <2>1 DEF RemoveProfile, UseProfile, SetTelemetry, Job
  <2>3. TokensAreOwn'
    BY <2>1 DEF TokenInv, TokensAreOwn, OwnToken, TokenOf, Store!Has
  <2>4. \A d \in Cmd \ {c} : PutOwnToken(d)' <=> PutOwnToken(d)
    BY <2>1 DEF PutOwnToken
  <2> QED
    BY <2>1, <2>2, <2>3, <2>4 DEF TokenInv
<1>4. ASSUME NEW c \in Cmd, Start(c) \/ TakeLock(c) \/ GiveUp(c) \/ Load(c) PROVE TokenInv'
  <2>1. UNCHANGED <<config, keychain>>
    BY <1>4 DEF Start, TakeLock, GiveUp, Load
  <2>2. \A d \in Cmd : pc'[d] = "save" => pc[d] = "save" /\ job'[d] = job[d] /\ copy'[d] = copy[d]
    BY <1>4 DEF Start, TakeLock, GiveUp, Load
  <2> QED
    BY <1>0, <2>1, <2>2, TokensOnlyLost
<1>5. ASSUME NEW c \in Cmd, SaveFails(c) \/ Unlock(c) \/ Refuse(c) \/ Kill(c) PROVE TokenInv'
  <2>1. UNCHANGED <<config, keychain>>
    BY <1>5 DEF SaveFails, Unlock, Refuse, Kill
  <2>2. \A d \in Cmd : pc'[d] = "save" => pc[d] = "save" /\ job'[d] = job[d] /\ copy'[d] = copy[d]
    BY <1>5 DEF SaveFails, Unlock, Refuse, Kill
  <2> QED
    BY <1>0, <2>1, <2>2, TokensOnlyLost
<1>6. ASSUME NEW c \in Cmd, DeleteToken(c) \/ ResolveProfile(c) \/ GetToken(c) PROVE TokenInv'
  <2>1. UNCHANGED config /\ \A n \in Name : keychain'[n] \in {keychain[n], NoToken}
    BY <1>6 DEF DeleteToken, ResolveProfile, GetToken
  <2>2. \A d \in Cmd : pc'[d] = "save" => pc[d] = "save" /\ job'[d] = job[d] /\ copy'[d] = copy[d]
    BY <1>6 DEF DeleteToken, ResolveProfile, GetToken
  <2> QED
    BY <1>0, <2>1, <2>2, TokensOnlyLost
<1>7. CASE UNCHANGED vars
  BY <1>0, <1>7, TokensOnlyLost DEF vars
<1> QED
  BY <1>1, <1>2, <1>3, <1>4, <1>5, <1>6, <1>7 DEF Next, Update, Change

(***************************************************************************)
(* On a file system with locks, the token a profile resolves to is its own *)
(* organization's, whatever the keychain refuses and whatever a killed     *)
(* login or a late logout leaves behind.                                   *)
(***************************************************************************)
THEOREM TokensOwn ==
    ASSUME Locks = TRUE
    PROVE  Spec => []TokensAreOwn
<1>1. TokenInv => TokensAreOwn
  BY DEF TokenInv
<1> QED
  BY <1>1, TypeInvInit, TypeInvStep, LockInvInit, LockInvStep, TokenInvInit, TokenInvStep, PTL
     DEF Spec

-----------------------------------------------------------------------------
(***************************************************************************)
(* While nobody logs out, tokens are only put, never taken.                *)
(***************************************************************************)
StageInv ==
    \A c \in Cmd :
        /\ pc[c] = "idle" => job[c].kind = "none"
        /\ pc[c] = "forget" => job[c].kind = "logout"
        /\ pc[c] \notin {"done", "killed"} => sent[c] = NoToken

LEMMA StageInvInit == Init => StageInv
BY DEF Init, StageInv, NoJob

LEMMA StageInvStep == TypeInv /\ StageInv /\ [Next]_vars => StageInv'
<1> USE DEF TypeInv, TypeOK, StageInv, Stages, Goto, Returns, Edits, Job
<1> SUFFICES ASSUME TypeInv, StageInv, [Next]_vars PROVE StageInv'
  OBVIOUS
<1>1. ASSUME NEW c \in Cmd, Start(c) \/ TakeLock(c) \/ GiveUp(c) \/ Load(c) PROVE StageInv'
  BY <1>1 DEF Start, TakeLock, GiveUp, Load
<1>2. ASSUME NEW c \in Cmd, Save(c) \/ SaveFails(c) \/ Unlock(c) PROVE StageInv'
  BY <1>2 DEF Save, SaveFails, Unlock
<1>3. ASSUME NEW c \in Cmd, PersistProfile(c) \/ RemoveProfile(c) PROVE StageInv'
  <2>1. /\ \A d \in Cmd \ {c} : job'[d] = job[d]
        /\ pc' = [pc EXCEPT ![c] = "save"] /\ pc[c] = "change" /\ sent' = sent
    BY <1>3 DEF PersistProfile, RemoveProfile
  <2> QED
    BY <2>1
<1>4. ASSUME NEW c \in Cmd, UseProfile(c) \/ SetTelemetry(c) \/ Refuse(c) PROVE StageInv'
  BY <1>4 DEF UseProfile, SetTelemetry, Refuse
<1>5. ASSUME NEW c \in Cmd, DeleteToken(c) \/ Kill(c) PROVE StageInv'
  BY <1>5 DEF DeleteToken, Kill
<1>6. ASSUME NEW c \in Cmd, ResolveProfile(c) PROVE StageInv'
  <2>1. /\ \A d \in Cmd \ {c} : job'[d] = job[d] /\ pc'[d] = pc[d] /\ sent'[d] = sent[d]
        /\ pc'[c] = "done" \/ (pc'[c] = "token" /\ sent'[c] = NoToken)
    BY <1>6 DEF ResolveProfile
  <2> QED
    BY <2>1
<1>7. ASSUME NEW c \in Cmd, GetToken(c) PROVE StageInv'
  <2>1. /\ \A d \in Cmd \ {c} : pc'[d] = pc[d] /\ sent'[d] = sent[d]
        /\ pc'[c] = "done" /\ job' = job
    BY <1>7 DEF GetToken
  <2> QED
    BY <2>1
<1>8. CASE UNCHANGED vars
  BY <1>8 DEF vars
<1> QED
  BY <1>1, <1>2, <1>3, <1>4, <1>5, <1>6, <1>7, <1>8 DEF Next, Update, Change

\* A command is what it was started as.
LEMMA KindsStay ==
    ASSUME TypeInv, StageInv, [Next]_vars, NobodyLogsOut'
    PROVE  NobodyLogsOut
<1> USE DEF TypeInv, TypeOK
<1> SUFFICES ASSUME NEW e \in Cmd PROVE job'[e].kind = job[e].kind \/ job[e].kind = "none"
  BY DEF NobodyLogsOut
<1>1. ASSUME NEW c \in Cmd, Start(c) PROVE job'[e] = job[e] \/ job[e].kind = "none"
  BY <1>1 DEF Start, StageInv
<1>2. ASSUME NEW c \in Cmd, NEW n \in Name, job' = [job EXCEPT ![c].name = n]
      PROVE  job'[e].kind = job[e].kind
  <2>1. job[e] \in Job
    OBVIOUS
  <2> QED
    BY <1>2, <2>1 DEF Job
<1>3. ASSUME NEW c \in Cmd, PersistProfile(c) \/ RemoveProfile(c)
      PROVE  job'[e].kind = job[e].kind
  <2>1. PersistProfile(c) => \E n \in Name : job' = [job EXCEPT ![c].name = n]
    BY DEF PersistProfile
  <2>2. RemoveProfile(c) => Leaving(c) \in Name /\ job' = [job EXCEPT ![c].name = Leaving(c)]
    BY DEF RemoveProfile, Leaves, Leaving, Job, Store!Config, Equipped
  <2> QED
    BY <1>2, <1>3, <2>1, <2>2
<1>4. ASSUME NEW c \in Cmd, ResolveProfile(c) PROVE job'[e].kind = job[e].kind
  <2>1. CASE job' = job
    BY <2>1
  <2>2. CASE job' # job
    <3>1. PICK n, o : job' = [job EXCEPT ![c] = [@ EXCEPT !.name = n, !.org = o]]
      BY <1>4, <2>2 DEF ResolveProfile
    <3>2. job[e] \in Job
      OBVIOUS
    <3> QED
      BY <3>1, <3>2 DEF Job
  <2> QED
    BY <2>1, <2>2
<1>5. ASSUME NEW c \in Cmd, Update(c) \/ UseProfile(c) \/ SetTelemetry(c) \/ Refuse(c)
                            \/ DeleteToken(c) \/ GetToken(c) \/ Kill(c)
      PROVE  job' = job
  BY <1>5 DEF Update, TakeLock, GiveUp, Load, Save, SaveFails, Unlock, UseProfile, SetTelemetry,
              Refuse, DeleteToken, GetToken, Kill
<1> QED
  BY <1>1, <1>3, <1>4, <1>5 DEF Next, Change, vars

\* The token of the login about to save is where the profile will look.
PutLatest(c) ==
    LET n == job[c].name IN
    /\ Store!Has(copy[c], n)
    /\ (IF copy[c].profiles[n].token # NoToken THEN copy[c].profiles[n].token ELSE keychain[n])
         = Redeemed(c)

\* The organization whose auth_id a request has, its token still to be read.
NamedOrg(c) ==
    LET n == job[c].name IN
    /\ config.profiles[n].org = job[c].org /\ job[c].org \in Org
    /\ keychain[n] # NoToken => keychain[n].org = job[c].org

QuietInv ==
    NobodyLogsOut =>
        /\ \A n \in Name : HasToken(n)
        /\ \A c \in Cmd : pc[c] = "save" /\ job[c].kind = "login" => PutLatest(c)
        /\ \A c \in Cmd : pc[c] = "token" => NamedOrg(c)
        /\ \A c \in Cmd : sent[c] # NoToken => sent[c].org = job[c].org

\* Steps that leave the config, the keychain and what was sent as they are.
LEMMA QuietElsewhere ==
    ASSUME QuietInv, NobodyLogsOut, UNCHANGED <<config, keychain, sent>>,
           \A c \in Cmd : job'[c] = job[c] \/ (pc'[c] \notin {"save", "token"} /\ sent[c] = NoToken),
           \A c \in Cmd : pc'[c] = "save" /\ job'[c].kind = "login"
                            => pc[c] = "save" /\ copy'[c] = copy[c],
           \A c \in Cmd : pc'[c] = "token" => pc[c] = "token"
    PROVE  QuietInv'
<1>1. \A n \in Name : HasToken(n)'
  BY DEF QuietInv, HasToken, TokenOf, Store!Has
<1>2. ASSUME NEW c \in Cmd, pc'[c] = "save", job'[c].kind = "login" PROVE PutLatest(c)'
  <2>1. job'[c] = job[c] /\ pc[c] = "save" /\ copy'[c] = copy[c] /\ keychain' = keychain
    BY <1>2
  <2>2. PutLatest(c)
    BY <1>2, <2>1 DEF QuietInv
  <2> QED
    BY <2>1, <2>2 DEF PutLatest, Redeemed, Store!Has
<1>3. ASSUME NEW c \in Cmd, pc'[c] = "token" PROVE NamedOrg(c)'
  <2>1. job'[c] = job[c] /\ pc[c] = "token" /\ config' = config /\ keychain' = keychain
    BY <1>3
  <2>2. NamedOrg(c)
    BY <2>1 DEF QuietInv
  <2> QED
    BY <2>1, <2>2 DEF NamedOrg
<1>4. ASSUME NEW c \in Cmd, sent'[c] # NoToken PROVE sent'[c].org = job'[c].org
  BY <1>4 DEF QuietInv
<1> QED
  BY <1>1, <1>2, <1>3, <1>4 DEF QuietInv

LEMMA QuietInvStep ==
    ASSUME Locks = TRUE
    PROVE  TypeInv /\ LockInv /\ TokenInv /\ StageInv /\ QuietInv /\ [Next]_vars => QuietInv'
<1> USE DEF TypeInv, TypeOK, Stages, Goto, Returns, Edits
<1> SUFFICES ASSUME TypeInv, LockInv, TokenInv, StageInv, QuietInv, [Next]_vars, NobodyLogsOut'
             PROVE  QuietInv'
  BY DEF QuietInv
<1>0. NobodyLogsOut
  BY KindsStay
<1>1. ASSUME NEW c \in Cmd, PersistProfile(c) PROVE QuietInv'
  <2>1. PICK n \in Name, taken \in BOOLEAN :
          /\ Store!FreeFor(copy[c], n, job[c].org)
          /\ job' = [job EXCEPT ![c].name = n]
          /\ keychain' = IF taken THEN [keychain EXCEPT ![n] = Redeemed(c)] ELSE keychain
          /\ Edits(c, Store!WithProfile(copy[c], n, NewProfile(c, n, taken)))
    BY <1>1 DEF PersistProfile, Picks
  <2>2. holder = c /\ copy[c] = config /\ UNCHANGED <<config, sent>>
    BY <1>1 DEF PersistProfile, LockInv, Updating
  <2>3. /\ \A d \in Cmd \ {c} : pc'[d] # "save" /\ job'[d] = job[d]
        /\ \A d \in Cmd : pc'[d] = "token" => pc[d] = "token" /\ d # c
    BY <1>1, <2>1, <2>2 DEF PersistProfile, LockInv, Updating
  <2>4. Redeemed(c).org = job[c].org /\ job[c].org \in Org /\ Redeemed(c) # NoToken
    BY <1>1 DEF PersistProfile, Redeemed, Token, Equipped
  <2>5. \A m \in Name : HasToken(m)'
    BY <1>0, <2>1, <2>2, <2>4 DEF QuietInv, HasToken, TokenOf, Store!Has
  <2>6. PutLatest(c)'
    <3>1. job'[c].name = n /\ job'[c].org = job[c].org
      BY <2>1 DEF Job
    <3>2. Redeemed(c)' = Redeemed(c)
      BY <3>1 DEF Redeemed
    <3>3. copy'[c].profiles[n] = NewProfile(c, n, taken)
      <4>1. copy'[c] = Store!WithProfile(config, n, NewProfile(c, n, taken)) /\ config \in Store!Config
        BY <2>1, <2>2
      <4> QED
        BY <4>1 DEF Store!WithProfile, Store!Config
    <3>4. Store!Has(copy'[c], n)
      BY <2>4, <3>3 DEF Store!Has, Store!NoProfile, NewProfile
    <3>5. NewProfile(c, n, taken).token = IF taken THEN NoToken ELSE Redeemed(c)
      BY DEF NewProfile
    <3>6. taken => keychain'[n] = Redeemed(c)
      BY <2>1
    <3> QED
      BY <2>4, <3>1, <3>2, <3>3, <3>4, <3>5, <3>6 DEF PutLatest
  <2>7. ASSUME NEW d \in Cmd, pc'[d] = "token" PROVE NamedOrg(d)'
    <3>1. NamedOrg(d) /\ job'[d] = job[d]
      BY <1>0, <2>3, <2>7 DEF QuietInv
    <3>2. CASE job[d].name = n
      <4>1. config.profiles[n].org \in {NoOrg, job[c].org}
        BY <2>1, <2>2 DEF Store!FreeFor
      <4>2. job[d].org = job[c].org
        BY <3>1, <3>2, <4>1 DEF NamedOrg
      <4> QED
        BY <2>1, <2>2, <2>4, <3>1, <3>2, <4>2 DEF NamedOrg
    <3>3. CASE job[d].name # n
      <4>1. keychain'[job[d].name] = keychain[job[d].name]
        BY <2>1, <3>3
      <4> QED
        BY <2>2, <3>1, <4>1 DEF NamedOrg
    <3> QED
      BY <3>2, <3>3
  <2>8. ASSUME NEW d \in Cmd, sent'[d] # NoToken PROVE sent'[d].org = job'[d].org
    <3>1. job'[d].org = job[d].org
      BY <2>1 DEF Job
    <3> QED
      BY <1>0, <2>2, <2>8, <3>1 DEF QuietInv
  <2> QED
    BY <2>3, <2>5, <2>6, <2>7, <2>8 DEF QuietInv
<1>2. ASSUME NEW c \in Cmd, Save(c) PROVE QuietInv'
  <2>1. OwnChange(c) /\ config' = copy[c] /\ UNCHANGED <<keychain, job, sent>>
    BY <1>2 DEF Save, LockInv
  <2>2. \A d \in Cmd : pc'[d] # "save" /\ (pc'[d] = "token" => pc[d] = "token")
    BY <1>2 DEF Save, LockInv, Updating
  <2>3. CASE job[c].kind = "login"
    <3> DEFINE n == job[c].name
    <3>1. n \in Name /\ PutLatest(c) /\ Redeemed(c) # NoToken
      BY <1>0, <1>2, <2>1, <2>3 DEF Save, OwnChange, QuietInv, Redeemed, Token, Equipped
    <3>2. PICK t \in Token \cup {NoToken} :
            config' = Store!WithProfile(config, n, [org |-> job[c].org, token |-> t])
      BY <2>1, <2>3 DEF OwnChange
    <3>3. config'.profiles = [config.profiles EXCEPT ![n] = [org |-> job[c].org, token |-> t]]
      BY <3>2 DEF Store!WithProfile, Store!Config
    <3>4. config.profiles \in [Name -> Store!Profile]
      BY DEF Store!Config
    <3>5. \A m \in Name : HasToken(m)'
      <4>1. ASSUME NEW m \in Name, m = n PROVE HasToken(m)'
        BY <2>1, <3>1, <4>1 DEF PutLatest, HasToken, TokenOf
      <4>2. ASSUME NEW m \in Name, m # n PROVE HasToken(m)'
        <5>1. config'.profiles[m] = config.profiles[m] /\ HasToken(m)
          BY <1>0, <3>3, <3>4, <4>2 DEF QuietInv
        <5> QED
          BY <2>1, <5>1 DEF HasToken, TokenOf, Store!Has
      <4> QED
        BY <4>1, <4>2
    <3>6. ASSUME NEW d \in Cmd, pc'[d] = "token" PROVE NamedOrg(d)'
      <4>1. NamedOrg(d) /\ job[d].name \in Name
        BY <1>0, <2>2, <3>6 DEF QuietInv, Equipped
      <4>2. config.profiles[n].org \in {NoOrg, job[c].org}
        BY <2>1, <2>3 DEF OwnChange, Store!FreeFor
      <4>3. config'.profiles[job[d].name].org = job[d].org
        BY <3>1, <3>3, <3>4, <4>1, <4>2 DEF NamedOrg
      <4> QED
        BY <2>1, <4>1, <4>3 DEF NamedOrg
    <3> QED
      BY <1>0, <2>1, <2>2, <3>5, <3>6 DEF QuietInv
  <2>4. CASE job[c].kind # "login"
    <3>1. config'.profiles = config.profiles
      BY <1>0, <2>1, <2>4 DEF NobodyLogsOut, OwnChange, Store!Activated, Store!Telemetry, Store!Config
    <3>2. \A m \in Name : HasToken(m)'
      BY <1>0, <2>1, <3>1 DEF QuietInv, HasToken, TokenOf, Store!Has
    <3>3. ASSUME NEW d \in Cmd, pc'[d] = "token" PROVE NamedOrg(d)'
      BY <1>0, <2>1, <2>2, <3>1, <3>3 DEF QuietInv, NamedOrg
    <3> QED
      BY <1>0, <2>1, <2>2, <3>2, <3>3 DEF QuietInv
  <2> QED
    BY <2>3, <2>4
<1>3. ASSUME NEW c \in Cmd, ResolveProfile(c) PROVE QuietInv'
  <2> DEFINE n == IF job[c].name = NoName THEN config.active ELSE job[c].name
  <2>1. CASE Goto(c, "done") /\ UNCHANGED <<job, sent>>
    <3>1. UNCHANGED <<config, keychain, sent, copy, job>> /\ pc' = [pc EXCEPT ![c] = "done"]
      BY <1>3, <2>1 DEF ResolveProfile
    <3> QED
      BY <1>0, <3>1, QuietElsewhere
  <2>2. CASE n # NoName /\ Store!Has(config, n) /\ ~(Goto(c, "done") /\ UNCHANGED <<job, sent>>)
    <3>1. n \in Name
      BY <2>2 DEF Store!Config, Job
    <3> DEFINE p == config.profiles[n]
    <3>2. p.org \in Org
      BY <2>2, <3>1 DEF Store!Has, Store!Config, Store!Profile
    <3>3. p.token # NoToken => p.token.org = p.org
      BY <2>2, <3>1 DEF TokenInv, TokensAreOwn, OwnToken, TokenOf
    <3>4. p.token = NoToken /\ keychain[n] # NoToken => keychain[n].org = p.org
      BY <2>2, <3>1 DEF TokenInv, TokensAreOwn, OwnToken, TokenOf
    <3>5. /\ job' = [job EXCEPT ![c] = [@ EXCEPT !.name = n, !.org = p.org]]
          /\ sent' = [sent EXCEPT ![c] = p.token]
          /\ pc' = [pc EXCEPT ![c] = IF p.token = NoToken THEN "token" ELSE "done"]
          /\ UNCHANGED <<config, keychain, copy>>
      BY <1>3, <2>2 DEF ResolveProfile
    <3> HIDE DEF n, p
    <3>6. job[c] \in Job
      OBVIOUS
    <3>7. job'[c].name = n /\ job'[c].org = p.org /\ job'[c].kind = job[c].kind
      BY <3>5, <3>6 DEF Job
    <3>8. \A d \in Cmd \ {c} : job'[d] = job[d] /\ sent'[d] = sent[d] /\ pc'[d] = pc[d]
      BY <3>5
    <3>9. \A m \in Name : HasToken(m)'
      BY <1>0, <3>5 DEF QuietInv, HasToken, TokenOf, Store!Has
    <3>10. ASSUME NEW d \in Cmd, pc'[d] = "save", job'[d].kind = "login" PROVE PutLatest(d)'
      <4>1. d # c
        BY <3>5, <3>10
      <4>2. PutLatest(d) /\ job'[d] = job[d] /\ copy' = copy /\ keychain' = keychain
        BY <1>0, <3>5, <3>8, <3>10, <4>1 DEF QuietInv
      <4> QED
        BY <4>2 DEF PutLatest, Redeemed, Store!Has
    <3>11. ASSUME NEW d \in Cmd, pc'[d] = "token" PROVE NamedOrg(d)'
      <4>1. CASE d = c
        <5>1. p.token = NoToken
          BY <3>5, <3>11, <4>1
        <5>2. config'.profiles[n].org = p.org
          BY <3>5 DEF p
        <5> QED
          BY <3>2, <3>4, <3>5, <3>7, <4>1, <5>1, <5>2 DEF NamedOrg
      <4>2. CASE d # c
        BY <1>0, <3>5, <3>8, <3>11, <4>2 DEF QuietInv, NamedOrg
      <4> QED
        BY <4>1, <4>2
    <3>12. ASSUME NEW d \in Cmd, sent'[d] # NoToken PROVE sent'[d].org = job'[d].org
      <4>1. CASE d = c
        BY <3>3, <3>5, <3>7, <3>12, <4>1
      <4>2. CASE d # c
        BY <1>0, <3>8, <3>12, <4>2 DEF QuietInv
      <4> QED
        BY <4>1, <4>2
    <3> QED
      BY <3>9, <3>10, <3>11, <3>12 DEF QuietInv
  <2> QED
    BY <1>3, <2>1, <2>2 DEF ResolveProfile
<1>4. ASSUME NEW c \in Cmd, GetToken(c) PROVE QuietInv'
  <2>1. /\ pc[c] = "token" /\ pc' = [pc EXCEPT ![c] = "done"]
        /\ sent' \in {sent, [sent EXCEPT ![c] = keychain[job[c].name]]}
        /\ UNCHANGED <<config, keychain, job, copy>>
    BY <1>4 DEF GetToken
  <2>2. NamedOrg(c)
    BY <1>0, <2>1 DEF QuietInv
  <2>3. ASSUME NEW d \in Cmd, sent'[d] # NoToken PROVE sent'[d].org = job'[d].org
    BY <1>0, <2>1, <2>2, <2>3 DEF QuietInv, NamedOrg
  <2>4. \A m \in Name : HasToken(m)'
    BY <1>0, <2>1 DEF QuietInv, HasToken, TokenOf, Store!Has
  <2>5. ASSUME NEW d \in Cmd, pc'[d] = "save", job'[d].kind = "login" PROVE PutLatest(d)'
    BY <1>0, <2>1, <2>5 DEF QuietInv, PutLatest, Redeemed, Store!Has
  <2>6. ASSUME NEW d \in Cmd, pc'[d] = "token" PROVE NamedOrg(d)'
    BY <1>0, <2>1, <2>6 DEF QuietInv, NamedOrg
  <2> QED
    BY <2>3, <2>4, <2>5, <2>6 DEF QuietInv
<1>5. ASSUME NEW c \in Cmd, Start(c) PROVE QuietInv'
  <2>1. /\ UNCHANGED <<config, keychain, sent, copy>> /\ sent[c] = NoToken
        /\ pc'[c] \in {"load", "lock"}
        /\ \A d \in Cmd \ {c} : pc'[d] = pc[d] /\ job'[d] = job[d]
    BY <1>5 DEF Start, StageInv
  <2> QED
    BY <1>0, <2>1, QuietElsewhere
<1>6. ASSUME NEW c \in Cmd, Update(c) \/ UseProfile(c) \/ SetTelemetry(c) \/ Refuse(c) \/ Kill(c),
             ~Save(c)
      PROVE  QuietInv'
  <2>1. UNCHANGED <<config, keychain, sent, job>>
    BY <1>6 DEF Update, TakeLock, GiveUp, Load, SaveFails, Unlock, UseProfile, SetTelemetry,
                Refuse, Kill
  <2>2. \A d \in Cmd : pc'[d] = "save" /\ job'[d].kind = "login" => pc[d] = "save" /\ copy'[d] = copy[d]
    BY <1>6 DEF Update, TakeLock, GiveUp, Load, SaveFails, Unlock, UseProfile, SetTelemetry,
                Refuse, Kill
  <2>3. \A d \in Cmd : pc'[d] = "token" => pc[d] = "token"
    BY <1>6 DEF Update, TakeLock, GiveUp, Load, SaveFails, Unlock, UseProfile, SetTelemetry,
                Refuse, Kill
  <2> QED
    BY <1>0, <2>1, <2>2, <2>3, QuietElsewhere
<1>7. ASSUME NEW c \in Cmd, RemoveProfile(c) \/ DeleteToken(c) PROVE FALSE
  BY <1>0, <1>7 DEF RemoveProfile, DeleteToken, StageInv, NobodyLogsOut
<1>8. CASE UNCHANGED vars
  BY <1>0, <1>8, QuietElsewhere DEF vars
<1> QED
  BY <1>1, <1>2, <1>3, <1>4, <1>5, <1>6, <1>7, <1>8 DEF Next, Update, Change

LEMMA QuietInvInit == Init => QuietInv
BY DEF Init, QuietInv

(***************************************************************************)
(* On a file system with locks, while nobody logs out: every profile keeps *)
(* a token, whatever the keychain refuses and whoever is killed.           *)
(***************************************************************************)
THEOREM ProfilesKeepTokens ==
    ASSUME Locks = TRUE
    PROVE  Spec => []EveryProfileHasToken
<1>1. QuietInv => EveryProfileHasToken
  BY DEF QuietInv, EveryProfileHasToken
<1> QED
  BY <1>1, TypeInvInit, TypeInvStep, LockInvInit, LockInvStep, TokenInvInit, TokenInvStep,
     StageInvInit, StageInvStep, QuietInvInit, QuietInvStep, PTL DEF Spec

(***************************************************************************)
(* Under the same conditions a request, which reads the config and then    *)
(* the keychain without the lock, never has one organization's auth_id and *)
(* another's token.                                                        *)
(***************************************************************************)
THEOREM RequestsAreOwn ==
    ASSUME Locks = TRUE
    PROVE  Spec => []RequestsUseOwnToken
<1>1. QuietInv => RequestsUseOwnToken
  BY DEF QuietInv, RequestsUseOwnToken
<1> QED
  BY <1>1, TypeInvInit, TypeInvStep, LockInvInit, LockInvStep, TokenInvInit, TokenInvStep,
     StageInvInit, StageInvStep, QuietInvInit, QuietInvStep, PTL DEF Spec

(***************************************************************************)
(* And a login that has saved its profile is the one requests under that   *)
(* name use from then on.                                                  *)
(***************************************************************************)
THEOREM LatestLoginCounts ==
    ASSUME Locks = TRUE
    PROVE  Spec => LatestLoginUsed
<1> DEFINE Used(c) ==
      NobodyLogsOut /\ job[c].kind = "login" /\ pc[c] = "save" /\ pc'[c] = "saved"
        => TokenOf(job[c].name)' = Redeemed(c)
<1>1. TypeInv /\ QuietInv /\ [Next]_vars => [\A c \in Cmd : Used(c)]_vars
  <2> SUFFICES ASSUME TypeInv, QuietInv, Next, NEW c \in Cmd, NobodyLogsOut,
                      job[c].kind = "login", pc[c] = "save", pc'[c] = "saved"
               PROVE  TokenOf(job[c].name)' = Redeemed(c)
    OBVIOUS
  <2>1. PICK d \in Cmd : Start(d) \/ Update(d) \/ Change(d) \/ DeleteToken(d)
                           \/ ResolveProfile(d) \/ GetToken(d) \/ Kill(d)
    BY DEF Next
  <2>2. Save(c)
    BY <2>1 DEF Start, Update, TakeLock, GiveUp, Load, Save, SaveFails, Unlock, Change,
                PersistProfile, RemoveProfile, UseProfile, SetTelemetry, Refuse, DeleteToken,
                ResolveProfile, GetToken, Kill, Goto, Returns, Edits, TypeInv, TypeOK
  <2>3. config' = copy[c] /\ keychain' = keychain /\ job' = job /\ PutLatest(c)
    BY <2>2 DEF Save, QuietInv
  <2> QED
    BY <2>3 DEF PutLatest, TokenOf
<1> QED
  BY <1>1, TypeInvInit, TypeInvStep, LockInvInit, LockInvStep, TokenInvInit, TokenInvStep,
     StageInvInit, StageInvStep, QuietInvInit, QuietInvStep, PTL DEF Spec, LatestLoginUsed
=============================================================================
