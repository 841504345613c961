---------------------------- MODULE ProfileStore ----------------------------
(***************************************************************************)
(* What config.Update (internal/config/config.go) promises the commands    *)
(* that edit ~/.plivo/config.toml: every saved change was made to the      *)
(* config as it was when it was saved, so a change is one step and none is *)
(* lost.                                                                   *)
(***************************************************************************)
CONSTANTS
    Name,       \* profile names
    Org,        \* organizations, which an auth_id stands for
    Token,      \* auth tokens
    NoName, NoOrg, NoToken

NoProfile == [org |-> NoOrg, token |-> NoToken]
Profile == [org : Org, token : Token \cup {NoToken}] \cup {NoProfile}
Config == [active : Name \cup {NoName}, profiles : [Name -> Profile], telemetry : BOOLEAN]

Has(cfg, n) == cfg.profiles[n] # NoProfile

\* A name a login of organization o may use: nobody's, or its own already.
FreeFor(cfg, n, o) == cfg.profiles[n].org \in {NoOrg, o}

\* The config after a login, a removal, `auth use` and `config telemetry`.
WithProfile(cfg, n, p) ==
    [cfg EXCEPT !.profiles[n] = p, !.active = IF @ = NoName THEN n ELSE @]
Without(cfg, n) ==
    [cfg EXCEPT !.profiles[n] = NoProfile, !.active = IF @ = n THEN NoName ELSE @]
Activated(cfg, n) == [cfg EXCEPT !.active = n]
Telemetry(cfg, on) == [cfg EXCEPT !.telemetry = on]

VARIABLE config

ActiveNamesProfile == config.active # NoName => Has(config, config.active)

Init == config \in Config /\ ActiveNamesProfile

Login(n, o, t) == FreeFor(config, n, o) /\ config' = WithProfile(config, n, [org |-> o, token |-> t])
Remove(n) == Has(config, n) /\ config' = Without(config, n)
Use(n) == Has(config, n) /\ config' = Activated(config, n)
SetTelemetry(on) == config' = Telemetry(config, on)

Next ==
    \/ \E n \in Name, o \in Org, t \in Token \cup {NoToken} : Login(n, o, t)
    \/ \E n \in Name : Remove(n) \/ Use(n)
    \/ \E on \in BOOLEAN : SetTelemetry(on)

Spec == Init /\ [][Next]_config
=============================================================================
