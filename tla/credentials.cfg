CONSTANTS
  A = A
  B = B
  Cmd = {c1, c2}
  Org = {A, B}
  MaxName = 2
  Kinds = {"login", "logout", "use", "telemetry", "request"}
  Locks = TRUE
  MaxLive = 2
  MaxKills = 1
  Earlier = Earlier
  NoConfig = NoConfig
  NoName = NoName
  NoOrg = NoOrg
  NoToken = NoToken
  Nobody = Nobody
SPECIFICATION FirstSpec
INVARIANTS TypeOK TokensAreOwn RequestsUseOwnToken EveryProfileHasToken
PROPERTIES ImplementsStore LatestLoginUsed CommandsEnd
CHECK_DEADLOCK FALSE
