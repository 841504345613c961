CONSTANTS
  A = A
  B = B
  Cmd = {c1, c2}
  Org = {A, B}
  MaxName = 1
  Kinds = {"login", "logout"}
  Locks = TRUE
  MaxLive = 2
  MaxKills = 0
  Earlier = Earlier
  NoConfig = NoConfig
  NoName = NoName
  NoOrg = NoOrg
  NoToken = NoToken
  Nobody = Nobody
SYMMETRY Symmetry
SPECIFICATION Spec
PROPERTY DeletedOnceGone
CHECK_DEADLOCK FALSE
