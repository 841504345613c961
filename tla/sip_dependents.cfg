CONSTANTS
  t1 = t1
  t2 = t2
  t3 = t3
  n1 = n1
  n2 = n2
  u1 = u1
  u2 = u2
  c1 = c1
  c2 = c2
  Cmd = {c1, c2}
  Trunk = {t1, t2, t3}
  URI = {u1, u2}
  Number = {n1, n2}
  FirstTrunks <- TwoTrunks
  FirstNumbers <- OneOrTwoNumbers
  Places <- AnyPlace
  Jobs <- EveryJob
  PageSize = 1
  MaxOther = 1
  NoURI = NoURI
  NoTrunk = NoTrunk
  NoJob = NoJob
SPECIFICATION FirstSpec
INVARIANTS TypeOK UnforcedSpares ReportedTrunks
PROPERTY KeptIfSteady
CHECK_DEADLOCK FALSE
SYMMETRY CmdSymmetry
