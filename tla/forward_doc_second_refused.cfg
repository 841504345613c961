CONSTANTS
  own1 = own1
  own2 = own2
  domain = domain
  stray = stray
  NoURL = NoURL
  NoState = NoState
  NoRun = NoRun
  Run = {r1, r2}
  Own = {own1, own2}
  Ngrok = {domain}
  Stray = {stray}
  InitialURL <- OwnStart
  MaxFaults = 0
  MaxEdits = 0
  PidReuse = FALSE
SPECIFICATION Spec
INVARIANT NoTwoServe
CHECK_DEADLOCK FALSE
