CONSTANTS
  own1 = own1
  own2 = own2
  domain = domain
  stray = stray
  NoURL = NoURL
  NoState = NoState
  NoRun = NoRun
  Run = {r1, r2}
  Own = {own1, own2}
  Ngrok = {domain}
  Stray = {stray}
  InitialURL <- AnyStart
  MaxFaults = 2
  MaxEdits = 1
  PidReuse = TRUE
SPECIFICATION FairSpec
INVARIANTS TypeOK OriginalNeverThrowaway OwnerURLRecoverable ServingRestoresOwed
PROPERTIES LostOnlyWhileRecovering StopsOnlyDeadTunnels TunnelLossRestores
CHECK_DEADLOCK FALSE
