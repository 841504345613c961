CONSTANTS
  Program <- EndpointCommands
  MaxAttempts = 3
  MaxPages = 3
  PageRetries = 2
SPECIFICATION Spec
INVARIANT NeverInvitesSecondSend
CHECK_DEADLOCK FALSE
