CONSTANTS
  Program <- OneWriteCommands
  MaxAttempts = 3
  MaxPages = 3
  PageRetries = 2
SPECIFICATION Spec
INVARIANTS TypeOK ConsentBeforeWrite NeverInvitesSecondSend NoWriteTwice
  SuccessMeansDone OneDocument
CHECK_DEADLOCK FALSE
