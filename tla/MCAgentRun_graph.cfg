\* Every plan, scope, request and setting of the small sets.
SPECIFICATION RunSpec
CONSTANTS
  b7 = b7
  b8 = b8
  north = north
  Branch = {b7, b8}
  OtherName = {north}
  Requests <- SomeRequests
  Scopes <- SomeScopes
  Settings <- SomeSettings
  ModelPlans <- SomeModelPlans
  Metrics <- SomeMetrics
  Dims <- SomeDims
  MaxAttempts = 2
  InitialDelay = 4
  Multiplier = 4
  MaxDelay = 3
  JitterPercent = 50
  CallTime = 5
  Raised = {"APITimeoutError", "BadRequestError"}
INVARIANTS TypeOK WithinGrant WithinBranches ServedOrPrevious StateIsValid ToldInFull
  HeldBriefly GivesUpForCause FailuresTold
PROPERTIES ImplementsGrounded
CHECK_DEADLOCK FALSE
