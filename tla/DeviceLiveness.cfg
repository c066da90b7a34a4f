SPECIFICATION FairSpec
CONSTANTS
  HasPowerPin = TRUE
  HasVintPin = TRUE
  HasResetPin = TRUE
  Upsd = FALSE
  PsdProfile = FALSE
  UpsdParams = 1
  TimeoutLimit = 1
  U8Max = 2
  AttachTries = 2
  IngressSends = 1
  UrcCapacity = 1
  UrcKinds <- DropUrcs
  Calls <- LoopCalls
INVARIANT ContextRedefined
PROPERTY DeadModemIsReset
PROPERTY ServiceEventually
PROPERTY UrcsKeepFlowing
