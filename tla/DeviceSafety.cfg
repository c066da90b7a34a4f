SPECIFICATION Spec
CONSTANTS
  HasPowerPin = TRUE
  HasVintPin = TRUE
  HasResetPin = TRUE
  Upsd = FALSE
  PsdProfile = TRUE
  UpsdParams = 1
  TimeoutLimit = 2
  U8Max = 3
  AttachTries = 2
  IngressSends = 1
  UrcCapacity = 2
  UrcKinds <- DropUrcs
  Calls <- PowerCalls
INVARIANT TypeOK
INVARIANT ServiceReady
INVARIANT ConfiguredWhenReady
INVARIANT ContextTruth
