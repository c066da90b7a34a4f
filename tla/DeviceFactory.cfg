SPECIFICATION Spec
CONSTANTS
  HasPowerPin = TRUE
  HasVintPin = TRUE
  HasResetPin = TRUE
  Upsd = FALSE
  PsdProfile = TRUE
  UpsdParams = 1
  TimeoutLimit = 1
  U8Max = 2
  AttachTries = 2
  IngressSends = 1
  UrcCapacity = 1
  UrcKinds <- QuietUrcs
  Calls <- FactoryCalls
INVARIANT ConfiguredWhenReady
