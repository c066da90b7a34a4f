SPECIFICATION DriverSpec
CONSTANTS
  HasPowerPin = FALSE
  HasVintPin = FALSE
  HasResetPin = TRUE
  Upsd = TRUE
  PsdProfile = TRUE
  UpsdParams = 2
  TimeoutLimit = 1
  U8Max = 2
  AttachTries = 2
  IngressSends = 1
  UrcCapacity = 1
  UrcKinds <- DropUrcs
  Calls <- ManualCalls
INVARIANT ServiceReady
PROPERTY ConnectionPromise
PROPERTY PowerOnReturns
