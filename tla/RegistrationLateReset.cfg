SPECIFICATION Spec
CONSTANTS
  CheckInterval = 1
  RegTimeout = 3
  StickyUnit = 1
  U8Max = 2
  AgeCap = 3
  Reports <- IdleReports
INVARIANT NoResetOnceRegistered
