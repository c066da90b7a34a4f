SPECIFICATION FairSpec
CONSTANTS
  CheckInterval = 1
  RegTimeout = 3
  StickyUnit = 1
  U8Max = 2
  AgeCap = 3
  Reports <- MixedReports
INVARIANT TypeOK
INVARIANT BackOff
INVARIANT TimeoutEarned
PROPERTY Implements
PROPERTY ConnectingEnds
