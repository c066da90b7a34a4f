SPECIFICATION FairSpec
CONSTANTS
  Profiles <- OneProfile
  Names <- OneName
  Contents <- TwoCerts
  Size <- Lengths
  MaxSize = 2
  Hosts <- OneHost
  None = None
  Garbage = Garbage
INVARIANT TypeOK
INVARIANT ImportedWhole
INVARIANT NoDanglingReference
INVARIANT EnabledExactly
PROPERTY RetryCures
