SPECIFICATION FairSpec
CONSTANTS
  Handles <- OneHandle
  Capacity = 1
  RxSize = 1
  IngressChunk = 1
  EgressChunk = 2
  UrcCapacity = 1
  Types <- Tcp
  HexMode = TRUE
  Lossy = FALSE
  SendSizes <- NoSends
  MaxBytes = 2
  MaxIncarnations = 1
PROPERTY LossIsNoticed
