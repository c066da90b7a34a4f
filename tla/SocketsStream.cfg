SPECIFICATION FairSpec
CONSTANTS
  Handles <- OneHandle
  Capacity = 1
  RxSize = 2
  IngressChunk = 2
  EgressChunk = 2
  UrcCapacity = 1
  Types <- Both
  HexMode = TRUE
  Lossy = TRUE
  SendSizes <- LongSend
  MaxBytes = 3
  MaxIncarnations = 2
INVARIANT TypeOK
INVARIANT StreamIntact
INVARIANT SendComplete
PROPERTY StreamPromise
PROPERTY DataIsDelivered
