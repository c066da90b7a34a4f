SPECIFICATION FairSpec
CONSTANTS
  TcpSockets <- TwoTcp
  UdpSockets <- OneUdp
  EgressChunk = 3
  SendSizes <- Sizes
  Import = Import
  None = None
INVARIANT TypeOK
INVARIANT SendIsWhole
INVARIANT PrefixOnly
INVARIANT GarbledWasReported
PROPERTY RetrySends
