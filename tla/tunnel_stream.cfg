SPECIFICATION FairSpec
CONSTANTS
  MaxChunks <- MCMaxChunks
  HighWater = 1
  QueueSize = 1
  SocketBuffer = 1
PROPERTIES
  CarriesTwoByteStreams
  GetsThroughBothWays
  ClosesBothEnds
CHECK_DEADLOCK FALSE
