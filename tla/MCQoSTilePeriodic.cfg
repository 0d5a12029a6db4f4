SPECIFICATION FairSpec
CONSTANTS
  Packets <- SmallPackets
  Ports = 2
  BATCH = 1
  CACHE_SIZE = 2
  SIG_CACHE_SIZE = 1
  HeapCapacity = 3
  MaxSend = 1
  MetasPerUpdate = 1
  RingCap = 2
  Scores = {1}
  Base = 2
  MaxArrivals = 3
  AllowExit = FALSE
  MaxRestarts = 0
PROPERTY PeriodicTransmission
