SPECIFICATION FairSpec
CONSTANTS
  Packets <- MixedPackets
  Ports = 2
  BATCH = 1
  CACHE_SIZE = 2
  SIG_CACHE_SIZE = 1
  HeapCapacity = 3
  MaxSend = 1
  MetasPerUpdate = 1
  RingCap = 2
  Scores = {0, 1}
  Base = 2
  MaxArrivals = 2
  AllowExit = TRUE
  MaxRestarts = 1
INVARIANTS PacketsAccounted AtMostOneInFlight FailuresAreIpv4
PROPERTIES InputsServed ExitHonoured
CHECK_DEADLOCK FALSE
