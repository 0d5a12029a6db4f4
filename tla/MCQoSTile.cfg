SPECIFICATION Spec
CONSTANTS
  Packets <- ConstPackets
  Ports = 1
  BATCH = 2
  CACHE_SIZE = 2
  SIG_CACHE_SIZE = 1
  HeapCapacity = 3
  MaxSend = 1
  MetasPerUpdate = 1
  RingCap = 2
  Scores = {1}
  Base = 2
  MaxArrivals = 4
  AllowExit = FALSE
  MaxRestarts = 0
INVARIANTS PacketsAccounted AtMostOneInFlight ReportsCreditSender
PROPERTY ConfirmedNeverSent
