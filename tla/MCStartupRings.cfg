SPECIFICATION StartupSpec
CONSTANTS
  Senders = 2
  MaxKills = 1
INVARIANT RingsHaveOneConsumer
CHECK_DEADLOCK FALSE
