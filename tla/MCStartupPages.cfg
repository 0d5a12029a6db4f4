SPECIFICATION StartupFairSpec
CONSTANTS
  Senders = 2
  MaxKills = 1
PROPERTY StandardPagesSuffice
CHECK_DEADLOCK FALSE
