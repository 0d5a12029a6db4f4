SPECIFICATION Spec
CONSTANTS
  Senders = 2
  MaxKills = 1
  ChannelCap = 2
  Batch = 2
  MaxPushes = 3
INVARIANTS TypeOK PopOverlooksNothing GeneratorOrderKept SendsCounted RunsUnprivileged
PROPERTY ComesUp
CHECK_DEADLOCK FALSE
