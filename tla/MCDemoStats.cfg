SPECIFICATION DemoSpec
CONSTANTS
  MaxCount = 1
  MaxCrashes = 1
  Batch = 2
  MaxPops = 3
INVARIANTS SnapshotConsistent ResetNotUndone CountersConsistent WrapsOnlyWhenTorn
PROPERTIES LockReleased ImplementsStatsPage
CHECK_DEADLOCK FALSE
