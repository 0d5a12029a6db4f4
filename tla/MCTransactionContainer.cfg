SPECIFICATION Spec
CONSTANTS
  HeapCapacity = 3
  TargetPps = 8
  Interval = 2
  Second = 8
  Scores = {1, 2}
  Sigs = {s1, s2}
  MaxQueued = 4
  MaxNow = 4
SYMMETRY SigSymmetry
INVARIANTS HeapBelowCapacity RateWithinTarget EveryTransactionAccounted NoPriorityInversion
