SPECIFICATION HSpec
CONSTANTS
  Keys = {k1, k2, k3, k4}
  Values = {v1, v2}
  N = 3
  None = None
  MaxClock = 7
INVARIANTS UncheckedAccessesDefined RepresentationInvariant ListOrderIsLastUse
PROPERTIES ImplementsLRU EvictsLeastRecentlyUsed
SYMMETRY KeysAndValues
