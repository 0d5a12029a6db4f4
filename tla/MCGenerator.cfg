SPECIFICATION GSpec
CONSTANTS
  Instructions <- ConstInstructions
  MaxLen = 4
  FirstIxs = 3
  MaxSignatures = 2
  SIGNATURE_COST = 5
  DEFAULT_CUS = 3
  MICRO = 4
  U64 = 64
  None = None
  GoodIps = {g1, g2}
  BadIps = {b1}
  Prices = {0, 9, 63}
  Spoilt = 1
INVARIANTS FeeExactUnlessWrapped GeneratedPriceCounts GoodIpsUnharmed
