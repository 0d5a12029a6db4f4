SPECIFICATION SSpec
CONSTANTS
  MAX_IPS = 3
  MAX_SIGNERS = 4
  Metas <- ConstMetas
  MaxRepeat = 2
  max_ips = 2
  max_signers = 3
  MinCount = 2
  MaxCalls = 3
  Stakings <- ConstStakings
INVARIANTS InverseMirrorsScores PruneKeepsExtremes ScoresWithinValues MultiplierBounded
PROPERTY SizesBounded
