SPECIFICATION Spec
CONSTANTS
  alpha = alpha
  beta = beta
  gamma = gamma
  delta = delta
  s1 = s1
  s2 = s2
  Scans = {s1, s2}
  Starts <- BusyOrQuiet
  Tickers = {alpha, beta, gamma, delta}
  Excluded = 1
  Universes <- Staying
  CikOf <- Shared
  Last <- LastTicker
  Filers = {1}
  Chunks = 2
  ChunkOf <- Place
  MaxYears = 2
  PriceLimit = 1
  Limit = 1
  None = None
INVARIANTS LedgerMatchesTasks CachedBatchIsWhole FunnelNarrows
PROPERTIES ScansEnd
CHECK_DEADLOCK FALSE
