SPECIFICATION Spec
CONSTANTS
  alpha = alpha
  beta = beta
  gamma = gamma
  delta = delta
  s1 = s1
  s2 = s2
  Scans = {s1}
  Starts <- Quiet
  Tickers = {alpha, beta, gamma, delta}
  Excluded = 1
  Universes <- Exchanging
  CikOf <- Distinct
  Last <- LastTicker
  Filers = {1, 2}
  Chunks = 2
  ChunkOf <- Place
  MaxYears = 2
  PriceLimit = 1
  Limit = 1
  None = None
INVARIANTS GapsAreShown
CHECK_DEADLOCK FALSE
