SPECIFICATION FairSpec
CONSTANTS
  Requests = {r1, r2}
  MacroFeeds <- Macro
  EcosFeeds <- Korean
  Filings <- Company
  Wishes <- Asked
  r1 = r1
  r2 = r2
  Lookback <- Back
  Lag <- Slack
  MaxAge <- Ages
  Ttl = 1
  PriceMaxAge = 1
  FundamentalMaxAge = 3
  DisclosureMaxAge = 2
  None = None
  Start = 4
  MaxTime = 5
  MaxSetBacks = 1
INVARIANTS BundlesAreAccepted NoHindsight LostEvidenceIsReported
PROPERTIES NoNeedlessFetch RequestsEnd
CHECK_DEADLOCK FALSE
