SPECIFICATION RulesSpec
CONSTANTS
    None = None
    Markets0 <- Companies
    Figures <- Corrections
    Quotes <- Trades
    MaxChanges = 2
    PriceLimit = 3
    Limit = 2
    Profiles = {"balanced"}
    Strategies = {"balanced"}
    Kinds = {"listing", "facts", "accounts"}
    Tickers = {"a", "b1", "b2"}
    KeyOf <- Spelling
    Ciks = {1, 2}
    TagsOf <- Reporting
    Units <- Currencies
    YearSet = {1, 2}
    Dates = {1, 2}
    MaxRows <- RowLimits
    Signals <- Moving
    Readings <- Moves
    Calm <- CalmMarket
    MaxTime = 2
    MaxSteps = 2
CHECK_DEADLOCK FALSE
INVARIANTS
    GapsAreNeutral
    ListingIsWhole
    LatestFilingPrevails
PROPERTIES
    BetterNeverLoses
    WorseNeverLoosens
    LateNewsChangesNothing
