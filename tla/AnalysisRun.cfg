SPECIFICATION FairSpec
CONSTANTS
    Runs = {"manual", "scheduled"}
    Scheduled = {"scheduled"}
    Analysts = {fundamental, news}
    Debaters = {bull, bear}
    Chairman = head_trader
    Slots = 1
    MaxDispatches = 2
    MaxStops = 2
    MaxFaults = 1
CHECK_DEADLOCK FALSE
INVARIANTS
    DecisionIsGrounded
    HumanGate
    NoAgentOutlivesRun
    NothingStranded
PROPERTIES
    KeepsPromise
    UndisturbedRunsEnd
