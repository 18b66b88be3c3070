SPECIFICATION RestartedSpec
CONSTANTS
    Runs = {"manual"}
    Scheduled = {}
    Analysts = {fundamental, news}
    Debaters = {bull, bear}
    Chairman = head_trader
    Slots = 1
    MaxDispatches = 2
    MaxStops = 1
    MaxFaults = 0
CHECK_DEADLOCK FALSE
PROPERTIES
    LaunchedRunsEnd
