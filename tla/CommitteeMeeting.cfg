SPECIFICATION FairSpec
CONSTANTS
    Sessions = {s1, s2}
    Commands = {c1, c2, c3}
    NoOne = NoOne
    MaxTurns = 2
    Patient = TRUE
    MaxObjects = 4
    MaxStops = 2
    MaxFaults = 1
CHECK_DEADLOCK FALSE
INVARIANTS
    OneSpeaker
    MinutesTellAll
PROPERTIES
    KeepsRecord
    EndIsReached
