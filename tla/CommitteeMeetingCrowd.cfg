SPECIFICATION Spec
CONSTANTS
    Sessions = {s1, s2}
    Commands = {c1, c2, c3, c4}
    NoOne = NoOne
    MaxTurns = 2
    Patient = FALSE
    MaxObjects = 4
    MaxStops = 1
    MaxFaults = 0
SYMMETRY Symmetry
CHECK_DEADLOCK FALSE
INVARIANTS
    TurnsTellSpeeches
