SPECIFICATION Spec
CONSTANTS
    Sessions = {s1, s2}
    Commands = {c1, c2, c3}
    NoOne = NoOne
    MaxTurns = 3
    Patient = FALSE
    MaxObjects = 4
    MaxStops = 0
    MaxFaults = 0
SYMMETRY Symmetry
CHECK_DEADLOCK FALSE
PROPERTIES
    EndedIsFinal
