SPECIFICATION FairSpec
CONSTANTS
    Runs = {r1, r2, r3}
    Subjects = {x}
    NoSubject = NoSubject
    Limit = 2
    MaxTime = 2
    MaxStops = 2
    MaxFaults = 1
CHECK_DEADLOCK FALSE
INVARIANTS
    RunsOnceInTime
    TasksMatchRecords
    OutcomeIsTheRuns
PROPERTIES
    SchedulesEnd
