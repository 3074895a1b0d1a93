SPECIFICATION FairSpec
CONSTANTS
    r1 = r1
    r2 = r2
    r3 = r3
    Runs = {r1, r2}
    Schedules = 1
    Requests = {q1}
    MaxFailures = 2
    Scenes <- Ends
CHECK_DEADLOCK FALSE
PROPERTIES
    RunsEnd
