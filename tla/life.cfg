SPECIFICATION Spec
CONSTANTS
    r1 = r1
    r2 = r2
    r3 = r3
    Runs = {r1, r2, r3}
    Schedules = 2
    Requests = {q1, q2}
    MaxFailures = 2
    Scenes <- Days
CHECK_DEADLOCK FALSE
INVARIANTS
    OnePass
    PausedInTime
    DeliveredNotFailed
    ActiveIsScheduled
PROPERTIES
    CompletedByRun
    PauseDeserved
    NoRefire
