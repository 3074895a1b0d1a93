SPECIFICATION Spec
CONSTANTS
    None = None
    Questions = {q1}
    Posts = {p1}
    MinWait = 1
    MaxWait = 3
    Margin = 1
    Retention = 3
    Requests = {0, 1, 5}
    Reminders = {0, 1}
    Schedules <- SomeSchedules
    Weathers <- StepDeleted
    Horizon = 5
CHECK_DEADLOCK FALSE
INVARIANTS
    NoWaitWithoutLink
