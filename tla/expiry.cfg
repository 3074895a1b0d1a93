SPECIFICATION Spec
CONSTANTS
    None = None
    Questions = {q1}
    Posts = {p1, p2}
    MinWait = 1
    MaxWait = 3
    Margin = 1
    Retention = 3
    Requests = {0, 1, 5}
    Reminders = {0, 1, 2}
    Schedules <- SomeSchedules
    Weathers <- AllWeathers
    Horizon = 6
CHECK_DEADLOCK FALSE
INVARIANTS
    BeforeNextRun
    Reminded
    AnswersSurvive
    FilesFollowRows
