SPECIFICATION Spec
CONSTANTS
    None = None
    s1 = s1
    s2 = s2
    s3 = s3
    Execs = {1}
    Tokens = {11, 12}
    WaitSteps = {s1, s2}
    Level <- Parallel
    Tries <- Once
    Env = {"midrun", "deadline", "overlap", "gap", "toggle", "mail", "timeout", "owner", "slow", "unscheduled", "misfire", "crash"}
CHECK_DEADLOCK FALSE
INVARIANTS
    TypeOK
    OnePipeline
    NoResumeWithoutAnswer
