SPECIFICATION FairSpec
CONSTANTS
    None = None
    s1 = s1
    s2 = s2
    s3 = s3
    Execs = {1, 2}
    Tokens = {11, 12}
    WaitSteps = {s1}
    Level <- Single
    Tries <- Once
    Env = {"toggle", "mail", "unscheduled", "misfire", "crash", "dberror"}
CHECK_DEADLOCK FALSE
INVARIANTS
    NoStaleResume
PROPERTIES
    EveryRunEnds
