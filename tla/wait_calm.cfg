SPECIFICATION Spec
CONSTANTS
    None = None
    s1 = s1
    s2 = s2
    s3 = s3
    Execs = {1, 2}
    Tokens = {11, 12, 13, 14}
    WaitSteps = {s1, s2, s3}
    Level <- Chain
    Tries <- FirstTwice
    Env = {"toggle", "mail", "owner"}
CHECK_DEADLOCK FALSE
CONSTRAINT FewAsked
INVARIANTS
    WaitingIsAnswerable
    PendingIsAwaited
    AnsweredNotAskedAgain
PROPERTIES
    KeepsPromise
