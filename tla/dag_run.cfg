SPECIFICATION Spec
CONSTANTS
    Steps = {1, 2, 3, 4}
    Flows <- AllFlows
    Retries = 1
CHECK_DEADLOCK FALSE
INVARIANTS
    TypeOK
    NeverStalls
    SettledFirst
    FailureStops
    SkippedForCause
    InputsUnlessShared
    NothingTwice
    JournalWhole
    HonestVerdict
    DeliveredStands
