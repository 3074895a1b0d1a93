SPECIFICATION FairSpec
CONSTANTS
    Demands = {d1, d2}
    Clicks = {c1, c2, c3}
    Weathers <- AllWeathers
CHECK_DEADLOCK FALSE
INVARIANTS
    Once
    VerdictTrue
    EstimatesRollBack
PROPERTIES
    Settles
