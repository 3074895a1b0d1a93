SPECIFICATION Spec
CONSTANTS
    Demands = {d1, d2}
    Clicks = {c1}
    Weathers <- Shared
CHECK_DEADLOCK FALSE
INVARIANTS
    EstimatesLeaveNothing
