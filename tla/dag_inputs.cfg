SPECIFICATION Spec
CONSTANTS
    Steps = {1, 2, 3, 4}
    Flows <- Waiting
    Retries = 1
CHECK_DEADLOCK FALSE
INVARIANTS
    InputsComplete
