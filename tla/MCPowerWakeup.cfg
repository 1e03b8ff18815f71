CONSTANTS
    Readers = {r1, r2}
    StaleTickle = FALSE
SPECIFICATION Spec
INVARIANT OnLeavesNobodyAsleep
CHECK_DEADLOCK FALSE
