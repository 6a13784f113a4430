CONSTANTS
    Texts = {t1, t2}
    Long = {}
    Prefix = prefix
    Workers = {w1, w2}
    Messages = {1, 2}
    MaxAttempts = 2
    MaxEdits = 1
    MaxFaults = 0
    SeenAsEqual = {TRUE}
    None = none
SPECIFICATION Spec
INVARIANT StalenessDetected
CHECK_DEADLOCK FALSE
