CONSTANTS
    Texts = {t1, t2, long}
    Long = {long}
    Prefix = prefix
    Workers = {w1, w2}
    Messages = {1, 2}
    MaxAttempts = 3
    MaxEdits = 1
    MaxFaults = 1
    SeenAsEqual = {TRUE, FALSE}
    None = none
SPECIFICATION FairSpec
INVARIANTS
    CountedIsEmbedded

    
CHECK_DEADLOCK FALSE
