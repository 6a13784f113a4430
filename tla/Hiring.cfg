SPECIFICATION Spec
SYMMETRY Interchangeable
CONSTANTS
    Handlers = {h1, h2}
    Stages = {1, 2, 3, 4}
    Rejecting = {3}
    Candidates = {c}
    MaxStages = 3
    MaxCalls = 4
    None = none
INVARIANTS
    TypeOK
    ReferencesHold
    TwoStagesRemain
    HistoryTells
PROPERTIES
    LifecycleRespected
CHECK_DEADLOCK FALSE
