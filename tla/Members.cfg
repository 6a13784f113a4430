SPECIFICATION FairSpec
CONSTANTS
    Users = {a, b}
    Handlers = {h1, h2}
    Processes = {p}
    Redis = redis
    MaxChanges = 2
    MaxFaults = 1
    None = none
    Same = same
INVARIANTS
    AdminRemains
    CacheIsCurrent
PROPERTIES
    StaleRolesEnd
CHECK_DEADLOCK FALSE
