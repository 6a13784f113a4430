CONSTANTS
    Calls = {k1, k2}
    Files = {f1, f2}
    Empty = {f2}
    MaxUploads = 3
    MaxFaults = 1
SPECIFICATION Spec
INVARIANTS
    TypeOK
    OneResumePerFile
    PrimaryKept
    NothingHalfDone
CHECK_DEADLOCK FALSE
