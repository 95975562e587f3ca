SPECIFICATION FairSpec
CONSTANTS
    Request = {r1, r2}
    MaxStarts = 3
INVARIANTS
    TypeOK
    SavedIsKept
PROPERTY ImplementsDurable SignalEndsProcess
