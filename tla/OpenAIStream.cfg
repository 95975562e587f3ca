SPECIFICATION FairSpec
CONSTANTS
    Line <- MCLine
    MaxLines = 3
    MaxWait = 1
    BodyTime = 2
INVARIANTS
    TypeOK
    RelayedInOrder
    UsageCounted
PROPERTY StreamEnds
