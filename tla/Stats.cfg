SPECIFICATION Spec
CONSTANTS
    Model = {m1, m2}
    Tokens = {1, 2}
    Window = 1
    Retention = 2
    DayLength = 3
    KeepDays = 1
    SpeedWindow = 2
    MaxTime = 7
    MaxRecords = 4
    MaxRestarts = 1
SYMMETRY Symmetry
INVARIANTS
    TypeOK
    AccountsAgree
    EventsAreLatest
