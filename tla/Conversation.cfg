SPECIFICATION Spec
CONSTANTS
    Function = {"f", "g"}
    Setting <- MCSetting
    Reply <- MCReply
    MaxAnswers = 3
    MaxCalls = 2
INVARIANTS
    TypeOK
    NothingSaidIsLost
    IdsDistinct
    ResultsReachCalls
    AnswersArrive
