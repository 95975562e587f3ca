SPECIFICATION Spec
CONSTANTS
    Function = {"f", "g"}
    Setting <- MCSetting
    Reply <- MCReply
    MaxAnswers = 2
    MaxCalls = 2
INVARIANTS
    ResultsForwarded
