SPECIFICATION FairSpec
CONSTANTS
    ToolCall = {t1}
    MaxOutputs = 2
    MaxSends = 2
    MaxOperator = 4
CHECK_DEADLOCK FALSE
INVARIANTS
    OutputIsConserved
    WaitersAreAnswered
PROPERTIES
    PauseHoldsBack
    RunsEnd
