SPECIFICATION Spec
CONSTANTS
    f1 = f1
    f2 = f2
    Flow = {f1, f2}
    None = None
    MaxRequests = 3
    MaxSockets = 2
CHECK_DEADLOCK FALSE
INVARIANTS
    AnswersMatch
    LinesAreWhole
PROPERTIES
    FlowsGoOn
