SPECIFICATION Spec
CONSTANTS
    d1 = d1
    d2 = d2
    None = None
    Torn = Torn
    Destination = {d1, d2}
    Scenarios <- Configured
    Named = d2
    MaxRuns = 2
    MaxTexts = 2
CHECK_DEADLOCK FALSE
INVARIANTS
    ResponsesAreOwn
    LastActiveSurvives
PROPERTIES
    PulsesEnd
