SPECIFICATION Spec
CONSTANTS
    None = None
    Programs <- SmallPrograms
    MaxCalls = 3
    MaxRestores = 1
CHECK_DEADLOCK FALSE
INVARIANTS
    SuspensionsAreTheirOwn
    ResultsFollowTheirCalls
PROPERTIES
    CommandsEnd
