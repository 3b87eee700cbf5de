SPECIFICATION Spec
CONSTANTS
    None = None
    Shapes <- MCShapes
    Allowed = {1}
    Registered = {"new"}
    MaxUpdates = 2
    MaxLoops = 2
    MaxConnects = 2
    MaxFailures = 2
    MaxEvents = 1
CHECK_DEADLOCK FALSE
INVARIANTS
    ForgottenIsHandled
    RepliesGoHome
PROPERTIES
    UpdatesAreHandled
