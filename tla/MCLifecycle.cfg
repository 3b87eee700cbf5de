SPECIFICATION FairSpec
CONSTANTS
    Channel = {c1}
    Message = {m1}
    Handler = {"rpc", "channels", "router", "coordinator", "conversations"}
    MayFail = TRUE
    MayHang = {"coordinator"}
    MaxSignals = 2
    MaxRequests = 2
CHECK_DEADLOCK FALSE
INVARIANT
    ShutdownIsOrderly
PROPERTY
    ShutdownEnds
