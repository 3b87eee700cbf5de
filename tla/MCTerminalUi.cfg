SPECIFICATION UiSpec
CONSTANTS
    a1 = a1
    c1 = c1
    c2 = c2
    None = None
    Agents <- AgentOrder
    Channels <- ChannelOrder
    Start = {"agents", "channels", "dashboard"}
    Mount <- Mounts
    Bounds <- BoundSet
CHECK_DEADLOCK FALSE
INVARIANTS
    ReportsFollowTheirEffect
PROPERTIES
    ListsCatchUp
    ConnectionsAreReleased
