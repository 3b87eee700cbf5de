SPECIFICATION Spec
CONSTANTS
    d1 = d1
    d2 = d2
    m1 = m1
    m2 = m2
    m3 = m3
    Destination = {d1, d2}
    Session = {m1, m2, m3}
    Null = Null
    Absent = Absent
    Torn = Torn
    Scenarios <- SafetyScenarios
SYMMETRY Symmetric
CHECK_DEADLOCK FALSE
INVARIANTS
    IndexesAgree
    FileSound
    ConversationsStayApart
    FollowUpsReachARun
PROPERTIES
    ConvSpec
    KeepsTheConversation
