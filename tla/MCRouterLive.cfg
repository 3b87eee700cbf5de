SPECIFICATION FairSpec
CONSTANTS
    d1 = d1
    d2 = d2
    m1 = m1
    m2 = m2
    m3 = m3
    Destination = {d1}
    Session = {m1, m2}
    Null = Null
    Absent = Absent
    Torn = Torn
    Scenarios <- LivenessScenarios
CHECK_DEADLOCK FALSE
PROPERTIES
    HandlersSettle
    ShutdownEnds
