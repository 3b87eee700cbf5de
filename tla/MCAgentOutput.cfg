SPECIFICATION FairOutput
CONSTANTS
    a1 = a1
    a2 = a2
    t1 = t1
    t2 = t2
    Agent = {a1, a2}
    Client = {t1, t2}
    MaxRecords = 5
    Setups <- SetupSet
    Absent = Absent
CHECK_DEADLOCK FALSE
INVARIANTS
    PrintsEveryRecordOnce
    ReplayIsWhole
    SubscriptionsBelong
PROPERTIES
    DueRecordsArePrinted
