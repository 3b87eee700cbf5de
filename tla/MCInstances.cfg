SPECIFICATION FairSpec
CONSTANTS
    Instance = {d1, d2, d3}
    Starter = {s1, s2, s3}
    Stopper = {t1}
    Chat = {k1}
    Setups <- SetupSet
    Nobody = Nobody
CHECK_DEADLOCK FALSE
INVARIANTS
    ServesAlone
    StoppedIsStopped
    RestartsCarryOn
PROPERTY
    CommandsEnd
