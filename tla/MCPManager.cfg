SPECIFICATION FairSpec
CHECK_DEADLOCK FALSE
CONSTANTS
    Tasks = {t1, t2}
    Servers = {s1, s2}
    None = None
    MaxCloses = 1
INVARIANTS
    PrefixIsOwn
    AggregatedUntilClose
    StartedOnce
PROPERTIES
    CallsEnd
