CONSTANTS
    Procs = {p1, p2}
    None = None
    StaleAfter = 2
    HeartbeatEvery = 1
    Patience = 1
    StartWithin = 1
SPECIFICATION FairSpec
CHECK_DEADLOCK FALSE
INVARIANTS
    TimelyExclusion
PROPERTIES
    RecordRespected
    DuplicatesEnd
