CONSTANTS
    m1 = m1
    m2 = m2
    Call = {c1, c2}
    Msg = {m1, m2}
    None = None
    LockAttempts = 2
    Proc = {p1, p2}
    Scenarios <- MCScenarios
    GroupPolicy = "mention"
    AlsoOnReply = TRUE
    SeenMax = 1
SPECIFICATION FairSpec
CHECK_DEADLOCK FALSE
INVARIANTS
    TypeOK
    HandledOnce
    RecordsTrue
    AnsweredNotFailed
    DroppedHasTwin
    TopicTogether
PROPERTIES
    EveryEventEnds
