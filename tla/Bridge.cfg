CONSTANTS
    chat = chat
    room = room
    other = other
    gate = gate
    pi = pi
    j1 = j1
    j2 = j2
    Job = {j1, j2}
    Session = {chat, room, other}
    Proc = {gate, pi}
    Task = {t1, t2}
    None = None
    Host <- MCHost
    Home <- MCHome
    Where <- MCWhere
    Mode <- MCMode
    Gateway = gate
    CardParts = 2
    MaxRetries = 1
    MaxRuns = 2
    Scenarios <- MCScenarios
SPECIFICATION FairSpec
CHECK_DEADLOCK FALSE
INVARIANTS
    TypeOK
    JobsKept
    ResultToItsChat
    PostedInOrder
    SentIsPosted
    PendingExact
PROPERTIES
    ResultsArrive
