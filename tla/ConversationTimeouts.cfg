CONSTANTS
    Keys = {k1}
    Kinds = {"prompt", "new", "workspace", "model", "resume"}
    MaxTurns = 2
    MaxStatus = 0
    MaxStops = 2
    Workspaces = {w1}
    DefaultWorkspace = w1
    Models = {m1}
    DefaultModel = m1
    QueueTimeouts = TRUE
    PromptTimeouts = TRUE
SPECIFICATION TimerSpec
CHECK_DEADLOCK FALSE
INVARIANTS
    NoCardLeftRunning
    StoppedStaysStopped
    RegisteredIsPrompting
PROPERTIES
    FirstConclusionWins
    OwnRegistration
    NeverBlocked
