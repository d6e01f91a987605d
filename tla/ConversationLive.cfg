CONSTANTS
    Keys = {k1, k2}
    Kinds = {"prompt", "new", "workspace", "model", "resume"}
    MaxTurns = 2
    MaxStatus = 1
    MaxStops = 1
    Workspaces = {w1, w2}
    DefaultWorkspace = w1
    Models = {m1, m2}
    DefaultModel = m1
    QueueTimeouts = FALSE
    PromptTimeouts = TRUE
SPECIFICATION FairSpec
CHECK_DEADLOCK FALSE
INVARIANTS
    PromptUsesChoice
PROPERTIES
    ImplementsTurnQueue
    EveryTurnEnds
