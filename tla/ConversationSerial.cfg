CONSTANTS
    Keys = {k1, k2}
    Kinds = {"prompt", "new", "workspace", "model", "resume"}
    MaxTurns = 3
    MaxStatus = 0
    MaxStops = 1
    Workspaces = {w1, w2}
    DefaultWorkspace = w1
    Models = {m1, m2}
    DefaultModel = m1
    QueueTimeouts = FALSE
    PromptTimeouts = FALSE
SPECIFICATION Spec
CHECK_DEADLOCK FALSE
INVARIANTS
    TurnsInOrder
    PromptedSessionLive
    FileInWorkspace
    RegistryExact
    OwnDeltas
