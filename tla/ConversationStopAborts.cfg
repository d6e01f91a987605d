CONSTANTS
    Keys = {k1}
    Kinds = {"prompt"}
    MaxTurns = 2
    MaxStatus = 0
    MaxStops = 1
    Workspaces = {w1}
    DefaultWorkspace = w1
    Models = {m1}
    DefaultModel = m1
    QueueTimeouts = FALSE
    PromptTimeouts = FALSE
SPECIFICATION Spec
CHECK_DEADLOCK FALSE
PROPERTIES
    StopAbortsOnlyItsRun
