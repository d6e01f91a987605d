CONSTANTS
    MaxText = 1
    MaxProcess = 2
    MaxRetries = 1
    MaxSequence = 3
SPECIFICATION FairSpec
CHECK_DEADLOCK FALSE
INVARIANTS
    StreamUpdatesSerial
    LatestProcessShown
    AnswerReaches
PROPERTIES
    FinalCardStands
    CloseEnds
