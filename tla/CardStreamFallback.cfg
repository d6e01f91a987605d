CONSTANTS
    MaxText = 1
    MaxProcess = 2
    MaxRetries = 1
    MaxSequence = 3
SPECIFICATION Spec
CHECK_DEADLOCK FALSE
INVARIANTS
    FallbackOnFailure
