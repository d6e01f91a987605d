CONSTANTS
    r1 = r1
    r2 = r2
    r3 = r3
    policy = policy
    words = words
    plain = plain
    other = other
    junk = junk
    Run = {r1, r2, r3}
    None = None
    Key = {policy, words}
    Policy = policy
    Value = {plain, other}
    Input = {plain, other, junk}
    Default = plain
    EnvValue <- MCEnvValue
    Cases <- MCCases
SPECIFICATION FairSpec
CHECK_DEADLOCK FALSE
INVARIANTS
    TypeOK
    SettingsHold
    StopReaches
PROPERTIES
    StartConnects
