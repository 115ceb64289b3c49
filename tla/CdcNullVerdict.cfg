\* A quarantine rule that evaluates to NULL.
CONSTANTS
    k1 = k1
    k2 = k2
    Keys <- OneKey
    Rules <- SplitRules
    Rows <- AllRows
    Configs <- SoftConfig
    Durations <- ShortDurations
    MaxEvents = 1
    MaxRedeliveries = 0
    MaxTime = 0
SPECIFICATION Spec
INVARIANTS
    NoRowLost
CHECK_DEADLOCK FALSE
