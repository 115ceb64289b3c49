\* Three rules, all verdicts of the two that split, fair streams and delivery.
CONSTANTS
    k1 = k1
    k2 = k2
    Keys <- OneKey
    Rules <- SplitRules
    Rows <- AllRows
    Configs <- SoftConfig
    Durations <- ShortDurations
    MaxEvents = 2
    MaxRedeliveries = 1
    MaxTime = 1
SPECIFICATION FairSpec
INVARIANTS
    RowsSeparated
PROPERTIES
    EveryValidChangeApplied
CHECK_DEADLOCK FALSE
