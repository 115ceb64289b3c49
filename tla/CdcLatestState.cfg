\* Two keys, three changes, one redelivery, every delete policy: the current
\* state Silver shows, and Silver as a latest-state table.
CONSTANTS
    k1 = k1
    k2 = k2
    Keys <- TwoKeys
    Rules <- NoRules
    Rows <- PlainRows
    Configs <- PolicyConfigs
    Durations <- TwoDurations
    MaxEvents = 3
    MaxRedeliveries = 1
    MaxTime = 2
SYMMETRY KeySymmetry
SPECIFICATION Spec
INVARIANTS
    TypeOK
    LatestStateShown
    LatestStateInv
PROPERTIES
    SoftDeletedRowsRemain
    ImplementsLatestState
CHECK_DEADLOCK FALSE
