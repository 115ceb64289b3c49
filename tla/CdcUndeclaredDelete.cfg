\* A delete expression under another strategy than cdc_delete.
CONSTANTS
    k1 = k1
    k2 = k2
    Keys <- OneKey
    Rules <- NoRules
    Rows <- PlainRows
    Configs <- UndeclaredConfigs
    Durations <- TwoDurations
    MaxEvents = 2
    MaxRedeliveries = 1
    MaxTime = 3
SPECIFICATION Spec
INVARIANTS
    LateRecordsNeverResurrect
CHECK_DEADLOCK FALSE
