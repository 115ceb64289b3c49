\* Two identities, three event times, three deliveries, every kind of row.
SPECIFICATION Spec
CONSTANTS
    e1 = e1  e2 = e2
    Ids <- AllIds
    Times <- AllTimes
    Rules <- AllRules
    Rows <- AllRows
    Delay = 1
    Spread = 1
    MaxDeliveries = 3
\* The source has delivered everything.
CHECK_DEADLOCK FALSE
INVARIANTS
    TypeOK
    AtMostOnce
    LostOnlyWhenLate
PROPERTIES
    EveryRowConsumed
