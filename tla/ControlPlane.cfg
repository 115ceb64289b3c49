\* Seven workloads of two tasks, each killed once.
SPECIFICATION Spec
CONSTANTS
    boot = boot  again = again  smoke = smoke  release = release  audit = audit
    ensuring = ensuring  empty = empty  positions = positions
    Tasks <- AllTasks
    Kind <- AllKinds
    Report <- AllReports
    Workloads <- AllWorkloads
    MaxCrashes = 1
\* The tasks return, and a report that cannot be stored is given up.
CHECK_DEADLOCK FALSE
INVARIANTS
    TypeOK
    ReturnedMeansComplete
    ResultsHaveRun
    DuplicatesOnlyAfterCrash
PROPERTIES
    PreparedTasksInferNothing
    FailsOnlyWhenKilled
    ImplementsEvidenceLog
    EveryTaskReturns
