SPECIFICATION FairSpec
CONSTANTS
    Requests = {r1, r2}
    None     = None
\* The process ends.
CHECK_DEADLOCK FALSE
INVARIANTS
    TypeOK
    ServesMigrated
    PoolsOutliveRequests
    PanicsAreContained
PROPERTIES
    MainNeverHangs
