\* Two of each kind that races with itself, one of the others.
CONSTANTS
    Editors = {e1, e2}
    Deleters = {d1}
    Growers = {g1, g2}
    Bookers = {b1}
    MaxCount = 2
    BatchSize = 2
    None = None
SPECIFICATION Spec
\* Every request ends.
CHECK_DEADLOCK FALSE
INVARIANTS
    TypeOK
    ReservationsKeepTheirEvent
    BulkIsAllOrNothing
    LosersHaveAWinner
PROPERTY UpdatesBuildOnWhatWasRead
