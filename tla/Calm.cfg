SPECIFICATION CalmSpec
CONSTANTS
    Creates  = {c1, c2}
    Manages  = {m1, m2}
    Cleaners = {w1}
    Viewers  = {}
    Seats    = {s1, s2}
    Late     = {}
    Keys     = {k1, k2}
    Wanted  <- AnySeats
    MaxTries = 2
    None     = None
    Failed   = Failed
SYMMETRY Interchangeable
INVARIANTS
    OwnsItsSeats
    NoDoubleBooking
    ConfirmationsAreKept
PROPERTIES
    KeepsThePromise
