SPECIFICATION FairSpec
CONSTANTS
    Creates  = {c1, c2}
    Manages  = {m1}
    Cleaners = {w1}
    Viewers  = {}
    Seats    = {s1}
    Late     = {}
    Keys     = {k1, k2}
    Wanted  <- AnySeats
    MaxTries = 1
    None     = None
    Failed   = Failed
PROPERTIES
    RequestsAreAnswered
    ReservedSeatsMoveOn
    KeysAreIdempotent
