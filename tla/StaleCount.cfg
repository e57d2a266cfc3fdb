SPECIFICATION PromptSpec
CONSTANTS
    Creates  = {c1}
    Manages  = {m1}
    Cleaners = {w1}
    Viewers  = {v1}
    Seats    = {s1, s2}
    Late     = {}
    Keys     = {k1}
    Wanted  <- AnySeats
    MaxTries = 1
    None     = None
    Failed   = Failed
INVARIANTS
    CacheIsFresh
