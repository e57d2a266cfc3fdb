SPECIFICATION FairSpec
CONSTANTS
    Creates  = {c1}
    Manages  = {m1}
    Cleaners = {w1}
    Viewers  = {v1}
    Seats    = {s1, s2}
    Late     = {s2}
    Keys     = {k1}
    Wanted  <- AnySeats
    MaxTries = 1
    None     = None
    Failed   = Failed
PROPERTIES
    CacheConverges
