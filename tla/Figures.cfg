SPECIFICATION MeteredSpec
CONSTANTS
    Creates  = {c1, c2}
    Manages  = {m1}
    Cleaners = {w1}
    Viewers  = {v1}
    Seats    = {s1}
    Late     = {s1}
    Keys     = {k1, k2}
    Wanted  <- AnySeats
    MaxTries = 1
    None     = None
    Failed   = Failed
SYMMETRY Interchangeable
INVARIANTS
    MeteredTypeOK
    FiguresFollowRows
    AnswersAreExcused
