SPECIFICATION Spec
CONSTANTS
    Creates  = {c1, c2, c3}
    Manages  = {m1}
    Cleaners = {w1}
    Viewers  = {}
    Seats    = {s1}
    Late     = {}
    Keys     = {k1, k2, k3}
    Wanted  <- AnySeats
    MaxTries = 1
    None     = None
    Failed   = Failed
SYMMETRY Interchangeable
INVARIANTS
    TypeOK
    HoldersAreLive
    ReservedSeatsArePending
    SameKeySameReservation
PROPERTIES
    TablesChangeWhole
    LossesHaveACause
