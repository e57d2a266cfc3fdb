SPECIFICATION FairSpec
CONSTANTS
    Creates = {c1, c2}
    Manages = {m1, m2}
    Pools  <- TwoServers
    MaxConns = 2
    Seats   = {s1, s2}
    Late    = {}
    Keys    = {k1, k2}
    Wanted <- AnySeats
    None    = None
    c1 = c1
    c2 = c2
    m1 = m1
    m2 = m2
\* Every transaction ends.
CHECK_DEADLOCK FALSE
INVARIANTS
    HoldersAreLive
    ReservedSeatsArePending
    TypeOK
    MatchesHold
    NeverStuck
PROPERTIES
    TransactionsAreAtomic
    TransactionsEnd
