SPECIFICATION Spec
CONSTANTS
    Requests = {r1}
    None     = None
CHECK_DEADLOCK FALSE
INVARIANTS
    ServesWithoutRedis
