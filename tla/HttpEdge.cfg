SPECIFICATION Spec
CONSTANTS
    Requests = {r1, r2}
    Keys = {k1}
    Unknown = Unknown
    None = None
    Limit = 1
    TTL = 2
    MinRefetch = 2
INVARIANTS BodyWithinLimit
PROPERTIES StaleKeyNeedsOutage NewKeyGetsIn
