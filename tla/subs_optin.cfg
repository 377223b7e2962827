SPECIFICATION FairSpec
CONSTANTS
    NoToken = NoToken
    a1 = a1
    c1 = c1
    c2 = c2
    s1 = s1
    s2 = s2
    u1 = u1
    Subscribes = {s1, s2}
    Resends = {a1}
    Clicks = {c1}
    Unsubs = {u1}
    Throttle = TRUE
    Budget = 1
    Horizon = 2
    Faults = {"txfail", "acklost", "enqueuefail"}
CHECK_DEADLOCK FALSE
INVARIANTS
    TypeOK
    AnsweredIsResolved
    TokenIffPending
PROPERTIES
    Lifecycle
    LateMailOnly
    PendingHasMail
    PendingIsSettled
