SPECIFICATION Spec
CONSTANTS
    NoToken = NoToken
    u1 = u1
    c2 = c2
    c1 = c1
    a1 = a1
    s1 = s1
    s2 = s2
    Subscribes = {s1, s2}
    Resends = {}
    Clicks = {}
    Unsubs = {}
    Throttle = TRUE
    Budget = 1
    Horizon = 3
    Faults = {}
CHECK_DEADLOCK FALSE
INVARIANT ThrottleProtectsLink
