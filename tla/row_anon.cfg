SPECIFICATION Spec
CONSTANTS
    NoUser = NoUser
    NoConn = NoConn
    NoToken = NoToken
    r1 = r1
    r2 = r2
    k1 = k1
    k2 = k2
    u1 = u1
    u2 = u2
    Requests = {r1, r2}
    Conns = {k1, k2}
    Users = {u1, u2}
    Faults = {}
CHECK_DEADLOCK FALSE
INVARIANT
    AnonMaySubscribe
