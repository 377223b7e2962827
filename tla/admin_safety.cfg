SPECIFICATION Spec
CONSTANTS
    Nothing = Nothing
    u1 = u1
    u2 = u2
    l1 = l1
    l2 = l2
    l3 = l3
    p1 = p1
    Users = {u1, u2}
    Lists = {l1, l2, l3}
    Resends = {p1}
    Owner <- OwnerTwo
    TTL = 1
    High = 1
    Low = 0
    Lag = 1
SYMMETRY Interchangeable
CHECK_DEADLOCK FALSE
INVARIANTS
    TypeOK
    ReadsGated
    CacheBounded
PROPERTIES
    AccessFresh
    DenialFresh
