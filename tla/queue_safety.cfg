SPECIFICATION Spec
CONSTANTS
    n1 = n1
    n2 = n2
    n3 = n3
    w1 = w1
    w2 = w2
    pA = pA
    pB = pB
    NoRow = NoRow
    Notifs = {n1, n2, n3}
    Malformed = {n3}
    Procs = {pA, pB}
    Workers = {w1, w2}
    ProcOf <- OneEach
    BatchLimit = 2
    MaxAttempts = 2
    MaxDaily = 0
    MaxTries = 2
    Provider = {"ok", "busy", "rejected"}
    Faults = {"crash", "stop", "dbfail"}
INVARIANTS
    TypeOK
    ExclusiveClaim
    AcceptedOnce
    AttemptBudget
    AuditTrail
    StatusHonest
PROPERTIES
    TerminalStays
    ImplementsOutbox
