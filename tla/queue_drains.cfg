SPECIFICATION FairSpec
CONSTANTS
    n1 = n1
    n2 = n2
    n3 = n3
    w1 = w1
    w2 = w2
    pA = pA
    pB = pB
    NoRow = NoRow
    Notifs = {n1, n2, n3}
    Malformed = {}
    Procs = {pA, pB}
    Workers = {w1, w2}
    ProcOf <- OneEach
    BatchLimit = 1
    MaxAttempts = 2
    MaxDaily = 1
    MaxTries = 1
    Provider = {"ok", "busy"}
    Faults = {"crash", "stop", "dbfail"}
INVARIANT CapOvershoot
PROPERTY Drains
