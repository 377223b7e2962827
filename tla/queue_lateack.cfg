SPECIFICATION Spec
CONSTANTS
    n1 = n1
    n2 = n2
    n3 = n3
    w1 = w1
    w2 = w2
    pA = pA
    pB = pB
    NoRow = NoRow
    Notifs = {n1}
    Malformed = {}
    Procs = {pA, pB}
    Workers = {w1, w2}
    ProcOf <- OneEach
    BatchLimit = 1
    MaxAttempts = 3
    MaxDaily = 0
    MaxTries = 2
    Provider = {"ok", "busy"}
    Faults = {"acklost"}
PROPERTY WritesKeepToClaim
