SPECIFICATION FairSpec
CONSTANTS
    h1 = h1
    h2 = h2
    Unset = Unset
    NotANumber = NotANumber
    NoConfig = NoConfig
    Half = 16
    Addresses = {"a", "b", "p", "q"}
    Texts = {"x"}
    Blank = ""
    Envs <- MCEnvs
    Headers <- MCHeaders
    Handlers = {h1, h2}
    Faults = {"boot", "listen", "gone", "dbfail"}
CHECK_DEADLOCK FALSE
INVARIANTS
    TypeOK
    ConfigAgrees
    KeyOfClient
    PoolsOutliveUsers
    ExitAccounted
PROPERTIES
    ShutdownEnds
    Served
