\* One connection that may use both ids, with two workers online at a time.
CONSTANTS
    Workers = {w1, w2}
    Objs = {o1, o2}
    Conns = {k1}
    Routers = {r1}
    Reports <- BothReports
    HeartbeatTimeout = 1
    CleanupInterval = 1
    Modulus = 65536
    NoWorker = NoWorker
    NoObj = NoObj
    NoConn = NoConn
SPECIFICATION Spec
SYMMETRY Symmetry
INVARIANTS
    TypeOK
    CountTracksRouters
    ClosedNotCounted
    PickIsMaximal
\* Every connection may end and every router be closed with a cleanup due.
CHECK_DEADLOCK FALSE
