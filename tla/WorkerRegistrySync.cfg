\* Two connections that may use each other's ids; no routers.
CONSTANTS
    Workers = {w1, w2}
    Objs = {o1, o2}
    Conns = {k1, k2}
    Routers = {}
    Reports <- OneReport
    HeartbeatTimeout = 2
    CleanupInterval = 1
    Modulus = 65536
    NoWorker = NoWorker
    NoObj = NoObj
    NoConn = NoConn
SPECIFICATION Spec
SYMMETRY Symmetry
INVARIANTS
    OnlineIffMapped
    SilenceIsBounded
    SoleConnectionStaysRouted
\* Every connection may end and every router be closed with a cleanup due.
CHECK_DEADLOCK FALSE
