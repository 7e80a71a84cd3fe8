\* Liveness, without symmetry: one connection that may register twice and
\* break at any point of either call.
CONSTANTS
    Calls = {c1, c2}
    Workers = {w1}
    Conns = {k1}
    Streams = {s1, s2}
    NoWorker = NoWorker
    NoStream = NoStream
    NoConn = NoConn
    NoReply = NoReply
SPECIFICATION FairSpec
PROPERTIES
    EveryCallReturns
\* Every connection may end and every call return.
CHECK_DEADLOCK FALSE
