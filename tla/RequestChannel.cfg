\* Two calls; two connections that may claim the same worker id; three
\* registrations, so that one connection can register again.
CONSTANTS
    Calls = {c1, c2}
    Workers = {w1}
    Conns = {k1, k2}
    Streams = {s1, s2, s3}
    NoWorker = NoWorker
    NoStream = NoStream
    NoConn = NoConn
    NoReply = NoReply
SPECIFICATION Spec
SYMMETRY Symmetry
INVARIANTS
    NoCrossTalk
    NoLostWakeup
    NoLeak
    ReceiveLoopNeverBlocks
PROPERTIES
    ImplementsRequestReply
\* Every connection may end and every call return.
CHECK_DEADLOCK FALSE
