\* Two users, each of whom may make any of three producers: one list of three
\* consumers, or two users who tell each other.
CONSTANTS
    a1 = a1
    a2 = a2
    v1 = v1
    Users = {u1, u2}
    Producers = {a1, a2, v1}
    KindOf <- Kinds
    NoUser = NoUser
    NoProducer = NoProducer
SPECIFICATION Spec
SYMMETRY Symmetry
INVARIANTS
    FullMesh
    MidsDistinct
    ClosedIsTold
\* Everyone may have left, or have nothing more to produce.
CHECK_DEADLOCK FALSE
