\* Three calls: two that share the queue with one to the other service.
CONSTANTS
    Calls = {k1, k2, k3}
    Services = {up, down}
    Reliable = {up}
    Empty = empty
    Malformed = malformed
    Loop = loop
    NoCall = NoCall
SPECIFICATION FairSpec
INVARIANTS
    NothingIsLost
    NotRepeatedAfterSuccess
    SuccessMeansServed
    LoopNeverPanics
PROPERTIES
    EventuallyDelivered
    DeliversAtLeastOnce
