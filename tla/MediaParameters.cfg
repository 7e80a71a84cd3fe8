\* A producer of any of seven offers and two peers it is pushed to and who may
\* pull it, one of them with up to two transports.
CONSTANTS
    v1 = v1
    v2 = v2
    Owner = Owner
    Peers = {v1, v2}
    Offers <- SomeOffers
    Contained <- Uris
    Preferred <- Ids
    Modulus = 65536
    MaxTransports <- TwoForOne
    NoOffer = NoOffer
SPECIFICATION Spec
INVARIANTS
    DeclaredAsOffered
    MappingMeetsConsumers
    LaterConsumersAgree
    ToldIdsAreConfigured
    FeedbackIsTrimmed
    OneTransportPerUser
\* There is one producer, and the process may end.
CHECK_DEADLOCK FALSE
