\* The same with a single room, without symmetry, under fairness.
CONSTANTS
    Users = {u1, u2}
    TheRoom = TheRoom
    Clients = {"caps", "join"}
    RoomIds <- OneRoomId
    RoomOf <- SameRoom
    Rooms = {r1}
    NoUser = NoUser
    NoRoom = NoRoom
SPECIFICATION FairSpec
PROPERTIES
    WriterLeaves
    RunStopsOnlyOnStuckPeer
\* The process may end, and Run may wait for ever.
CHECK_DEADLOCK FALSE
