\* Two users of one room, and up to two rooms made for its id.
CONSTANTS
    Users = {u1, u2}
    TheRoom = TheRoom
    Clients <- AllMessages
    RoomIds <- OneRoomId
    RoomOf <- SameRoom
    Rooms = {r1, r2}
    NoUser = NoUser
    NoRoom = NoRoom
SPECIFICATION Spec
SYMMETRY Symmetry
INVARIANTS
    NoRouterLeft
\* The process may end, and Run may wait for ever.
CHECK_DEADLOCK FALSE
