------------------------------ MODULE Signaling ------------------------------
(***************************************************************************)
(* The signaling server: the goroutines behind a WebSocket connection and  *)
(* the rooms they share (wssServer.go, user.go, roomManager.go and the     *)
(* membership half of room.go).                                            *)
(*                                                                         *)
(*   - WsServer.Run, one goroutine: registers and unregisters users,       *)
(*     creates rooms and closes them;                                      *)
(*   - HandleWebSocket, one goroutine per connection, which hands the user *)
(*     to Run and then starts the two others;                              *)
(*   - User.ReadMessage, one per user: reads the client's messages and     *)
(*     handles each of them to the end;                                    *)
(*   - User.WriteMessage, one per user: writes what it receives from the   *)
(*     channel sendMsg to the connection.                                  *)
(*                                                                         *)
(* Register, Unregister and every sendMsg are channels without a buffer: a *)
(* send and its receive are one step of both goroutines.  A send on a      *)
(* closed channel panics, and a panic ends the process.  The maps rm.rooms *)
(* and r.users are used by all goroutines without a lock; the Go runtime   *)
(* may end the process when a write overlaps another access.               *)
(*                                                                         *)
(* What a message carries is left out; a message is the shape of its       *)
(* handler: which rooms it looks up, to whom it sends.                     *)
(***************************************************************************)
EXTENDS Naturals, FiniteSets

CONSTANTS
    Users,      \* connections; each is one User
    RoomIds,    \* room ids
    RoomOf,     \* the room id in each connection's URL
    Clients,    \* the messages clients send
    Rooms,      \* Room objects; bounds how many are ever created
    NoUser, NoRoom

(* "caps":    getRouterRtpCapabilities - one reply                          *)
(* "request": createWebRtcTransport, connectWebRtcTransport, produceData -  *)
(*            a room, messages to the user itself, a reply                  *)
(* "join":    a room, a notification to every other member, a reply         *)
(* "produce": a room, a request to every other member, requests to the user *)
(*            itself, a reply                                               *)
(* "close":   closeProducer - a room, notifications to some members         *)
Messages == {"caps", "request", "join", "produce", "close"}

ASSUME SignalingAssumption ==
    /\ Clients \subseteq Messages
    /\ RoomOf \in [Users -> RoomIds]
    /\ NoUser \notin Users /\ NoRoom \notin Rooms

VARIABLES
    open,       \* the connections that are open
    registered, \* w.Users
    closed,     \* users whose sendMsg is closed
    reader,     \* the point each user's ReadMessage (before: its
                \* HandleWebSocket) goroutine is at
    writer,     \* the point each user's WriteMessage goroutine is at
    msg,        \* the message the reader is handling
    room,       \* the handler's local room
    todo, seen, \* a map iteration: users it must and has come to
    to,         \* the user a goroutine is sending to
    run,        \* the point Run is at
    runUser, runRoom, runTodo, runTo,   \* Run's locals
    rooms,      \* rm.rooms
    members,    \* r.users of each Room
    router,     \* the router behind each Room
    crashed,    \* the process has ended
    overwritten \* for the properties: Rooms a store has put out of the map

connVars == <<open, registered, closed, writer>>
readerVars == <<reader, msg, room, todo, seen, to>>
runVars == <<run, runUser, runRoom, runTodo, runTo>>
roomVars == <<rooms, members, router, overwritten>>
vars == <<connVars, readerVars, runVars, roomVars, crashed>>

NoMsg == "none"

ReaderPoints == {"none", "register", "start", "read", "lookup", "create",
                 "work", "iterate", "send", "self", "reply", "unregister",
                 "gone"}
RunPoints == {"select", "regLookup", "regCreate", "regAdd",
              "unLookup", "unCreate", "unDelete", "unIterate", "unSend",
              "unCount", "unClose", "unDrop"}

TypeOK ==
    /\ open \subseteq Users /\ registered \subseteq Users /\ closed \subseteq Users
    /\ reader \in [Users -> ReaderPoints]
    /\ writer \in [Users -> {"none", "range", "write", "gone"}]
    /\ msg \in [Users -> Messages \cup {NoMsg}]
    /\ room \in [Users -> Rooms \cup {NoRoom}]
    /\ todo \in [Users -> SUBSET Users] /\ seen \in [Users -> SUBSET Users]
    /\ to \in [Users -> Users \cup {NoUser}]
    /\ run \in RunPoints
    /\ runUser \in Users \cup {NoUser}
    /\ runRoom \in Rooms \cup {NoRoom}
    /\ runTodo \subseteq Users
    /\ runTo \in Users \cup {NoUser}
    /\ rooms \in [RoomIds -> Rooms \cup {NoRoom}]
    /\ members \in [Rooms -> SUBSET Users]
    /\ router \in [Rooms -> {"none", "open", "closed"}]
    /\ crashed \in BOOLEAN
    /\ overwritten \subseteq Rooms

Init ==
    /\ open = {} /\ registered = {} /\ closed = {}
    /\ reader = [u \in Users |-> "none"]
    /\ writer = [u \in Users |-> "none"]
    /\ msg = [u \in Users |-> NoMsg]
    /\ room = [u \in Users |-> NoRoom]
    /\ todo = [u \in Users |-> {}] /\ seen = [u \in Users |-> {}]
    /\ to = [u \in Users |-> NoUser]
    /\ run = "select"
    /\ runUser = NoUser /\ runRoom = NoRoom /\ runTo = NoUser
    /\ runTodo = {}
    /\ rooms = [i \in RoomIds |-> NoRoom]
    /\ members = [o \in Rooms |-> {}]
    /\ router = [o \in Rooms |-> "none"]
    /\ crashed = FALSE
    /\ overwritten = {}

-----------------------------------------------------------------------------
(* Shared operations.                                                       *)

\* a goroutine of a process that runs is at point p
At(u, p) == ~crashed /\ reader[u] = p
WriterAt(u, p) == ~crashed /\ writer[u] = p
RunAt(P) == ~crashed /\ run \in P

Goto(u, p) == reader' = [reader EXCEPT ![u] = p]

\* the handler returns to ReadMessage's loop
HandlerDone(u) ==
    /\ Goto(u, "read")
    /\ msg' = [msg EXCEPT ![u] = NoMsg]
    /\ room' = [room EXCEPT ![u] = NoRoom]

\* u's writer takes a message from the channel: the other half of a send
WriterTakes(u) ==
    /\ u \notin closed
    /\ writer[u] = "range"
    /\ writer' = [writer EXCEPT ![u] = "write"]
    /\ UNCHANGED <<open, registered, closed>>

\* NewRoom's router is made and the map entry written, whatever it holds
NewRoom(id, o) ==
    /\ router[o] = "none"
    /\ router' = [router EXCEPT ![o] = "open"]
    /\ rooms' = [rooms EXCEPT ![id] = o]
    /\ overwritten' = overwritten \cup ({rooms[id]} \ {NoRoom})
    /\ UNCHANGED members

-----------------------------------------------------------------------------
(* HandleWebSocket and the client.                                          *)

Connect(u) ==
    /\ At(u, "none")
    /\ open' = open \cup {u}
    /\ Goto(u, "register")
    /\ UNCHANGED <<registered, closed, writer, msg, room, todo, seen, to,
                   runVars, roomVars, crashed>>

\* The client or the network ends the connection.
Disconnect(u) ==
    /\ ~crashed /\ u \in open
    /\ open' = open \ {u}
    /\ UNCHANGED <<registered, closed, writer, readerVars, runVars, roomVars,
                   crashed>>

\* Mutant: a connection that is closed already gets no writer.
StartIfOpen(u) ==
    /\ At(u, "start")
    /\ writer' = [writer EXCEPT ![u] = IF u \in open THEN "range" ELSE @]
    /\ Goto(u, "read")
    /\ UNCHANGED <<open, registered, closed, msg, room, todo, seen, to, runVars,
                   roomVars, crashed>>

\* Both goroutines are started once Run has taken the user.
Start(u) ==
    /\ At(u, "start")
    /\ writer' = [writer EXCEPT ![u] = "range"]
    /\ Goto(u, "read")
    /\ UNCHANGED <<open, registered, closed, msg, room, todo, seen, to, runVars,
                   roomVars, crashed>>

-----------------------------------------------------------------------------
(* WriteMessage.                                                            *)

\* Mutant: a failed write closes the channel that is no longer read.
WriteErrorCloses(u) ==
    /\ WriterAt(u, "write")
    /\ \/ writer' = [writer EXCEPT ![u] = "range"] /\ UNCHANGED closed
       \/ /\ u \notin open
          /\ writer' = [writer EXCEPT ![u] = "gone"]
          /\ closed' = closed \cup {u}
    /\ UNCHANGED <<open, registered, readerVars, runVars, roomVars, crashed>>

\* A write fails only on a connection that is closed.
Write(u) ==
    /\ WriterAt(u, "write")
    /\ \/ writer' = [writer EXCEPT ![u] = "range"]
       \/ u \notin open /\ writer' = [writer EXCEPT ![u] = "gone"]
    /\ UNCHANGED <<open, registered, closed, readerVars, runVars, roomVars,
                   crashed>>

WriterEnds(u) ==
    /\ WriterAt(u, "range")
    /\ u \in closed
    /\ writer' = [writer EXCEPT ![u] = "gone"]
    /\ open' = open \ {u}
    /\ UNCHANGED <<registered, closed, readerVars, runVars, roomVars, crashed>>

-----------------------------------------------------------------------------
(* ReadMessage and the handlers.                                            *)

Recv(u, m) ==
    /\ At(u, "read")
    /\ u \in open
    /\ msg' = [msg EXCEPT ![u] = m]
    /\ Goto(u, IF m = "caps" THEN "reply" ELSE "lookup")
    /\ UNCHANGED <<connVars, room, todo, seen, to, runVars, roomVars, crashed>>

ReadError(u) ==
    /\ At(u, "read")
    /\ u \notin open
    /\ Goto(u, "unregister")
    /\ UNCHANGED <<connVars, msg, room, todo, seen, to, runVars, roomVars,
                   crashed>>

\* GetOrCreateRoom: the look, and when the id is missing NewRoom's request
\* to a worker, which may take seconds, and the store.
Lookup(u) ==
    LET o == rooms[RoomOf[u]] IN
    /\ At(u, "lookup")
    /\ room' = [room EXCEPT ![u] = o]
    /\ Goto(u, IF o = NoRoom THEN "create" ELSE "work")
    /\ UNCHANGED <<connVars, msg, todo, seen, to, runVars, roomVars, crashed>>

CreateOk(u, o) ==
    /\ At(u, "create")
    /\ NewRoom(RoomOf[u], o)
    /\ room' = [room EXCEPT ![u] = o]
    /\ Goto(u, "work")
    /\ UNCHANGED <<connVars, msg, todo, seen, to, runVars, crashed>>

\* The room is nil.  handleJoin goes on to use it and panics.
CreateFails(u) ==
    /\ At(u, "create")
    /\ crashed' = (msg[u] = "join")
    /\ \/ msg[u] = "close" /\ HandlerDone(u)
       \/ msg[u] # "close" /\ Goto(u, "reply") /\ UNCHANGED <<msg, room>>
    /\ UNCHANGED <<connVars, todo, seen, to, runVars, roomVars>>

\* A handler with its room: a request to the worker, or an iteration over the
\* members.  closeProducer sends to those who had a consumer; a produce whose
\* body cannot be decoded is answered at once.
Work(u) ==
    LET others == members[room[u]] \ {u} IN
    /\ At(u, "work")
    /\ \/ msg[u] = "request" /\ Goto(u, "self") /\ UNCHANGED todo
       \/ msg[u] = "produce" /\ Goto(u, "reply") /\ UNCHANGED todo
       \/ /\ msg[u] \in {"join", "produce"}
          /\ todo' = [todo EXCEPT ![u] = others]
          /\ Goto(u, "iterate")
       \/ /\ msg[u] = "close"
          /\ \E S \in SUBSET others : todo' = [todo EXCEPT ![u] = S]
          /\ Goto(u, "iterate")
    /\ seen' = [seen EXCEPT ![u] = {u}]
    /\ UNCHANGED <<connVars, msg, room, to, runVars, roomVars, crashed>>

\* A Go map iteration comes to every entry that stays, to none that was
\* removed before, and may or may not come to one that was added.
\* closeProducer iterates over its own map and asks r.users for each.
Iterate(u) ==
    /\ At(u, "iterate")
    /\ \E v \in members[room[u]] \ seen[u] :
        /\ msg[u] = "close" => v \in todo[u]
        /\ to' = [to EXCEPT ![u] = v]
        /\ seen' = [seen EXCEPT ![u] = @ \cup {v}]
        /\ todo' = [todo EXCEPT ![u] = @ \ {v}]
    /\ Goto(u, "send")
    /\ UNCHANGED <<connVars, msg, room, runVars, roomVars, crashed>>

IterateEnds(u) ==
    /\ At(u, "iterate")
    /\ todo[u] \cap members[room[u]] = {}
    /\ todo' = [todo EXCEPT ![u] = {}]
    /\ seen' = [seen EXCEPT ![u] = {}]
    /\ \/ msg[u] = "join" /\ Goto(u, "reply") /\ UNCHANGED <<msg, room>>
       \/ msg[u] = "produce" /\ Goto(u, "self") /\ UNCHANGED <<msg, room>>
       \/ msg[u] = "close" /\ HandlerDone(u)
    /\ UNCHANGED <<connVars, to, runVars, roomVars, crashed>>

\* v.sendMsg <- message, for the v the iteration came to
Send(u) ==
    /\ At(u, "send")
    /\ WriterTakes(to[u])
    /\ to' = [to EXCEPT ![u] = NoUser]
    /\ Goto(u, "iterate")
    /\ UNCHANGED <<msg, room, todo, seen, runVars, roomVars, crashed>>

\* Messages to the user itself: newDataConsumer, newConsumer; any number.
SelfSend(u) ==
    /\ At(u, "self")
    /\ WriterTakes(u)
    /\ UNCHANGED <<readerVars, runVars, roomVars, crashed>>

SelfDone(u) ==
    /\ At(u, "self")
    /\ Goto(u, "reply")
    /\ UNCHANGED <<connVars, msg, room, todo, seen, to, runVars, roomVars,
                   crashed>>

Reply(u) ==
    /\ At(u, "reply")
    /\ WriterTakes(u)
    /\ HandlerDone(u)
    /\ UNCHANGED <<todo, seen, to, runVars, roomVars, crashed>>

-----------------------------------------------------------------------------
(* Run.                                                                     *)

RunGoto(p) == run' = p

\* case user := <-w.Register
Register(u) ==
    /\ RunAt({"select"})
    /\ At(u, "register")
    /\ registered' = registered \cup {u}
    /\ runUser' = u
    /\ RunGoto("regLookup")
    /\ Goto(u, "start")
    /\ UNCHANGED <<open, closed, writer, msg, room, todo, seen, to, runRoom,
                   runTodo, runTo, roomVars, crashed>>

\* Mutant: the channel is left open.
UnregisterKeepsChannel(u) ==
    /\ RunAt({"select"})
    /\ At(u, "unregister")
    /\ registered' = registered \ {u}
    /\ open' = open \ {u}
    /\ runUser' = u
    /\ RunGoto("unLookup")
    /\ Goto(u, "gone")
    /\ UNCHANGED <<closed, writer, msg, room, todo, seen, to, runRoom, runTodo,
                   runTo, roomVars, crashed>>

\* case user := <-w.Unregister.  The reader then closes the connection.
Unregister(u) ==
    /\ RunAt({"select"})
    /\ At(u, "unregister")
    /\ u \in registered
    /\ registered' = registered \ {u}
    /\ closed' = closed \cup {u}
    /\ open' = open \ {u}
    /\ runUser' = u
    /\ RunGoto("unLookup")
    /\ Goto(u, "gone")
    /\ UNCHANGED <<writer, msg, room, todo, seen, to, runRoom, runTodo,
                   runTo, roomVars, crashed>>

RunLookup ==
    LET o == rooms[RoomOf[runUser]] IN
    /\ RunAt({"regLookup", "unLookup"})
    /\ runRoom' = o
    /\ RunGoto(CASE run = "regLookup" /\ o = NoRoom -> "regCreate"
                 [] run = "regLookup" /\ o # NoRoom -> "regAdd"
                 [] run = "unLookup"  /\ o = NoRoom -> "unCreate"
                 [] run = "unLookup"  /\ o # NoRoom -> "unDelete")
    /\ UNCHANGED <<connVars, readerVars, runUser, runTodo, runTo,
                   roomVars, crashed>>

RunCreateOk(o) ==
    /\ RunAt({"regCreate", "unCreate"})
    /\ NewRoom(RoomOf[runUser], o)
    /\ runRoom' = o
    /\ RunGoto(IF run = "regCreate" THEN "regAdd" ELSE "unDelete")
    /\ UNCHANGED <<connVars, readerVars, runUser, runTodo, runTo,
                   crashed>>

RunIdle ==
    /\ RunGoto("select")
    /\ runUser' = NoUser /\ runRoom' = NoRoom
    /\ runTodo' = {} /\ runTo' = NoUser

RunCreateFails ==
    /\ RunAt({"regCreate", "unCreate"})
    /\ RunIdle
    /\ UNCHANGED <<connVars, readerVars, roomVars, crashed>>

AddUser ==
    /\ RunAt({"regAdd"})
    /\ members' = [members EXCEPT ![runRoom] = @ \cup {runUser}]
    /\ RunIdle
    /\ UNCHANGED <<connVars, readerVars, rooms, router, overwritten, crashed>>

\* Mutant: the user is skipped by the notifications and left in the map.
DeleteUserSkips ==
    /\ RunAt({"unDelete"})
    /\ runTodo' = members[runRoom] \ {runUser}
    /\ RunGoto("unIterate")
    /\ UNCHANGED <<connVars, readerVars, runUser, runRoom, runTo, roomVars,
                   crashed>>

\* Mutant: the iteration includes the user who leaves.
DeleteUserNotifiesAll ==
    /\ RunAt({"unDelete"})
    /\ members' = [members EXCEPT ![runRoom] = @ \ {runUser}]
    /\ runTodo' = members[runRoom]
    /\ RunGoto("unIterate")
    /\ UNCHANGED <<connVars, readerVars, runUser, runRoom, runTo, rooms, router,
                   overwritten, crashed>>

\* Mutant: nothing is done for a user who is not in the room.
DeleteUserIfMember ==
    /\ RunAt({"unDelete"})
    /\ IF runUser \in members[runRoom]
       THEN /\ members' = [members EXCEPT ![runRoom] = @ \ {runUser}]
            /\ runTodo' = members[runRoom] \ {runUser}
            /\ RunGoto("unIterate")
            /\ UNCHANGED <<runUser, runRoom, runTo>>
       ELSE RunIdle /\ UNCHANGED members
    /\ UNCHANGED <<connVars, readerVars, rooms, router, overwritten, crashed>>

\* DeleteUser: the entry, then peerClosed to everyone left, one by one.
DeleteUser ==
    /\ RunAt({"unDelete"})
    /\ members' = [members EXCEPT ![runRoom] = @ \ {runUser}]
    /\ runTodo' = members[runRoom] \ {runUser}
    /\ RunGoto("unIterate")
    /\ UNCHANGED <<connVars, readerVars, runUser, runRoom, runTo,
                   rooms, router, overwritten, crashed>>

RunIterate ==
    /\ RunAt({"unIterate"})
    /\ \E v \in runTodo :
        /\ runTo' = v
        /\ runTodo' = runTodo \ {v}
    /\ RunGoto("unSend")
    /\ UNCHANGED <<connVars, readerVars, runUser, runRoom, roomVars,
                   crashed>>

RunIterateEnds ==
    /\ RunAt({"unIterate"})
    /\ runTodo = {}
    /\ RunGoto("unCount")
    /\ UNCHANGED <<connVars, readerVars, runUser, runRoom, runTodo,
                   runTo, roomVars, crashed>>

RunSend ==
    /\ RunAt({"unSend"})
    /\ WriterTakes(runTo)
    /\ runTo' = NoUser
    /\ RunGoto("unIterate")
    /\ UNCHANGED <<readerVars, runUser, runRoom, runTodo, roomVars,
                   crashed>>

\* Mutant: off by one.
CountUsersAtMostOne ==
    /\ RunAt({"unCount"})
    /\ \/ Cardinality(members[runRoom]) <= 1 /\ RunGoto("unClose")
          /\ UNCHANGED <<runUser, runRoom, runTodo, runTo>>
       \/ Cardinality(members[runRoom]) > 1 /\ RunIdle
    /\ UNCHANGED <<connVars, readerVars, roomVars, crashed>>

CountUsers ==
    /\ RunAt({"unCount"})
    /\ \/ /\ members[runRoom] = {}
          /\ RunGoto("unClose")
          /\ UNCHANGED <<runUser, runRoom, runTodo, runTo>>
       \/ /\ members[runRoom] # {}
          /\ RunIdle
    /\ UNCHANGED <<connVars, readerVars, roomVars, crashed>>

\* room.Close: its error is logged and the room is forgotten all the same.
CloseRoom ==
    /\ RunAt({"unClose"})
    /\ router' = [router EXCEPT ![runRoom] = "closed"]
    /\ RunGoto("unDrop")
    /\ UNCHANGED <<connVars, readerVars, runUser, runRoom, runTodo,
                   runTo, rooms, members, overwritten, crashed>>

DeleteRoom ==
    /\ RunAt({"unDrop"})
    /\ rooms' = [rooms EXCEPT ![RoomOf[runUser]] = NoRoom]
    /\ RunIdle
    /\ UNCHANGED <<connVars, readerVars, members, router, overwritten, crashed>>

-----------------------------------------------------------------------------
(* What ends the process.                                                   *)

\* v.sendMsg was closed while this goroutine had v in hand, or was waiting
\* for v's writer.
SendPanics(u) ==
    /\ At(u, "send")
    /\ to[u] \in closed
    /\ crashed' = TRUE
    /\ UNCHANGED <<connVars, readerVars, runVars, roomVars>>

\* The goroutines next to touch a map: a reader, or Run.
Goroutines == Users \cup {NoUser}
PointOf(g) == IF g = NoUser THEN run ELSE reader[g]
MapIdOf(g) == IF g = NoUser THEN runRoom ELSE room[g]

WritesRooms(g) == PointOf(g) \in {"create", "regCreate", "unCreate", "unDrop"}
UsesRooms(g) == WritesRooms(g) \/ PointOf(g) \in {"lookup", "regLookup", "unLookup"}
WritesUsers(g) == PointOf(g) \in {"regAdd", "unDelete"}
UsesUsers(g) == WritesUsers(g) \/ PointOf(g) \in {"work", "iterate", "unIterate", "unCount"}

\* fatal error: concurrent map read and map write
MapFault ==
    /\ ~crashed
    /\ \E g, h \in Goroutines :
        /\ g # h
        /\ \/ WritesRooms(g) /\ UsesRooms(h)
           \/ WritesUsers(g) /\ UsesUsers(h) /\ MapIdOf(g) = MapIdOf(h)
    /\ crashed' = TRUE
    /\ UNCHANGED <<connVars, readerVars, runVars, roomVars>>

-----------------------------------------------------------------------------
\* what u's reader does without waiting for another goroutine
ReaderStep(u) ==
    \/ Start(u) \/ ReadError(u) \/ Lookup(u) \/ CreateFails(u)
    \/ \E o \in Rooms : CreateOk(u, o)
    \/ Work(u) \/ Iterate(u) \/ IterateEnds(u) \/ SelfDone(u) \/ SendPanics(u)

WriterStep(u) == Write(u) \/ WriterEnds(u)

\* what Run does by itself, and what takes a worker's answer
RunOwnStep ==
    \/ RunLookup \/ AddUser \/ DeleteUser \/ RunIterate \/ RunIterateEnds
    \/ CountUsers \/ DeleteRoom

RunRequest == (\E o \in Rooms : RunCreateOk(o)) \/ RunCreateFails \/ CloseRoom

RunStep == RunOwnStep \/ RunRequest

Next ==
    \/ \E u \in Users :
        \/ Connect(u) \/ Disconnect(u)
        \/ \E m \in Clients : Recv(u, m)
        \/ ReaderStep(u) \/ WriterStep(u)
        \/ Send(u) \/ SelfSend(u) \/ Reply(u)
        \/ Register(u) \/ Unregister(u)
    \/ RunStep \/ RunSend
    \/ MapFault

Spec == Init /\ [][Next]_vars

(* A goroutine that can go on does, and a write to a connection that is     *)
(* closed returns.  Goroutines waiting to send on one channel are served in *)
(* turn.  No deadline is set on a write: to a client that stops reading it  *)
(* may last for ever, and so may a request to a worker that stops reading.  *)
FairSpec ==
    /\ Spec
    /\ WF_vars(RunOwnStep) /\ SF_vars(RunSend)
    /\ \A u \in Users : WF_vars(Start(u)) /\ WF_vars(u \notin open /\ WriterStep(u))

(* Stronger than the code justifies: moreover every write ends, requests to *)
(* workers return, and readers go on.  What fails even so is not the fault  *)
(* of a stuck peer.                                                         *)
PromptSpec ==
    /\ FairSpec
    /\ WF_vars(RunRequest)
    /\ \A u \in Users :
        /\ WF_vars(ReaderStep(u)) /\ WF_vars(WriterStep(u))
        /\ SF_vars(Send(u) \/ Reply(u) \/ Register(u) \/ Unregister(u))

-----------------------------------------------------------------------------
\* A room holds only users Run has registered, but for the one it is just
\* removing, unless a store has put another room in its place.  DeleteUser asks
\* the room it finds under the id, not the room its user is in: when a reader
\* has replaced the room in between, the user stays in the old one for ever.
\* In no other way is a user left behind, whichever requests fail.
MembersAreRegistered ==
    \A o \in Rooms \ overwritten : members[o] \subseteq registered \cup {runUser}

\* A handler's own replies never meet a closed channel: Run closes sendMsg
\* only when the user's reader has left its loop for good.
OwnChannelIsOpen ==
    \A u \in Users : reader[u] \notin {"none", "register", "gone"} => u \notin closed

\* Run never sends peerClosed on a channel it has closed itself.
RunSendsOnOpenChannels == run = "unSend" => runTo \notin closed

\* A room that has members has its router: Run closes the router of a room
\* only when it has counted no users, and nobody joins before it is dropped.
MembersHaveRouter ==
    \A o \in Rooms : members[o] # {} => router[o] = "open"

\* A room with members is not dropped from the map: DeleteRoom takes whatever
\* room is under the id by then, which need not be the one Run has counted and
\* closed, but nobody has joined the other.
OccupiedRoomStays ==
    [][\A i \in RoomIds :
          rooms[i] # NoRoom /\ members[rooms[i]] # {} => rooms'[i] # NoRoom]_vars

\* When everyone has left and Run has nothing to do, no room is in the map,
\* whichever requests to workers failed on the way.
Deserted ==
    /\ run = "select"
    /\ \A u \in Users : reader[u] \in {"none", "gone"}
NoRoomLeft == Deserted /\ ~crashed => \A i \in RoomIds : rooms[i] = NoRoom

\* "if no user in room, delete room": when everyone has left, no router of a
\* room that ever existed is still open.
NoRouterLeft == Deserted /\ ~crashed => \A o \in Rooms : router[o] # "open"

\* No goroutine is left behind: once Run has taken a user's Unregister the
\* user's writer ends, busy or idle, its connection broken or not.
WriterLeaves ==
    \A u \in Users : (reader[u] = "gone") ~> (writer[u] = "gone" \/ crashed)

\* Run comes back to its select, unless it is stuck for ever on one of three:
\* a user whose writer has ended, a user whose writer is inside a write to a
\* connection that stays open, a request to a worker.
RunStopsOnlyOnStuckPeer ==
    \/ (run # "select") ~> (run = "select" \/ crashed)
    \/ <>[](/\ run = "unSend"
            /\ \/ writer[runTo] = "gone"
               \/ writer[runTo] = "write" /\ runTo \in open)
    \/ <>[](run \in {"regCreate", "unCreate", "unClose"})

\* "notify other users": DeleteUser comes to the end of its notifications, at
\* least when every write ends and every request returns (PromptSpec).
PeersAreNotified == (run = "unIterate") ~> (run = "unCount" \/ crashed)
=============================================================================
