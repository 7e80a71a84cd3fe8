--------------------------- MODULE SignalingProofs ---------------------------
(***************************************************************************)
(* Proofs about Signaling for every set of users, room ids and rooms.      *)
(*                                                                         *)
(* Any reader may put a new room in the place of the one Run has looked    *)
(* up, and what it replaces keeps members for ever.  What holds is about   *)
(* the rooms in the map and the room Run has in hand: Inv says who is in   *)
(* them at each point of Run, and who will see to it that a room in the    *)
(* map is dropped.                                                         *)
(***************************************************************************)
EXTENDS Signaling, TLAPS

\* The points of Run at which it has a room in hand, and those after it has
\* taken the user out of the room.
WithRoom == {"regAdd", "unDelete", "unIterate", "unSend", "unCount", "unClose",
             "unDrop"}
Leaving == {"unLookup", "unCreate", "unDelete", "unIterate", "unSend", "unCount",
            "unClose", "unDrop"}
Left == {"unIterate", "unSend", "unCount", "unClose", "unDrop"}

\* A goroutine has what it is about to use.
Locals ==
    /\ \A u \in Users : reader[u] \in {"work", "iterate", "send"} => room[u] \in Rooms
    /\ \A u \in Users : reader[u] = "send" => to[u] \in Users
    /\ run = "select" => runUser = NoUser
    /\ run # "select" => runUser \in Users
    /\ run \in WithRoom => runRoom \in Rooms

\* Registered users are served by their readers, users whose channel is closed
\* never again; Run registers a user whom it has registered.
Served ==
    /\ \A u \in registered : reader[u] \notin {"none", "register", "gone"}
    /\ \A u \in closed : reader[u] = "gone"
    /\ run \in {"regLookup", "regCreate", "regAdd"} => runUser \in registered

\* A Room is under one id, and its members asked for that id.
Ids ==
    /\ \A i, j \in RoomIds : rooms[i] # NoRoom /\ rooms[i] = rooms[j] => i = j
    /\ \A i \in RoomIds : rooms[i] # NoRoom =>
        /\ router[rooms[i]] # "none"
        /\ \A u \in members[rooms[i]] : RoomOf[u] = i
    /\ run \in WithRoom =>
        /\ router[runRoom] # "none"
        /\ \A u \in members[runRoom] : RoomOf[u] = RoomOf[runUser]
        /\ \A i \in RoomIds : rooms[i] = runRoom => i = RoomOf[runUser]

\* Who is in the room Run has in hand, which may have been replaced in the map.
InHand ==
    /\ run \in WithRoom => members[runRoom] \subseteq registered \cup {runUser}
    /\ run \in Left => members[runRoom] \subseteq registered
    /\ run \in {"unClose", "unDrop"} => members[runRoom] = {}
    /\ run \in {"unIterate", "unSend"} => runTodo \subseteq registered
    /\ run = "unSend" => runTo \in registered

\* The user who leaves is in the map only through the room in hand, and then
\* not at all.
Cleared ==
    /\ run \in Left \cup {"unCreate"} =>
        \A i \in RoomIds : rooms[i] # NoRoom => members[rooms[i]] \subseteq registered
    /\ run = "unDelete" =>
        \A i \in RoomIds : rooms[i] \notin {NoRoom, runRoom} =>
            members[rooms[i]] \subseteq registered

\* A room in the map has an open router, but for the one Run is dropping.
Routers ==
    /\ \A i \in RoomIds : rooms[i] # NoRoom /\ router[rooms[i]] # "open" =>
        run = "unDrop" /\ rooms[i] = runRoom
    /\ run = "regAdd" => router[runRoom] = "open"

\* A room in the map has a user who will leave it, or Run is at a leaving user.
Live(i) == \E u \in Users : RoomOf[u] = i /\ reader[u] \notin {"none", "gone"}
Tended ==
    /\ \A i \in RoomIds : rooms[i] # NoRoom =>
        Live(i) \/ (run \in Leaving /\ RoomOf[runUser] = i)
    /\ run = "unCreate" => \A i \in RoomIds :
        i = RoomOf[runUser] /\ rooms[i] # NoRoom => Live(i)

\* The room in the map holds only users Run has registered, but for the one it
\* is just removing.
MapRegistered ==
    \A i \in RoomIds : rooms[i] # NoRoom =>
        members[rooms[i]] \subseteq registered \cup {runUser}

Inv == TypeOK /\ Locals /\ Served /\ Ids /\ InHand /\ Cleared /\ Routers
       /\ Tended /\ MapRegistered /\ MembersHaveRouter

\* The parts of Inv that rest on Run, the rooms and who is registered.
Shared == Ids /\ InHand /\ Cleared /\ Routers /\ MapRegistered
          /\ MembersHaveRouter

-----------------------------------------------------------------------------
(* Steps that leave Run, the rooms and the register alone                   *)

\* The initial state: no connection, no room.
LEMMA InitInv == Init => Inv
<1> SUFFICES ASSUME Init PROVE Inv
  OBVIOUS
<1> USE SignalingAssumption DEF Init
<1>1. TypeOK
  BY DEF TypeOK, ReaderPoints, RunPoints, NoMsg
<1>2. Locals /\ Served
  BY DEF Locals, Served, WithRoom
<1>3. Ids /\ InHand /\ Cleared /\ Routers /\ Tended /\ MapRegistered
      /\ MembersHaveRouter
  BY DEF Ids, InHand, Cleared, Routers, Tended, MapRegistered,
     MembersHaveRouter, WithRoom, Left, Leaving
<1> QED
  BY <1>1, <1>2, <1>3 DEF Inv

\* A goroutine of a user that moves on: it does not rise again, does not leave
\* its user's service, and has what it needs at its new point.
Moves(u) ==
    /\ reader[u] = "gone" => reader'[u] = "gone"
    /\ reader[u] \notin {"none", "gone"} => reader'[u] \notin {"none", "gone"}
    /\ reader[u] \notin {"none", "register", "gone"} =>
        reader'[u] \notin {"none", "register", "gone"}
    /\ reader'[u] \in {"work", "iterate", "send"} => room'[u] \in Rooms
    /\ reader'[u] = "send" => to'[u] \in Users

\* Nothing but its own point rests on such a goroutine.
LEMMA MovesKeep ==
  ASSUME Inv, TypeOK', \A u \in Users : Moves(u),
         UNCHANGED <<registered, closed, runVars, roomVars>>
  PROVE  Inv'
<1> USE DEF Inv, runVars, roomVars
<1>1. Locals' /\ Served'
  BY DEF Locals, Served, Moves, TypeOK
<1>2. Shared'
  BY DEF Shared, Ids, InHand, Cleared, Routers, MapRegistered,
     MembersHaveRouter
<1>3. \A i \in RoomIds : Live(i) => Live(i)'
  BY DEF Live, Moves
<1>4. Tended'
  BY <1>3 DEF Tended
<1> QED
  BY <1>1, <1>2, <1>4 DEF Shared

\* Whose reader stays where it is keeps what it has.
LEMMA StaysMoves ==
  ASSUME Inv, NEW u \in Users, reader'[u] = reader[u], room'[u] = room[u],
         to'[u] = to[u]
  PROVE  Moves(u)
  BY DEF Moves, Inv, Locals

\* The connection is opened, closed or written to, or a send ends the process.
LEMMA ConnectionStep ==
  ASSUME Inv, NEW u \in Users,
         \/ Connect(u) \/ Disconnect(u) \/ Start(u) \/ WriterStep(u)
         \/ SelfSend(u) \/ SendPanics(u)
  PROVE  Inv'
<1> USE DEF connVars, readerVars, WriterStep, Connect, Disconnect, Start, Write,
        WriterEnds, SelfSend, WriterTakes, SendPanics, At, WriterAt, Goto
<1>1. UNCHANGED <<registered, closed, runVars, roomVars, msg, room, todo, seen, to>>
  OBVIOUS
<1>2. /\ \A v \in Users : v # u => reader'[v] = reader[v]
      /\ \/ reader'[u] = reader[u]
         \/ reader[u] = "none" /\ reader'[u] = "register"
         \/ reader[u] = "start" /\ reader'[u] = "read"
  BY DEF Inv, TypeOK
<1>3. \A v \in Users : Moves(v)
  BY <1>1, <1>2, StaysMoves DEF Moves
<1>4. open' \subseteq Users /\ crashed' \in BOOLEAN
  BY DEF Inv, TypeOK
<1>5. reader' \in [Users -> ReaderPoints]
      /\ writer' \in [Users -> {"none", "range", "write", "gone"}]
  BY DEF Inv, TypeOK, ReaderPoints
<1>6. TypeOK'
  BY <1>1, <1>4, <1>5 DEF Inv, TypeOK, runVars, roomVars
<1> QED
  BY <1>1, <1>3, <1>6, MovesKeep

\* ReadMessage and the handlers up to the point where a room is needed.
LEMMA ReadStep ==
  ASSUME Inv, NEW u \in Users,
         \/ \E m \in Clients : Recv(u, m)
         \/ ReadError(u) \/ Lookup(u) \/ SelfDone(u)
  PROVE  Inv'
<1> USE SignalingAssumption
    DEF connVars, Recv, ReadError, Lookup, SelfDone, At, Goto
<1>1. UNCHANGED <<registered, closed, runVars, roomVars, todo, seen, to, open,
                  writer, crashed>>
  OBVIOUS
<1>2. /\ \A v \in Users : v # u => reader'[v] = reader[v] /\ room'[v] = room[v]
      /\ reader[u] \in {"read", "lookup", "self"}
      /\ reader'[u] \in {"reply", "lookup", "unregister", "create", "work"}
      /\ reader'[u] = "work" => room'[u] \in Rooms
  BY DEF Inv, TypeOK
<1>3. \A v \in Users : Moves(v)
  BY <1>1, <1>2, StaysMoves DEF Moves
<1>4. reader' \in [Users -> ReaderPoints]
  BY DEF Inv, TypeOK, ReaderPoints
<1>5. room' \in [Users -> Rooms \cup {NoRoom}]
  BY DEF Inv, TypeOK
<1>6. msg' \in [Users -> Messages \cup {NoMsg}]
  BY DEF Inv, TypeOK
<1>7. TypeOK'
  BY <1>1, <1>4, <1>5, <1>6 DEF Inv, TypeOK, runVars, roomVars
<1> QED
  BY <1>1, <1>3, <1>7, MovesKeep

\* A handler without a room, with its room, and on its way through the members.
LEMMA HandlerStep ==
  ASSUME Inv, NEW u \in Users,
         CreateFails(u) \/ Work(u) \/ Iterate(u) \/ IterateEnds(u)
  PROVE  Inv'
<1> USE DEF connVars, CreateFails, Work, Iterate, IterateEnds, HandlerDone, At, Goto
<1>1. UNCHANGED <<registered, closed, runVars, roomVars, open, writer>>
  OBVIOUS
<1>2. /\ reader[u] \in {"create", "work", "iterate"}
      /\ reader[u] # "create" => room[u] \in Rooms /\ members[room[u]] \subseteq Users
  BY DEF Inv, TypeOK, Locals
<1>3. /\ reader' \in [Users -> ReaderPoints]
      /\ \A v \in Users : v # u => reader'[v] = reader[v]
      /\ reader'[u] \in {"read", "reply", "self", "iterate", "send"}
      /\ reader[u] = "create" => reader'[u] \notin {"iterate", "send"}
  BY DEF Inv, TypeOK, ReaderPoints
<1>4. /\ msg' \in [Users -> Messages \cup {NoMsg}]
      /\ room' \in [Users -> Rooms \cup {NoRoom}]
      /\ \A v \in Users : v # u => room'[v] = room[v]
      /\ reader'[u] \in {"iterate", "send"} => room'[u] = room[u]
  BY DEF Inv, TypeOK
<1>5. /\ to' \in [Users -> Users \cup {NoUser}]
      /\ \A v \in Users : v # u => to'[v] = to[v]
      /\ reader'[u] = "send" => to'[u] \in Users
  BY <1>2 DEF Inv, TypeOK
<1>6. \A v \in Users : Moves(v)
  BY <1>2, <1>3, <1>4, <1>5, StaysMoves DEF Moves
<1>7. TypeOK'
  <2>1. crashed' \in BOOLEAN
    BY DEF Inv, TypeOK
  <2>2. todo' \in [Users -> SUBSET Users]
    BY <1>2 DEF Inv, TypeOK
  <2>3. seen' \in [Users -> SUBSET Users]
    BY <1>2 DEF Inv, TypeOK
  <2> QED
    BY <1>1, <1>3, <1>4, <1>5, <2>1, <2>2, <2>3 DEF Inv, TypeOK, runVars, roomVars
<1> QED
  BY <1>1, <1>6, <1>7, MovesKeep

\* A message is handed to a writer.
LEMMA SendStep ==
  ASSUME Inv, NEW u \in Users, Send(u) \/ Reply(u)
  PROVE  Inv'
<1> USE DEF Send, Reply, WriterTakes, HandlerDone, At, Goto
<1>1. UNCHANGED <<registered, closed, runVars, roomVars, open, todo, seen, crashed>>
  OBVIOUS
<1>2. /\ reader[u] \in {"send", "reply"} /\ reader'[u] \in {"iterate", "read"}
      /\ \A v \in Users : v # u => reader'[v] = reader[v] /\ room'[v] = room[v]
                                   /\ to'[v] = to[v]
      /\ reader'[u] = "iterate" => room'[u] \in Rooms
  BY DEF Inv, TypeOK, Locals
<1>3. \A v \in Users : Moves(v)
  BY <1>2, StaysMoves DEF Moves
<1>4. reader' \in [Users -> ReaderPoints]
      /\ writer' \in [Users -> {"none", "range", "write", "gone"}]
  BY DEF Inv, TypeOK, ReaderPoints
<1>5. /\ msg' \in [Users -> Messages \cup {NoMsg}]
      /\ room' \in [Users -> Rooms \cup {NoRoom}]
      /\ to' \in [Users -> Users \cup {NoUser}]
  BY DEF Inv, TypeOK
<1>6. TypeOK'
  BY <1>1, <1>4, <1>5 DEF Inv, TypeOK, runVars, roomVars
<1> QED
  BY <1>1, <1>3, <1>6, MovesKeep

-----------------------------------------------------------------------------
(* Readers and Run on the rooms                                             *)

\* A room that was never made is in no map, in nobody's hand, and empty.
LEMMA FreshRoom ==
  ASSUME Inv, NEW o \in Rooms, router[o] = "none"
  PROVE  /\ \A i \in RoomIds : rooms[i] # o
         /\ run \in WithRoom => runRoom # o
         /\ members[o] = {}
  BY SignalingAssumption DEF Inv, Ids, MembersHaveRouter

\* A reader stores a new room, in the place of another or not.
LEMMA CreateOkStep ==
  ASSUME Inv, NEW u \in Users, NEW o \in Rooms, CreateOk(u, o)
  PROVE  Inv'
<1> USE SignalingAssumption DEF Inv
<1>1. /\ reader[u] = "create" /\ reader' = [reader EXCEPT ![u] = "work"]
      /\ room' = [room EXCEPT ![u] = o]
      /\ router[o] = "none" /\ router' = [router EXCEPT ![o] = "open"]
      /\ rooms' = [rooms EXCEPT ![RoomOf[u]] = o]
      /\ overwritten' = overwritten \cup ({rooms[RoomOf[u]]} \ {NoRoom})
      /\ UNCHANGED <<connVars, msg, todo, seen, to, runVars, members, crashed>>
  BY DEF CreateOk, NewRoom, At, Goto
<1>2. /\ \A i \in RoomIds : rooms[i] # o
      /\ run \in WithRoom => runRoom # o
      /\ members[o] = {}
  BY <1>1, FreshRoom
<1>3. RoomOf[u] \in RoomIds
      /\ \A i \in RoomIds : rooms'[i] = IF i = RoomOf[u] THEN o ELSE rooms[i]
  BY <1>1 DEF TypeOK
<1>4. \A p \in Rooms : router'[p] = IF p = o THEN "open" ELSE router[p]
  BY <1>1 DEF TypeOK
<1>5. TypeOK'
  BY <1>1, <1>3 DEF TypeOK, ReaderPoints, connVars, runVars
<1>6. Locals' /\ Served'
  BY <1>1 DEF Locals, Served, TypeOK, connVars, runVars
<1>7. Ids'
  BY <1>1, <1>2, <1>3, <1>4 DEF Ids, Locals, TypeOK, runVars
<1>8. InHand' /\ Cleared'
  BY <1>1, <1>2, <1>3 DEF InHand, Cleared, connVars, runVars
<1>9. Routers'
  BY <1>1, <1>2, <1>3, <1>4 DEF Routers, Locals, WithRoom, TypeOK, runVars
<1>10. Tended'
  <2>1. \A i \in RoomIds : Live(i) => Live(i)'
    BY <1>1 DEF Live, TypeOK
  <2>2. Live(RoomOf[u])'
    BY <1>1 DEF Live, TypeOK
  <2> QED
    BY <1>1, <1>3, <2>1, <2>2 DEF Tended, runVars
<1>11. MapRegistered' /\ MembersHaveRouter'
  BY <1>1, <1>2, <1>3, <1>4 DEF MapRegistered, MembersHaveRouter,
     connVars, runVars
<1> QED
  BY <1>5, <1>6, <1>7, <1>8, <1>9, <1>10, <1>11

\* Run takes a user who is being served from now on.
LEMMA RegisterStep ==
  ASSUME Inv, NEW u \in Users, Register(u)
  PROVE  Inv'
<1> USE SignalingAssumption DEF Inv, Register, At, RunAt, Goto, RunGoto, roomVars
<1>1. TypeOK'
  BY DEF TypeOK, ReaderPoints, RunPoints
<1>2. Locals' /\ Served'
  BY DEF Locals, Served, TypeOK, WithRoom
<1>3. Ids' /\ InHand' /\ Cleared' /\ Routers'
  BY DEF Ids, InHand, Cleared, Routers, WithRoom, Left
<1>4. Tended'
  <2>1. \A i \in RoomIds : Live(i) => Live(i)'
    BY DEF Live, TypeOK
  <2> QED
    BY <2>1 DEF Tended, Leaving
<1>5. MapRegistered' /\ MembersHaveRouter'
  BY DEF MapRegistered, MembersHaveRouter, Locals, TypeOK
<1> QED
  BY <1>1, <1>2, <1>3, <1>4, <1>5

\* Run takes a user's leave: it has the user, and with it the user's room, to
\* see to.
LEMMA UnregisterStep ==
  ASSUME Inv, NEW u \in Users, Unregister(u)
  PROVE  Inv'
<1> USE SignalingAssumption DEF Inv, Unregister, At, RunAt, Goto, RunGoto, roomVars
<1>1. TypeOK'
  BY DEF TypeOK, ReaderPoints, RunPoints
<1>2. Locals' /\ Served'
  BY DEF Locals, Served, TypeOK, WithRoom
<1>3. Ids' /\ InHand' /\ Cleared' /\ Routers'
  BY DEF Ids, InHand, Cleared, Routers, WithRoom, Left
<1>4. Tended'
  <2>1. \A i \in RoomIds : Live(i) => Live(i)' \/ RoomOf[u] = i
    BY DEF Live, TypeOK
  <2> QED
    BY <2>1 DEF Tended, Leaving
<1>5. MapRegistered' /\ MembersHaveRouter'
  BY DEF MapRegistered, MembersHaveRouter, Locals, TypeOK
<1> QED
  BY <1>1, <1>2, <1>3, <1>4, <1>5

\* Run looks its user's room up: a leaving user whose id has no room is in none.
LEMMA RunLookupStep ==
  ASSUME Inv, RunLookup
  PROVE  Inv'
<1> DEFINE i == RoomOf[runUser]
<1> USE SignalingAssumption DEF Inv
<1>1. /\ run \in {"regLookup", "unLookup"} /\ runRoom' = rooms[i]
      /\ UNCHANGED <<connVars, readerVars, runUser, runTodo, runTo, roomVars, crashed>>
      /\ run' = IF run = "regLookup"
                THEN IF rooms[i] = NoRoom THEN "regCreate" ELSE "regAdd"
                ELSE IF rooms[i] = NoRoom THEN "unCreate" ELSE "unDelete"
  BY DEF RunLookup, RunAt, RunGoto
<1>2. runUser \in Users /\ i \in RoomIds /\ rooms[i] \in Rooms \cup {NoRoom}
  BY <1>1 DEF Locals, TypeOK
<1> HIDE DEF i
<1> USE DEF connVars, readerVars, roomVars
<1>3. TypeOK'
  BY <1>1, <1>2 DEF TypeOK, RunPoints
<1>4. Locals' /\ Served'
  BY <1>1, <1>2 DEF Locals, Served, WithRoom
<1>5. Ids'
  BY <1>1, <1>2 DEF Ids, WithRoom, i
<1>6. \A j \in RoomIds : rooms[j] # NoRoom /\ j # i =>
         members[rooms[j]] \subseteq registered \cup {runUser}
         /\ runUser \notin members[rooms[j]]
  BY DEF MapRegistered, Ids, i
<1>7. InHand'
  BY <1>1, <1>2 DEF InHand, MapRegistered, WithRoom, Left
<1>8. Cleared'
  BY <1>1, <1>2, <1>6 DEF Cleared, Left
<1>9. Routers'
  BY <1>1, <1>2 DEF Routers
<1>10. Tended'
  <2>1. \A j \in RoomIds : Live(j) => Live(j)'
    BY <1>1 DEF Live
  <2> QED
    BY <1>1, <2>1 DEF Tended, Leaving, i
<1>11. MapRegistered' /\ MembersHaveRouter'
  BY <1>1 DEF MapRegistered, MembersHaveRouter
<1> QED
  BY <1>3, <1>4, <1>5, <1>7, <1>8, <1>9, <1>10, <1>11

\* Run stores a new room for its user's id.
LEMMA RunCreateOkStep ==
  ASSUME Inv, NEW o \in Rooms, RunCreateOk(o)
  PROVE  Inv'
<1> DEFINE i == RoomOf[runUser]
<1> USE SignalingAssumption DEF Inv
<1>1. /\ run \in {"regCreate", "unCreate"} /\ runRoom' = o
      /\ router[o] = "none" /\ router' = [router EXCEPT ![o] = "open"]
      /\ rooms' = [rooms EXCEPT ![i] = o]
      /\ overwritten' = overwritten \cup ({rooms[i]} \ {NoRoom})
      /\ UNCHANGED <<connVars, readerVars, runUser, runTodo, runTo, members, crashed>>
      /\ run' = IF run = "regCreate" THEN "regAdd" ELSE "unDelete"
  BY DEF RunCreateOk, NewRoom, RunAt, RunGoto
<1>2. runUser \in Users /\ i \in RoomIds
  BY <1>1 DEF Locals
<1> USE DEF connVars, readerVars
<1>3. (\A j \in RoomIds : rooms[j] # o) /\ members[o] = {}
  BY <1>1, FreshRoom
<1> HIDE DEF i
<1>4. /\ \A j \in RoomIds : rooms'[j] = IF j = i THEN o ELSE rooms[j]
      /\ \A p \in Rooms : router'[p] = IF p = o THEN "open" ELSE router[p]
  BY <1>1 DEF TypeOK
<1>5. TypeOK'
  BY <1>1, <1>2 DEF TypeOK, RunPoints
<1>6. Locals' /\ Served'
  BY <1>1, <1>2 DEF Locals, Served, WithRoom
<1>7. Ids'
  BY <1>1, <1>2, <1>3, <1>4 DEF Ids, TypeOK, i
<1>8. InHand' /\ Cleared'
  BY <1>1, <1>2, <1>3, <1>4 DEF InHand, Cleared, WithRoom, Left
<1>9. Routers'
  BY <1>1, <1>2, <1>3, <1>4 DEF Routers, TypeOK
<1>10. Tended'
  <2>1. \A j \in RoomIds : Live(j) => Live(j)'
    BY <1>1 DEF Live
  <2>2. run = "regCreate" => Live(i)
    BY <1>2 DEF Served, Live, i
  <2> QED
    BY <1>1, <1>4, <2>1, <2>2 DEF Tended, Leaving, i
<1>11. MapRegistered' /\ MembersHaveRouter'
  BY <1>1, <1>3, <1>4 DEF MapRegistered, MembersHaveRouter
<1> QED
  BY <1>5, <1>6, <1>7, <1>8, <1>9, <1>10, <1>11

\* Back in its select Run has nobody in hand: everyone in the map is registered
\* and someone alive is left for every room of the map.
LEMMA IdleKeeps ==
  ASSUME Inv, RunIdle, UNCHANGED <<connVars, readerVars, crashed>>,
         rooms' \in [RoomIds -> Rooms \cup {NoRoom}],
         members' \in [Rooms -> SUBSET Users],
         UNCHANGED <<router, overwritten>>,
         \A i \in RoomIds : rooms'[i] # NoRoom =>
            /\ rooms'[i] = rooms[i] /\ router[rooms[i]] = "open" /\ Live(i)
            /\ members'[rooms[i]] \subseteq registered
            /\ \A u \in members'[rooms[i]] : RoomOf[u] = i,
         MembersHaveRouter'
  PROVE  Inv'
<1> USE SignalingAssumption DEF Inv, RunIdle, RunGoto, connVars, readerVars
<1>1. TypeOK'
  BY DEF TypeOK, RunPoints
<1>2. Locals' /\ Served'
  BY DEF Locals, Served, WithRoom
<1>3. Ids' /\ InHand' /\ Cleared' /\ Routers'
  BY DEF Ids, InHand, Cleared, Routers, WithRoom, Left
<1>4. Tended'
  <2>1. \A i \in RoomIds : Live(i) => Live(i)'
    BY DEF Live
  <2> QED
    BY <2>1 DEF Tended, Leaving
<1>5. MapRegistered'
  BY DEF MapRegistered
<1> QED
  BY <1>1, <1>2, <1>3, <1>4, <1>5

\* A room in the map is Live while Run registers a user, and its members are
\* registered.
LEMMA RegisteringMap ==
  ASSUME Inv, run \in {"regCreate", "regAdd"}, NEW i \in RoomIds, rooms[i] # NoRoom
  PROVE  /\ Live(i) /\ router[rooms[i]] = "open"
         /\ members[rooms[i]] \subseteq registered
  BY DEF Inv, Tended, Leaving, Routers, MapRegistered, Served

\* No worker makes a room for Run: a leaving user was in none.
LEMMA RunCreateFailsStep ==
  ASSUME Inv, RunCreateFails
  PROVE  Inv'
<1>1. /\ run \in {"regCreate", "unCreate"} /\ RunIdle
      /\ UNCHANGED <<connVars, readerVars, roomVars, crashed>>
  BY DEF RunCreateFails, RunAt
<1>2. ASSUME NEW i \in RoomIds, rooms[i] # NoRoom
      PROVE  /\ Live(i) /\ router[rooms[i]] = "open"
             /\ members[rooms[i]] \subseteq registered
  <2>1. CASE run = "regCreate"
    BY <1>2, <2>1, RegisteringMap
  <2>2. CASE run = "unCreate"
    BY <1>2, <2>2 DEF Inv, Tended, Routers, Cleared
  <2> QED
    BY <1>1, <2>1, <2>2
<1>3. MembersHaveRouter'
  BY <1>1 DEF Inv, MembersHaveRouter, roomVars
<1>4. /\ rooms' \in [RoomIds -> Rooms \cup {NoRoom}]
      /\ members' \in [Rooms -> SUBSET Users]
      /\ UNCHANGED <<rooms, members, router, overwritten>>
  BY <1>1 DEF Inv, TypeOK, roomVars
<1>5. \A i \in RoomIds : rooms[i] # NoRoom =>
         \A u \in members[rooms[i]] : RoomOf[u] = i
  BY DEF Inv, Ids
<1> QED
  BY <1>1, <1>2, <1>3, <1>4, <1>5, IdleKeeps

\* AddUser: the room may have left the map, and has its router in any case.
LEMMA AddUserStep ==
  ASSUME Inv, AddUser
  PROVE  Inv'
<1>1. /\ run = "regAdd" /\ RunIdle
      /\ members' = [members EXCEPT ![runRoom] = @ \cup {runUser}]
      /\ UNCHANGED <<connVars, readerVars, rooms, router, overwritten, crashed>>
  BY DEF AddUser, RunAt
<1>2. /\ runRoom \in Rooms /\ runUser \in Users /\ runUser \in registered
      /\ router[runRoom] = "open"
      /\ \A i \in RoomIds : rooms[i] = runRoom => i = RoomOf[runUser]
  BY <1>1 DEF Inv, Locals, Served, Routers, Ids, WithRoom
<1>3. members' \in [Rooms -> SUBSET Users]
      /\ \A o \in Rooms : members'[o] = IF o = runRoom
                                        THEN members[o] \cup {runUser}
                                        ELSE members[o]
  BY <1>1, <1>2 DEF Inv, TypeOK
<1>4. ASSUME NEW i \in RoomIds, rooms[i] # NoRoom
      PROVE  /\ rooms[i] \in Rooms /\ Live(i) /\ router[rooms[i]] = "open"
             /\ members[rooms[i]] \subseteq registered
             /\ \A u \in members[rooms[i]] : RoomOf[u] = i
  BY <1>1, <1>4, RegisteringMap DEF Inv, Ids, TypeOK
<1>5. MembersHaveRouter'
  BY <1>1, <1>2, <1>3 DEF Inv, MembersHaveRouter
<1>6. \A i \in RoomIds : rooms[i] # NoRoom =>
         /\ members'[rooms[i]] \subseteq registered
         /\ \A u \in members'[rooms[i]] : RoomOf[u] = i
  BY <1>2, <1>3, <1>4
<1>7. rooms' \in [RoomIds -> Rooms \cup {NoRoom}] /\ UNCHANGED <<rooms, router, overwritten>>
  BY <1>1 DEF Inv, TypeOK
<1> QED
  BY <1>1, <1>3, <1>4, <1>5, <1>6, <1>7, IdleKeeps

\* DeleteUser: whether or not the room was replaced, the user is in no room of
\* the map any more, and those to be told are registered.
LEMMA DeleteUserStep ==
  ASSUME Inv, DeleteUser
  PROVE  Inv'
<1> USE SignalingAssumption DEF Inv, connVars, readerVars
<1>1. /\ run = "unDelete" /\ run' = "unIterate"
      /\ members' = [members EXCEPT ![runRoom] = @ \ {runUser}]
      /\ runTodo' = members[runRoom] \ {runUser}
      /\ UNCHANGED <<connVars, readerVars, runUser, runRoom, runTo, rooms, router,
                     overwritten, crashed>>
  BY DEF DeleteUser, RunAt, RunGoto
<1>2. runRoom \in Rooms /\ runUser \in Users
      /\ members[runRoom] \subseteq registered \cup {runUser}
  BY <1>1 DEF Locals, InHand, WithRoom
<1>3. \A o \in Rooms : members'[o] = IF o = runRoom THEN members[o] \ {runUser}
                                                  ELSE members[o]
  BY <1>1 DEF TypeOK
<1>4. TypeOK'
  BY <1>1, <1>2 DEF TypeOK, RunPoints
<1>5. Locals' /\ Served'
  BY <1>1, <1>2 DEF Locals, Served
<1>6. Ids'
  BY <1>1, <1>2, <1>3 DEF Ids, WithRoom, TypeOK
<1>7. InHand'
  BY <1>1, <1>2, <1>3 DEF InHand, WithRoom, Left
<1>8. Cleared'
  BY <1>1, <1>2, <1>3 DEF Cleared, TypeOK
<1>9. Routers'
  BY <1>1 DEF Routers
<1>10. Tended'
  <2>1. \A j \in RoomIds : Live(j) => Live(j)'
    BY <1>1 DEF Live
  <2> QED
    BY <1>1, <2>1 DEF Tended, Leaving
<1>11. MapRegistered' /\ MembersHaveRouter'
  BY <1>1, <1>2, <1>3 DEF MapRegistered, MembersHaveRouter, TypeOK
<1> QED
  BY <1>4, <1>5, <1>6, <1>7, <1>8, <1>9, <1>10, <1>11

\* The notifications, their end, and the count: Run's room stays as it is.
LEMMA NotifyStep ==
  ASSUME Inv, \/ RunIterate \/ RunIterateEnds \/ RunSend
              \/ CountUsers /\ members[runRoom] = {}
  PROVE  Inv'
<1> USE SignalingAssumption DEF Inv
<1>1. /\ run \in {"unIterate", "unSend", "unCount"}
      /\ run' \in {"unIterate", "unSend", "unCount", "unClose"}
      /\ run' = "unClose" => members[runRoom] = {}
      /\ UNCHANGED <<open, registered, closed, readerVars, runUser, runRoom,
                     roomVars, crashed>>
  BY DEF RunIterate, RunIterateEnds, RunSend, CountUsers, RunAt, RunGoto,
     WriterTakes, connVars, roomVars, RunIdle
<1>2. /\ run' = "unSend" => runTo' \in registered
      /\ run' \in {"unIterate", "unSend"} => runTodo' \subseteq registered
      /\ runTo' \in Users \cup {NoUser} /\ runTodo' \subseteq Users
      /\ writer' \in [Users -> {"none", "range", "write", "gone"}]
  BY DEF RunIterate, RunIterateEnds, RunSend, CountUsers, RunAt, RunGoto,
     WriterTakes, connVars, InHand, TypeOK, RunIdle
<1> USE DEF readerVars, roomVars
<1>3. TypeOK'
  BY <1>1, <1>2 DEF TypeOK, RunPoints
<1>4. Locals' /\ Served'
  BY <1>1 DEF Locals, Served, WithRoom
<1>5. Ids'
  BY <1>1 DEF Ids, WithRoom
<1>6. InHand' /\ Cleared'
  BY <1>1, <1>2 DEF InHand, Cleared, WithRoom, Left
<1>7. Routers'
  BY <1>1 DEF Routers
<1>8. Tended'
  <2>1. \A j \in RoomIds : Live(j) => Live(j)'
    BY <1>1 DEF Live
  <2> QED
    BY <1>1, <2>1 DEF Tended, Leaving
<1>9. MapRegistered' /\ MembersHaveRouter'
  BY <1>1 DEF MapRegistered, MembersHaveRouter
<1> QED
  BY <1>3, <1>4, <1>5, <1>6, <1>7, <1>8, <1>9

\* Someone is left in the room: a registered user of the same id.
LEMMA CountUsersStep ==
  ASSUME Inv, CountUsers, members[runRoom] # {}
  PROVE  Inv'
<1>1. /\ run = "unCount" /\ RunIdle
      /\ UNCHANGED <<connVars, readerVars, roomVars, crashed>>
  BY DEF CountUsers, RunAt
<1>2. PICK v \in members[runRoom] : TRUE
  OBVIOUS
<1>3. v \in Users /\ RoomOf[v] = RoomOf[runUser] /\ reader[v] \notin {"none", "gone"}
  BY <1>1, <1>2 DEF Inv, TypeOK, Locals, InHand, Ids, Served, WithRoom, Left
<1>4. ASSUME NEW i \in RoomIds, rooms[i] # NoRoom
      PROVE  /\ Live(i) /\ router[rooms[i]] = "open"
             /\ members[rooms[i]] \subseteq registered
             /\ \A u \in members[rooms[i]] : RoomOf[u] = i
  BY <1>1, <1>3, <1>4 DEF Inv, Tended, Live, Routers, Cleared, Left, Ids
<1>5. MembersHaveRouter'
  BY <1>1 DEF Inv, MembersHaveRouter, roomVars
<1>6. /\ rooms' \in [RoomIds -> Rooms \cup {NoRoom}]
      /\ members' \in [Rooms -> SUBSET Users]
      /\ UNCHANGED <<rooms, members, router, overwritten>>
  BY <1>1 DEF Inv, TypeOK, roomVars
<1> QED
  BY <1>1, <1>4, <1>5, <1>6, IdleKeeps

\* The router of a room without members is closed.
LEMMA CloseRoomStep ==
  ASSUME Inv, CloseRoom
  PROVE  Inv'
<1> USE SignalingAssumption DEF Inv, CloseRoom, RunAt, RunGoto, connVars, readerVars
<1>1. runRoom \in Rooms /\ members[runRoom] = {}
  BY DEF Locals, InHand, WithRoom
<1>2. \A p \in Rooms : router'[p] = IF p = runRoom THEN "closed" ELSE router[p]
  BY DEF TypeOK
<1>3. TypeOK'
  BY DEF TypeOK, RunPoints
<1>4. Locals' /\ Served'
  BY DEF Locals, Served, WithRoom
<1>5. Ids'
  BY <1>1, <1>2 DEF Ids, WithRoom, TypeOK
<1>6. InHand' /\ Cleared'
  BY DEF InHand, Cleared, WithRoom, Left
<1>7. Routers'
  BY <1>1, <1>2 DEF Routers, TypeOK
<1>8. Tended'
  <2>1. \A j \in RoomIds : Live(j) => Live(j)'
    BY DEF Live
  <2> QED
    BY <2>1 DEF Tended, Leaving
<1>9. MapRegistered' /\ MembersHaveRouter'
  BY <1>1, <1>2 DEF MapRegistered, MembersHaveRouter
<1> QED
  BY <1>3, <1>4, <1>5, <1>6, <1>7, <1>8, <1>9

\* The id of the user who left has no room any more, be it the room that was
\* closed or one that took its place.
LEMMA DeleteRoomStep ==
  ASSUME Inv, DeleteRoom
  PROVE  Inv'
<1> USE SignalingAssumption
<1>1. /\ run = "unDrop" /\ RunIdle
      /\ rooms' = [rooms EXCEPT ![RoomOf[runUser]] = NoRoom]
      /\ UNCHANGED <<connVars, readerVars, members, router, overwritten, crashed>>
  BY DEF DeleteRoom, RunAt
<1>2. runUser \in Users /\ RoomOf[runUser] \in RoomIds
  BY <1>1 DEF Inv, Locals
<1>3. \A i \in RoomIds :
         rooms'[i] = IF i = RoomOf[runUser] THEN NoRoom ELSE rooms[i]
  BY <1>1 DEF Inv, TypeOK
<1>4. ASSUME NEW i \in RoomIds, rooms[i] # NoRoom, i # RoomOf[runUser]
      PROVE  /\ Live(i) /\ router[rooms[i]] = "open"
             /\ members[rooms[i]] \subseteq registered
             /\ \A u \in members[rooms[i]] : RoomOf[u] = i
  BY <1>1, <1>4 DEF Inv, Tended, Routers, Cleared, Left, Ids, WithRoom
<1>5. MembersHaveRouter'
  BY <1>1 DEF Inv, MembersHaveRouter
<1>6. /\ rooms' \in [RoomIds -> Rooms \cup {NoRoom}]
      /\ members' \in [Rooms -> SUBSET Users]
  BY <1>1 DEF Inv, TypeOK
<1> QED
  BY <1>1, <1>3, <1>4, <1>5, <1>6, IdleKeeps

-----------------------------------------------------------------------------
(* The theorems                                                             *)

\* Inv holds in every reachable state.
THEOREM Invariance == Spec => []Inv
<1>1. Inv /\ [Next]_vars => Inv'
  <2> SUFFICES ASSUME Inv, [Next]_vars PROVE Inv'
    OBVIOUS
  <2>1. CASE UNCHANGED vars
    <3>1. TypeOK'
      BY <2>1 DEF vars, connVars, readerVars, runVars, roomVars, Inv, TypeOK
    <3>2. \A u \in Users : Moves(u)
      BY <2>1, StaysMoves DEF vars, readerVars
    <3> QED
      BY <2>1, <3>1, <3>2, MovesKeep DEF vars, connVars
  <2>2. ASSUME NEW u \in Users,
               \/ Connect(u) \/ Disconnect(u) \/ ReaderStep(u) \/ WriterStep(u)
               \/ \E m \in Clients : Recv(u, m)
               \/ Send(u) \/ SelfSend(u) \/ Reply(u) \/ Register(u) \/ Unregister(u)
        PROVE  Inv'
    BY <2>2, ConnectionStep, ReadStep, HandlerStep, SendStep, CreateOkStep,
       RegisterStep, UnregisterStep DEF ReaderStep
  <2>3. CASE RunStep \/ RunSend
    BY <2>3, RunLookupStep, RunCreateOkStep, RunCreateFailsStep, AddUserStep,
       DeleteUserStep, NotifyStep, CountUsersStep, CloseRoomStep, DeleteRoomStep
       DEF RunStep, RunOwnStep, RunRequest
  <2>4. CASE MapFault
    <3>1. UNCHANGED <<connVars, readerVars, runVars, roomVars>> /\ crashed' = TRUE
      BY <2>4 DEF MapFault
    <3>2. TypeOK'
      BY <3>1 DEF connVars, readerVars, runVars, roomVars, Inv, TypeOK
    <3>3. \A u \in Users : Moves(u)
      BY <3>1, StaysMoves DEF readerVars
    <3> QED
      BY <3>1, <3>2, <3>3, MovesKeep DEF connVars
  <2> QED
    BY <2>1, <2>2, <2>3, <2>4 DEF Next
<1> QED
  BY InitInv, <1>1, PTL DEF Spec

\* The register, the rooms and every goroutine's locals keep their types.
THEOREM TypeCorrect == Spec => []TypeOK
<1>1. Inv => TypeOK
  BY DEF Inv
<1> QED
  BY <1>1, Invariance, PTL

\* A handler never sends on its own closed channel.
THEOREM OwnChannelStaysOpen == Spec => []OwnChannelIsOpen
<1>1. Inv => OwnChannelIsOpen
  BY DEF Inv, Served, OwnChannelIsOpen
<1> QED
  BY <1>1, Invariance, PTL

\* Run never sends on a channel it has closed, although the room it notifies
\* may no longer be the one in the map.
THEOREM RunNeverPanics == Spec => []RunSendsOnOpenChannels
<1>1. Inv => RunSendsOnOpenChannels
  BY DEF Inv, Served, InHand, RunSendsOnOpenChannels
<1> QED
  BY <1>1, Invariance, PTL

\* A room with members has an open router.
THEOREM RouterOutlivesMembers == Spec => []MembersHaveRouter
<1>1. Inv => MembersHaveRouter
  BY DEF Inv
<1> QED
  BY <1>1, Invariance, PTL

\* Once everyone has left, the map of rooms is empty.
THEOREM MapIsEmptied == Spec => []NoRoomLeft
<1>1. Inv => NoRoomLeft
  BY DEF Inv, Tended, Live, Leaving, NoRoomLeft, Deserted
<1> QED
  BY <1>1, Invariance, PTL

-----------------------------------------------------------------------------
(* What DeleteRoom takes out of the map                                     *)

\* While Run has a room in hand, another one under its user's id is empty: only
\* Run adds users, and it has not come back to its select.
Replaced ==
    run \in WithRoom =>
        LET o == rooms[RoomOf[runUser]] IN o \notin {NoRoom, runRoom} => members[o] = {}

\* A reader replaces the room Run has in hand by a new one, which is empty.
LEMMA ReplacedByReader ==
  ASSUME Inv, Replaced, NEW u \in Users, NEW o \in Rooms, CreateOk(u, o)
  PROVE  Replaced'
<1>1. /\ router[o] = "none" /\ rooms' = [rooms EXCEPT ![RoomOf[u]] = o]
      /\ UNCHANGED <<runVars, members>>
  BY DEF CreateOk, NewRoom
<1>2. members[o] = {}
  BY <1>1, FreshRoom
<1>3. run \in WithRoom => RoomOf[runUser] \in RoomIds
  BY SignalingAssumption DEF Inv, Locals, WithRoom
<1> QED
  BY <1>1, <1>2, <1>3 DEF Replaced, Inv, TypeOK, runVars

\* Run comes to have a room in hand by finding it in the map or storing it there.
LEMMA TakenFromMap ==
  ASSUME Inv, RunLookup \/ \E o \in Rooms : RunCreateOk(o)
  PROVE  Replaced'
<1>1. runUser' = runUser /\ RoomOf[runUser] \in RoomIds
  BY SignalingAssumption DEF RunLookup, RunCreateOk, RunAt, Inv, Locals
<1>2. CASE RunLookup
  BY <1>1, <1>2 DEF RunLookup, roomVars, Replaced
<1>3. CASE \E o \in Rooms : RunCreateOk(o)
  BY <1>1, <1>3 DEF RunCreateOk, NewRoom, Replaced, Inv, TypeOK
<1> QED
  BY <1>2, <1>3

\* As long as it has the room, Run takes no other and adds nobody.
LEMMA ReplacedByRun ==
  ASSUME Inv, Replaced, RunStep \/ RunSend
  PROVE  Replaced'
<1>1. CASE RunLookup \/ \E o \in Rooms : RunCreateOk(o)
  BY <1>1, TakenFromMap
<1>2. CASE RunCreateFails \/ AddUser \/ DeleteRoom
  BY <1>2 DEF RunCreateFails, AddUser, DeleteRoom, RunIdle, RunGoto, Replaced, WithRoom
<1>3. CASE DeleteUser
  <2>1. /\ run = "unDelete" /\ members' = [members EXCEPT ![runRoom] = @ \ {runUser}]
        /\ UNCHANGED <<runUser, runRoom, rooms>>
    BY <1>3 DEF DeleteUser, RunAt
  <2>2. \A o \in Rooms : members'[o] \subseteq members[o]
    BY <2>1 DEF Inv, TypeOK
  <2>3. rooms[RoomOf[runUser]] \in Rooms \cup {NoRoom}
    BY <2>1, SignalingAssumption DEF Inv, TypeOK, Locals
  <2> QED
    BY <2>1, <2>2, <2>3 DEF Replaced, WithRoom
<1>4. CASE RunIterate \/ RunIterateEnds \/ RunSend \/ CloseRoom
  BY <1>4 DEF RunIterate, RunIterateEnds, RunSend, CloseRoom, RunAt, RunGoto,
     roomVars, Replaced, WithRoom
<1>5. CASE CountUsers
  BY <1>5 DEF CountUsers, RunAt, RunGoto, RunIdle, roomVars, Replaced, WithRoom
<1> QED
  BY <1>1, <1>2, <1>3, <1>4, <1>5 DEF RunStep, RunOwnStep, RunRequest

\* Replaced is kept by every step.
LEMMA ReplacedStep ==
  ASSUME Inv, Replaced, [Next]_vars
  PROVE  Replaced'
<1>1. ASSUME NEW u \in Users, Register(u) \/ Unregister(u)
      PROVE  Replaced'
  BY <1>1 DEF Register, Unregister, RunGoto, Replaced, WithRoom
<1>2. CASE UNCHANGED <<runVars, roomVars>>
  BY <1>2 DEF runVars, roomVars, Replaced
<1>3. ASSUME NEW u \in Users,
             \/ Connect(u) \/ Disconnect(u) \/ WriterStep(u)
             \/ \E m \in Clients : Recv(u, m)
             \/ Start(u) \/ ReadError(u) \/ Lookup(u) \/ CreateFails(u)
             \/ Work(u) \/ Iterate(u) \/ IterateEnds(u) \/ SelfDone(u) \/ SendPanics(u)
             \/ Send(u) \/ SelfSend(u) \/ Reply(u)
      PROVE  UNCHANGED <<runVars, roomVars>>
  BY <1>3 DEF Connect, Disconnect, WriterStep, Write, WriterEnds, Recv, Start,
     ReadError, Lookup, CreateFails, Work, Iterate, IterateEnds, SelfDone,
     SendPanics, Send, SelfSend, Reply
<1>4. MapFault \/ UNCHANGED vars => UNCHANGED <<runVars, roomVars>>
  BY DEF MapFault, vars
<1> QED
  BY <1>1, <1>2, <1>3, <1>4, ReplacedByReader, ReplacedByRun DEF Next, ReaderStep

\* DeleteRoom drops a room without members, the one Run has closed or another.
LEMMA DropsEmptyRoom ==
  ASSUME Inv, Replaced, [Next]_vars, NEW i \in RoomIds,
         rooms[i] # NoRoom, members[rooms[i]] # {}
  PROVE  rooms'[i] # NoRoom
<1>1. ASSUME NEW id \in RoomIds, NEW o \in Rooms, NewRoom(id, o)
      PROVE  rooms'[i] # NoRoom
  BY <1>1, SignalingAssumption DEF NewRoom, Inv, TypeOK
<1>2. CASE DeleteRoom
  <2>1. run = "unDrop" /\ rooms' = [rooms EXCEPT ![RoomOf[runUser]] = NoRoom]
    BY <1>2 DEF DeleteRoom, RunAt
  <2>2. members[runRoom] = {}
    BY <2>1 DEF Inv, InHand
  <2>3. i # RoomOf[runUser]
    BY <2>1, <2>2 DEF Replaced, WithRoom
  <2> QED
    BY <2>1, <2>3 DEF Inv, TypeOK
<1>3. CASE UNCHANGED rooms
  BY <1>3
<1>4. ASSUME NEW u \in Users, NEW o \in Rooms, CreateOk(u, o)
      PROVE  rooms'[i] # NoRoom
  BY <1>1, <1>4, SignalingAssumption DEF CreateOk
<1>5. ASSUME NEW o \in Rooms, RunCreateOk(o)
      PROVE  rooms'[i] # NoRoom
  BY <1>1, <1>5, SignalingAssumption DEF RunCreateOk, RunAt, Inv, Locals
<1>6. ASSUME NEW u \in Users,
             \/ Connect(u) \/ Disconnect(u) \/ WriterStep(u)
             \/ \E m \in Clients : Recv(u, m)
             \/ Start(u) \/ ReadError(u) \/ Lookup(u) \/ CreateFails(u)
             \/ Work(u) \/ Iterate(u) \/ IterateEnds(u) \/ SelfDone(u) \/ SendPanics(u)
             \/ Send(u) \/ SelfSend(u) \/ Reply(u) \/ Register(u) \/ Unregister(u)
      PROVE  UNCHANGED rooms
  BY <1>6 DEF Connect, Disconnect, WriterStep, Write, WriterEnds, Recv, Start,
     ReadError, Lookup, CreateFails, Work, Iterate, IterateEnds, SelfDone,
     SendPanics, Send, SelfSend, Reply, Register, Unregister, roomVars
<1>7. RunLookup \/ RunCreateFails \/ AddUser \/ DeleteUser \/ RunIterate
      \/ RunIterateEnds \/ CountUsers \/ CloseRoom \/ RunSend => UNCHANGED rooms
  BY DEF RunLookup, RunCreateFails, AddUser, DeleteUser, RunIterate,
     RunIterateEnds, CountUsers, CloseRoom, RunSend, roomVars
<1>8. MapFault \/ UNCHANGED vars => UNCHANGED rooms
  BY DEF MapFault, vars, roomVars
<1> QED
  BY <1>2, <1>3, <1>4, <1>5, <1>6, <1>7, <1>8 DEF Next, ReaderStep, RunStep,
     RunOwnStep, RunRequest

\* Run never drops a room with members from the map, although readers may store
\* another room under the id it is about to delete.
THEOREM OccupiedRoomsStay == Spec => OccupiedRoomStays
<1>1. Init => Replaced
  BY DEF Init, Replaced, WithRoom
<1>2. Inv /\ Replaced /\ [Next]_vars =>
        [\A i \in RoomIds :
            rooms[i] # NoRoom /\ members[rooms[i]] # {} => rooms'[i] # NoRoom]_vars
  BY DropsEmptyRoom
<1>3. Inv /\ Replaced /\ [Next]_vars => Replaced'
  BY ReplacedStep
<1> QED
  BY <1>1, <1>2, <1>3, Invariance, PTL DEF Spec, OccupiedRoomStays

-----------------------------------------------------------------------------
(* Where the members are                                                    *)

\* A room nobody has overwritten is where its members' readers and Run look for
\* it: the room in hand is under its id, and so is a room with members.
Present ==
    /\ \A i \in RoomIds : rooms[i] \notin overwritten
    /\ \A o \in overwritten : router[o] # "none"
    /\ run \in WithRoom => runRoom \in overwritten \/ rooms[RoomOf[runUser]] = runRoom
    /\ \A o \in Rooms \ overwritten : members[o] # {} => \E i \in RoomIds : rooms[i] = o

\* A store takes the room it replaces out of the map and marks it.
LEMMA StorePresent ==
  ASSUME Inv, Present, NEW id \in RoomIds, NEW o \in Rooms, NewRoom(id, o)
  PROVE  /\ \A i \in RoomIds : rooms'[i] \notin overwritten'
         /\ \A p \in overwritten' : router'[p] # "none"
         /\ rooms'[id] = o
         /\ \A p \in Rooms \ overwritten' :
                members'[p] # {} => \E i \in RoomIds : rooms'[i] = p
         /\ \A i \in RoomIds : rooms[i] \in Rooms =>
                rooms[i] \in overwritten' \/ rooms'[i] = rooms[i]
<1> USE SignalingAssumption DEF NewRoom, Inv
<1>1. (\A i \in RoomIds : rooms[i] # o) /\ members[o] = {} /\ o \notin overwritten
  BY FreshRoom DEF Present
<1>2. \A i \in RoomIds : rooms'[i] = IF i = id THEN o ELSE rooms[i]
  BY DEF TypeOK
<1>3. \A p \in Rooms : router'[p] = IF p = o THEN "open" ELSE router[p]
  BY DEF TypeOK
<1>4. \A p \in overwritten' : router'[p] # "none"
  BY <1>3 DEF Present, Ids, TypeOK
<1>5. \A i \in RoomIds : rooms'[i] \notin overwritten'
  BY <1>1, <1>2 DEF Present, Ids, TypeOK
<1>6. \A p \in Rooms \ overwritten' :
         members'[p] # {} => \E i \in RoomIds : rooms'[i] = p
  BY <1>1, <1>2 DEF Present
<1> QED
  BY <1>2, <1>4, <1>5, <1>6

\* Run with its room: it adds to, takes from and closes the room in hand, and
\* drops a room without members.
LEMMA RunPresent ==
  ASSUME Inv, Replaced, Present, RunStep \/ RunSend
  PROVE  Present'
<1> USE SignalingAssumption
<1>1. ASSUME NEW o \in Rooms, RunCreateOk(o) PROVE Present'
  <2>1. RoomOf[runUser] \in RoomIds /\ NewRoom(RoomOf[runUser], o)
        /\ runUser' = runUser /\ runRoom' = o
    BY <1>1 DEF RunCreateOk, RunAt, Inv, Locals
  <2> QED
    BY <2>1, StorePresent DEF Present
<1>2. CASE RunLookup
  BY <1>2 DEF RunLookup, RunAt, RunGoto, roomVars, Present, WithRoom
<1>3. CASE RunCreateFails
  BY <1>3 DEF RunCreateFails, RunIdle, RunGoto, roomVars, Present, WithRoom
<1>4. CASE AddUser
  <2>1. /\ run = "regAdd" /\ run' = "select" /\ UNCHANGED <<rooms, router, overwritten>>
        /\ members' = [members EXCEPT ![runRoom] = @ \cup {runUser}]
    BY <1>4 DEF AddUser, RunAt, RunIdle, RunGoto
  <2>2. RoomOf[runUser] \in RoomIds
        /\ (runRoom \in overwritten \/ rooms[RoomOf[runUser]] = runRoom)
    BY <2>1 DEF Inv, Locals, Present, WithRoom
  <2>3. \A o \in Rooms : o # runRoom => members'[o] = members[o]
    BY <2>1 DEF Inv, TypeOK
  <2> QED
    BY <2>1, <2>2, <2>3 DEF Present, WithRoom
<1>5. CASE DeleteUser
  <2>1. /\ run = "unDelete" /\ UNCHANGED <<rooms, router, overwritten, runUser, runRoom>>
        /\ members' = [members EXCEPT ![runRoom] = @ \ {runUser}]
    BY <1>5 DEF DeleteUser, RunAt
  <2>2. \A o \in Rooms : members'[o] \subseteq members[o]
    BY <2>1 DEF Inv, TypeOK
  <2> QED
    BY <2>1, <2>2 DEF Present, WithRoom
<1>6. CASE RunIterate \/ RunIterateEnds \/ RunSend
  BY <1>6 DEF RunIterate, RunIterateEnds, RunSend, RunAt, RunGoto, roomVars,
     Present, WithRoom
<1>7. CASE CountUsers
  BY <1>7 DEF CountUsers, RunAt, RunGoto, RunIdle, roomVars, Present, WithRoom
<1>8. CASE CloseRoom
  <2>1. \A o \in Rooms : router'[o] = IF o = runRoom THEN "closed" ELSE router[o]
    BY <1>8 DEF CloseRoom, Inv, TypeOK
  <2> QED
    BY <1>8, <2>1 DEF CloseRoom, RunAt, RunGoto, Present, WithRoom, Inv, TypeOK
<1>9. CASE DeleteRoom
  <2>1. /\ run = "unDrop" /\ run' = "select"
        /\ rooms' = [rooms EXCEPT ![RoomOf[runUser]] = NoRoom]
        /\ UNCHANGED <<members, router, overwritten>>
    BY <1>9 DEF DeleteRoom, RunAt, RunIdle, RunGoto
  <2>2. \A i \in RoomIds : rooms'[i] = IF i = RoomOf[runUser] THEN NoRoom ELSE rooms[i]
    BY <2>1 DEF Inv, TypeOK
  <2>3. \A i \in RoomIds : rooms[i] # NoRoom /\ members[rooms[i]] # {} =>
           rooms'[i] = rooms[i]
    <3>1. members[runRoom] = {}
      BY <2>1 DEF Inv, InHand
    <3> QED
      BY <2>1, <2>2, <3>1 DEF Replaced, WithRoom
  <2>4. NoRoom \notin overwritten
    BY DEF Inv, TypeOK
  <2> QED
    BY <2>1, <2>2, <2>3, <2>4 DEF Present, WithRoom
<1> QED
  BY <1>1, <1>2, <1>3, <1>4, <1>5, <1>6, <1>7, <1>8, <1>9
     DEF RunStep, RunOwnStep, RunRequest

\* Present is kept by every step.
LEMMA PresentStep ==
  ASSUME Inv, Replaced, Present, [Next]_vars
  PROVE  Present'
<1>1. ASSUME NEW u \in Users, Register(u) \/ Unregister(u)
      PROVE  Present'
  BY <1>1 DEF Register, Unregister, RunGoto, Present, WithRoom, roomVars
<1>2. CASE UNCHANGED <<runVars, roomVars>>
  BY <1>2 DEF runVars, roomVars, Present
<1>3. ASSUME NEW u \in Users, NEW o \in Rooms, CreateOk(u, o)
      PROVE  Present'
  <2>1. RoomOf[u] \in RoomIds /\ NewRoom(RoomOf[u], o) /\ UNCHANGED runVars
    BY <1>3, SignalingAssumption DEF CreateOk
  <2>2. run \in WithRoom => RoomOf[runUser] \in RoomIds /\ runRoom \in Rooms
    BY SignalingAssumption DEF Inv, Locals, WithRoom
  <2>3. overwritten \subseteq overwritten'
    BY <2>1 DEF NewRoom
  <2> QED
    BY <2>1, <2>2, <2>3, StorePresent DEF Present, runVars
<1>4. ASSUME NEW u \in Users,
             \/ Connect(u) \/ Disconnect(u) \/ WriterStep(u)
             \/ \E m \in Clients : Recv(u, m)
             \/ Start(u) \/ ReadError(u) \/ Lookup(u) \/ CreateFails(u)
             \/ Work(u) \/ Iterate(u) \/ IterateEnds(u) \/ SelfDone(u) \/ SendPanics(u)
             \/ Send(u) \/ SelfSend(u) \/ Reply(u)
      PROVE  UNCHANGED <<runVars, roomVars>>
  BY <1>4 DEF Connect, Disconnect, WriterStep, Write, WriterEnds, Recv, Start,
     ReadError, Lookup, CreateFails, Work, Iterate, IterateEnds, SelfDone,
     SendPanics, Send, SelfSend, Reply
<1>5. MapFault \/ UNCHANGED vars => UNCHANGED <<runVars, roomVars>>
  BY DEF MapFault, vars
<1> QED
  BY <1>1, <1>2, <1>3, <1>4, <1>5, RunPresent DEF Next, ReaderStep

\* A user is left behind only in a room that a store has put out of the map: in
\* every other room there are registered users and the one Run is removing.
THEOREM OnlyStoresLeaveUsers == Spec => []MembersAreRegistered
<1>1. Init => Replaced /\ Present
  BY SignalingAssumption DEF Init, Replaced, Present, WithRoom
<1>2. Inv /\ Replaced /\ Present /\ [Next]_vars => Replaced' /\ Present'
  BY ReplacedStep, PresentStep
<1>3. Inv /\ Present => MembersAreRegistered
  BY SignalingAssumption DEF Inv, MapRegistered, Present, MembersAreRegistered
<1> QED
  BY <1>1, <1>2, <1>3, Invariance, PTL DEF Spec
=============================================================================
