------------------------ MODULE WorkerRegistryProofs ------------------------
(***************************************************************************)
(* Proofs about WorkerRegistry for every set of workers, Worker objects,   *)
(* connections and routers, and every timeout.                             *)
(*                                                                         *)
(* The goroutines write through pointers they have looked up earlier.  Inv *)
(* says what such a pointer may be by the time it is used: an object that  *)
(* was allocated for the id it was looked up under, in the map or not, and *)
(* that an object out of the map never comes back.                         *)
(***************************************************************************)
EXTENDS WorkerRegistry, FiniteSetTheorems, TLAPS

\* Sync has the id and the object that it is about to use.
SyncPointers ==
    /\ \A k \in Conns : sync[k] \in {"beat", "update"} => ptr[k] \in Objs
    /\ \A k \in Conns :
        sync[k] \in {"deleteOld", "store", "drop", "beat", "stats", "update"} =>
            workerID[k] \in Workers

\* The points of a router that has found its worker.
Chosen == {"picked", "add", "adding", "live", "remove", "removing", "closed"}

\* A router is counted on objects allocated for the id it was created on.
RouterPointers ==
    /\ \A r \in Routers : \A o \in todo[r] : idOf[o] # NoWorker
    /\ \A r \in Routers : rpc[r] \in Chosen => best[r] # NoObj
    /\ \A r \in Routers : best[r] # NoObj => idOf[best[r]] # NoWorker
    /\ \A r \in Routers : rpc[r] \in {"adding", "removing"} =>
        rptr[r] \in Objs /\ idOf[rptr[r]] = RouterId(r)

\* No object in the map is silent for longer than the timeout and the time
\* since the last cleanup.
Aging ==
    \A w \in Workers : mapped[w] # NoObj =>
        age[mapped[w]] <= HeartbeatTimeout + sinceCleanup

\* A connection has claimed the ids it uses.
Claims ==
    /\ \A k \in Conns : workerID[k] # NoWorker => k \in claimed[workerID[k]]
    /\ \A k \in Conns : ws[k] # NoWorker => k \in claimed[ws[k]]

\* What ChooseBestWorker has found so far is the best it has looked at.
Scored ==
    /\ \A r \in Routers : rpc[r] = "idle" => best[r] = NoObj /\ scores[r] = {}
    /\ \A r \in Routers : rpc[r] \in {"scoring", "picked"} =>
        /\ best[r] = NoObj => scores[r] = {}
        /\ \A s \in scores[r] : s <= bestScore[r]

\* A router is in the map of an object only after AddRouter put it there, and
\* RemoveRouter is about to change the one object in the map that may have it.
Counted ==
    /\ \A r \in Routers, o \in Objs : r \in routers[o] =>
        /\ rpc[r] \in {"live", "remove", "removing", "closed", "failed"}
        /\ best[r] # NoObj /\ idOf[o] = RouterId(r)
    /\ \A r \in Routers, w \in Workers :
        rpc[r] = "removing" /\ mapped[w] # NoObj /\ r \in routers[mapped[w]] =>
            mapped[w] = rptr[r]

Inv == TypeOK /\ SyncPointers /\ RouterPointers /\ Aging /\ Claims /\ Scored
       /\ Counted /\ OnlineIffMapped /\ ClosedNotCounted
       /\ SoleConnectionStaysRouted

\* The parts of Inv about the registry itself, about Sync and about routers.
RegistryInv == Aging /\ OnlineIffMapped
SyncInv == SyncPointers /\ Claims /\ SoleConnectionStaysRouted
RouterInv == RouterPointers /\ Scored /\ Counted /\ ClosedNotCounted

-----------------------------------------------------------------------------
(* Arithmetic of routerCount                                                *)

\* What arithmetic modulo 2^32 yields is a uint32.
LEMMA ModuloType ==
  ASSUME NEW n \in Nat
  PROVE  n % Modulus \in 0..(Modulus - 1)
  BY RegistryAssumption

\* A score is an integer.
LEMMA ScoreType ==
  ASSUME TypeOK, NEW o \in Objs
  PROVE  Score(o) \in Int
<1>1. routerCount[o] \in Nat /\ load[o].cpu \in Nat /\ load[o].mem \in Nat
  BY RegistryAssumption DEF TypeOK, Load
<1>2. (routerCount[o] * 10) % Modulus \in Int /\ load[o].mem \div 2 \in Int
  BY <1>1, RegistryAssumption
<1> QED
  BY <1>1, <1>2 DEF Score

-----------------------------------------------------------------------------
(* Steps on the registry                                                    *)

\* The initial states: nothing is registered and no router was asked for.
LEMMA InitInv == Init => Inv
<1> SUFFICES ASSUME Init PROVE Inv
  OBVIOUS
<1> USE RegistryAssumption DEF Init
<1>1. TypeOK
  BY DEF TypeOK, SyncPoints, RouterPoints, Load, MaxAge
<1>2. SyncPointers /\ Claims /\ SoleConnectionStaysRouted
  BY DEF SyncPointers, Claims, SoleConnectionStaysRouted
<1>3. RouterPointers /\ Scored /\ Counted /\ ClosedNotCounted
  BY DEF RouterPointers, Chosen, Scored, Counted, ClosedNotCounted, RouterAt
<1>4. Aging /\ OnlineIffMapped
  BY DEF Aging, OnlineIffMapped
<1> QED
  BY <1>1, <1>2, <1>3, <1>4 DEF Inv

\* Objects that leave the map go offline, and nothing else changes: what is
\* left in the map was there before.
LEMMA DiscardKeeps ==
  ASSUME Inv, NEW D, Discard(D), UNCHANGED <<routerVars, claimed, reported>>
  PROVE  /\ mapped' \in [Workers -> Objs \cup {NoObj}] /\ online' \subseteq Objs
         /\ \A w \in Workers : mapped'[w] # NoObj =>
              mapped'[w] = mapped[w] /\ mapped[w] \notin D
         /\ OnlineIffMapped' /\ RouterInv'
<1> USE RegistryAssumption DEF Inv, Discard, routerVars
<1>1. mapped' \in [Workers -> Objs \cup {NoObj}] /\ online' \subseteq Objs
  BY DEF TypeOK
<1>2. \A w \in Workers : mapped'[w] # NoObj =>
         mapped'[w] = mapped[w] /\ mapped[w] \notin D
  BY DEF TypeOK
<1>3. OnlineIffMapped'
  BY DEF OnlineIffMapped
<1>4. RouterPointers' /\ Scored'
  BY DEF RouterPointers, RouterId, Scored
<1>5. Counted'
  BY <1>2 DEF Counted, RouterId
<1>6. ClosedNotCounted'
  BY <1>2 DEF ClosedNotCounted, RouterAt
<1> QED
  BY <1>1, <1>2, <1>3, <1>4, <1>5, <1>6 DEF RouterInv

\* cleanupWorkers: what it leaves in the map is not older than the timeout.
LEMMA CleanupStep ==
  ASSUME Inv, Cleanup
  PROVE  Inv'
<1> DEFINE D == {o \in Objs : Stale(o) /\ \E w \in Workers : mapped[w] = o}
<1>1. Discard(D) /\ UNCHANGED <<syncVars, routerVars, claimed, reported>>
      /\ sinceCleanup' = 0
  BY DEF Cleanup
<1> HIDE DEF D
<1>2. RouterInv' /\ OnlineIffMapped'
      /\ mapped' \in [Workers -> Objs \cup {NoObj}] /\ online' \subseteq Objs
      /\ \A w \in Workers : mapped'[w] # NoObj =>
              mapped'[w] = mapped[w] /\ mapped[w] \notin D
  BY <1>1, DiscardKeeps
<1>3. TypeOK'
  BY <1>1, <1>2, RegistryAssumption DEF Inv, TypeOK, Discard, syncVars, routerVars
<1>4. Aging'
  <2> SUFFICES ASSUME NEW w \in Workers, mapped'[w] # NoObj
               PROVE  age[mapped[w]] <= HeartbeatTimeout
    BY <1>1, <1>2, RegistryAssumption DEF Aging, Discard
  <2>1. mapped[w] \in Objs /\ ~Stale(mapped[w])
    BY <1>2 DEF D, Inv, TypeOK
  <2> QED
    BY <2>1, RegistryAssumption DEF Stale, Inv, TypeOK
<1>5. SyncInv'
  BY <1>1 DEF Inv, SyncInv, SyncPointers, Claims, SoleConnectionStaysRouted,
     syncVars
<1> QED
  BY <1>2, <1>3, <1>4, <1>5 DEF Inv, SyncInv, RouterInv

\* Time passes: what is in the map ages with the time since the last cleanup.
LEMMA TickStep ==
  ASSUME Inv, Tick
  PROVE  Inv'
<1> USE RegistryAssumption DEF Inv, Tick, syncVars, routerVars
<1>1. TypeOK'
  BY DEF TypeOK, MaxAge
<1>2. Aging'
  BY DEF Aging, TypeOK
<1>3. OnlineIffMapped' /\ ClosedNotCounted' /\ Counted' /\ RouterPointers'
      /\ Scored'
  BY DEF OnlineIffMapped, ClosedNotCounted, RouterAt, Counted, RouterPointers,
     RouterId, Scored
<1>4. SyncPointers' /\ Claims' /\ SoleConnectionStaysRouted'
  BY DEF SyncPointers, Claims, SoleConnectionStaysRouted
<1> QED
  BY <1>1, <1>2, <1>3, <1>4

-----------------------------------------------------------------------------
(* Steps of Sync                                                            *)

\* A step of Sync that leaves the objects alone changes nothing in what the
\* registry and the routers rest on.
LEMMA SyncOnly ==
  ASSUME Inv, UNCHANGED <<objVars, routerVars, reported>>
  PROVE  RegistryInv' /\ RouterInv'
<1> USE DEF Inv, objVars, routerVars
<1>1. RegistryInv'
  BY DEF RegistryInv, Aging, OnlineIffMapped
<1>2. RouterInv'
  BY DEF RouterInv, RouterPointers, RouterId, Scored, Counted, ClosedNotCounted,
     RouterAt
<1> QED
  BY <1>1, <1>2

\* The removal of the id a connection has used so far.
LEMMA RecvRegisterStep ==
  ASSUME Inv, NEW k \in Conns, RecvRegister(k) \/ RecvError(k)
  PROVE  Inv'
<1> DEFINE D == {mapped[w] : w \in Workers \cap {workerID[k]}}
<1>1. /\ Discard(D) /\ At(k, "recv")
      /\ UNCHANGED <<stored, broken, workerID, ptr, ws, routerVars, claimed,
                     reported, sinceCleanup>>
      /\ \E p \in {"register", "deleteOld", "returned", "drop"} :
           /\ sync' = [sync EXCEPT ![k] = p]
           /\ p \in {"deleteOld", "drop"} => workerID[k] # NoWorker
  BY DEF RecvRegister, RecvError, RemoveWorker, Goto
<1> HIDE DEF D
<1>2. /\ OnlineIffMapped' /\ RouterInv'
      /\ mapped' \in [Workers -> Objs \cup {NoObj}] /\ online' \subseteq Objs
      /\ \A w \in Workers : mapped'[w] # NoObj =>
              mapped'[w] = mapped[w] /\ mapped[w] \notin D
  BY <1>1, DiscardKeeps
<1>3. TypeOK'
  BY <1>1, <1>2 DEF Inv, TypeOK, Discard, routerVars, SyncPoints
<1>4. Aging'
  BY <1>1, <1>2 DEF Inv, Aging, Discard
<1>5. SyncInv'
  BY <1>1 DEF Inv, TypeOK, SyncInv, SyncPointers, Claims, At,
     SoleConnectionStaysRouted
<1> QED
  BY <1>2, <1>3, <1>4, <1>5 DEF Inv, SyncInv, RouterInv

\* Whoever takes a stream out of s.workers has claimed its id, and is at no
\* point at which requests must reach it.
LEMMA DropStreamStep ==
  ASSUME Inv, NEW k \in Conns, DeleteOld(k) \/ DropStream(k)
  PROVE  Inv'
<1>1. /\ stored' = [stored EXCEPT ![workerID[k]] = NoConn]
      /\ sync[k] \in {"deleteOld", "drop"}
      /\ \E p \in {"register", "returned"} : sync' = [sync EXCEPT ![k] = p]
      /\ UNCHANGED <<objVars, broken, workerID, ptr, ws, routerVars, claimed,
                     reported>>
  BY DEF DeleteOld, DropStream, At, Goto
<1>2. RegistryInv' /\ RouterInv'
  BY <1>1, SyncOnly
<1>3. workerID[k] \in Workers /\ k \in claimed[workerID[k]]
  BY <1>1, RegistryAssumption DEF Inv, SyncPointers, Claims
<1>4. TypeOK'
  BY <1>1, <1>3 DEF Inv, TypeOK, objVars, routerVars, SyncPoints
<1>5. SyncPointers' /\ Claims'
  BY <1>1 DEF Inv, TypeOK, SyncPointers, Claims
<1>6. SoleConnectionStaysRouted'
  BY <1>1, <1>3 DEF Inv, TypeOK, SoleConnectionStaysRouted
<1> QED
  BY <1>2, <1>4, <1>5, <1>6 DEF Inv, RegistryInv, RouterInv

\* Who stores a stream has claimed its id: no other is the sole user of it.
LEMMA StoreStreamStep ==
  ASSUME Inv, NEW k \in Conns, StoreStream(k)
  PROVE  Inv'
<1>1. RegistryInv' /\ RouterInv'
  BY SyncOnly DEF StoreStream
<1>2. workerID[k] \in Workers /\ k \in claimed[workerID[k]]
  BY RegistryAssumption DEF StoreStream, At, Inv, SyncPointers, Claims
<1> USE DEF StoreStream, At, Goto, Inv, TypeOK
<1>3. TypeOK'
  BY <1>2 DEF objVars, routerVars, SyncPoints
<1>4. SyncPointers' /\ Claims'
  BY <1>2 DEF SyncPointers, Claims
<1>5. SoleConnectionStaysRouted'
  BY <1>2 DEF SoleConnectionStaysRouted
<1> QED
  BY <1>1, <1>3, <1>4, <1>5 DEF RegistryInv, RouterInv

\* The acknowledgement, the second look-up of a keepalive and the end of a
\* connection leave s.workers alone.
LEMMA SyncMovesStep ==
  ASSUME Inv, NEW k \in Conns, SendAck(k) \/ StatsLookup(k) \/ Break(k)
  PROVE  Inv'
<1>1. UNCHANGED <<objVars, stored, workerID, ws, routerVars, claimed, reported>>
  BY DEF SendAck, StatsLookup, Break
<1>2. RegistryInv' /\ RouterInv'
  BY <1>1, SyncOnly
<1> USE DEF SendAck, StatsLookup, Break, At, Goto, Inv, TypeOK
<1>3. TypeOK'
  BY <1>1 DEF objVars, routerVars, SyncPoints, SyncPointers
<1>4. SyncPointers' /\ Claims'
  BY <1>1 DEF SyncPointers, Claims
<1>5. SoleConnectionStaysRouted'
  BY <1>1 DEF SoleConnectionStaysRouted
<1> QED
  BY <1>2, <1>3, <1>4, <1>5 DEF RegistryInv, RouterInv

\* A keepalive claims an id: whoever was its sole user is so no longer.
LEMMA RecvKeepaliveStep ==
  ASSUME Inv, NEW k \in Conns, NEW w \in Workers, RecvKeepalive(k, w)
  PROVE  Inv'
<1>1. RegistryInv' /\ RouterInv'
  BY SyncOnly DEF RecvKeepalive
<1> USE DEF RecvKeepalive, At, Goto, Inv, TypeOK
<1>2. TypeOK'
  BY DEF objVars, routerVars, SyncPoints
<1>3. SyncPointers' /\ Claims'
  BY DEF SyncPointers, Claims
<1>4. SoleConnectionStaysRouted'
  BY DEF SoleConnectionStaysRouted, Claims
<1> QED
  BY <1>1, <1>2, <1>3, <1>4 DEF RegistryInv, RouterInv

\* The write of Heartbeat, to an object that may have left the map.
LEMMA BeatStep ==
  ASSUME Inv, NEW k \in Conns, Beat(k)
  PROVE  Inv'
<1> USE RegistryAssumption
    DEF Beat, Heartbeat, At, Goto, Inv, TypeOK
<1>1. ptr[k] \in Objs
  BY DEF SyncPointers
<1>2. TypeOK'
  BY <1>1 DEF routerVars, SyncPoints, MaxAge
<1>3. SyncPointers' /\ Claims'
  BY DEF SyncPointers, Claims
<1>4. SoleConnectionStaysRouted'
  BY DEF SoleConnectionStaysRouted
<1>5. Aging' /\ OnlineIffMapped'
  BY <1>1 DEF Aging, OnlineIffMapped
<1>6. RouterInv'
  BY DEF RouterInv, RouterPointers, RouterId, Scored, Counted, ClosedNotCounted,
     RouterAt, routerVars
<1> QED
  BY <1>2, <1>3, <1>4, <1>5, <1>6 DEF RouterInv

\* The write of UpdateWorkerStats.
LEMMA StatsUpdateStep ==
  ASSUME Inv, NEW k \in Conns, NEW rep \in Reports, StatsUpdate(k, rep)
  PROVE  Inv'
<1> USE RegistryAssumption
    DEF StatsUpdate, UpdateWorkerStats, At, Goto, Inv, TypeOK
<1>1. ptr[k] \in Objs
  BY DEF SyncPointers
<1>2. TypeOK'
  BY <1>1 DEF routerVars, SyncPoints, MaxAge, Load
<1>3. SyncPointers' /\ Claims'
  BY DEF SyncPointers, Claims
<1>4. SoleConnectionStaysRouted'
  BY DEF SoleConnectionStaysRouted
<1>5. Aging' /\ OnlineIffMapped'
  BY <1>1 DEF Aging, OnlineIffMapped
<1>6. RouterInv'
  BY DEF RouterInv, RouterPointers, RouterId, Scored, Counted, ClosedNotCounted,
     RouterAt, routerVars
<1> QED
  BY <1>2, <1>3, <1>4, <1>5, <1>6 DEF RouterInv

\* A registration: the object is the one in the map or a new one, on which no
\* router was ever counted.
LEMMA RegisterStep ==
  ASSUME Inv, NEW k \in Conns, NEW w \in Workers, Register(k, w)
  PROVE  Inv'
<1> USE RegistryAssumption DEF Inv
<1>1. /\ sync[k] = "register" /\ sync' = [sync EXCEPT ![k] = "store"]
      /\ workerID' = [workerID EXCEPT ![k] = w]
      /\ claimed' = [claimed EXCEPT ![w] = @ \cup {k}]
      /\ UNCHANGED <<stored, broken, ptr, ws, routerVars, reported,
                     routerCount, load, routers, sinceCleanup>>
  BY DEF Register, RegisterWorker, At, Goto
<1>2. SyncInv'
  <2>1. SyncPointers' /\ Claims'
    BY <1>1 DEF SyncPointers, Claims, TypeOK
  <2>2. SoleConnectionStaysRouted'
    BY <1>1 DEF SoleConnectionStaysRouted, Claims, TypeOK
  <2> QED
    BY <2>1, <2>2 DEF SyncInv
<1>3. PICK o \in Objs :
        /\ age' = [age EXCEPT ![o] = 0]
        /\ online' = online \cup {o}
        /\ \/ mapped[w] = o /\ UNCHANGED <<mapped, idOf>>
           \/ /\ mapped[w] = NoObj /\ idOf[o] = NoWorker
              /\ idOf' = [idOf EXCEPT ![o] = w]
              /\ mapped' = [mapped EXCEPT ![w] = o]
  BY DEF Register, RegisterWorker, TypeOK
<1>4. TypeOK'
  <2>1. /\ mapped' \in [Workers -> Objs \cup {NoObj}]
        /\ idOf' \in [Objs -> Workers \cup {NoWorker}]
        /\ online' \subseteq Objs
    <3>1. mapped \in [Workers -> Objs \cup {NoObj}]
          /\ idOf \in [Objs -> Workers \cup {NoWorker}] /\ online \subseteq Objs
      BY DEF TypeOK
    <3> QED
      BY <1>3, <3>1
  <2>2. age' \in [Objs -> 0..MaxAge]
    BY <1>3 DEF TypeOK, MaxAge
  <2>3. /\ sync' \in [Conns -> SyncPoints]
        /\ workerID' \in [Conns -> Workers \cup {NoWorker}]
        /\ claimed' \in [Workers -> SUBSET Conns]
    BY <1>1 DEF TypeOK, SyncPoints
  <2> QED
    BY <1>1, <2>1, <2>2, <2>3 DEF TypeOK, routerVars
<1>5. Aging'
  BY <1>1, <1>3 DEF Aging, TypeOK
<1>6. OnlineIffMapped'
  <2>1. CASE mapped[w] = o /\ UNCHANGED <<mapped, idOf>>
    BY <1>3, <2>1 DEF OnlineIffMapped
  <2>2. CASE /\ mapped[w] = NoObj /\ idOf[o] = NoWorker
             /\ idOf' = [idOf EXCEPT ![o] = w]
             /\ mapped' = [mapped EXCEPT ![w] = o]
    <3>1. \A v \in Workers : mapped[v] # o
      BY <2>2 DEF OnlineIffMapped
    <3>2. \A v \in Workers : mapped'[v] = IF v = w THEN o ELSE mapped[v]
      BY <2>2 DEF TypeOK
    <3>3. \A v \in Workers : mapped'[v] # NoObj => idOf'[mapped'[v]] = v
      BY <2>2, <3>1, <3>2 DEF OnlineIffMapped, TypeOK
    <3>4. {mapped'[v] : v \in Workers} \ {NoObj}
            = ({mapped[v] : v \in Workers} \ {NoObj}) \cup {o}
      BY <2>2, <3>2
    <3> QED
      BY <1>3, <3>3, <3>4 DEF OnlineIffMapped
  <2> QED
    BY <1>3, <2>1, <2>2
<1>7. RouterInv'
  <2>1. CASE mapped[w] = o /\ UNCHANGED <<mapped, idOf>>
    BY <1>1, <2>1 DEF RouterInv, RouterPointers, RouterId, Scored, Counted,
       ClosedNotCounted, RouterAt, routerVars
  <2>2. CASE /\ mapped[w] = NoObj /\ idOf[o] = NoWorker
             /\ idOf' = [idOf EXCEPT ![o] = w]
             /\ mapped' = [mapped EXCEPT ![w] = o]
    <3>1. \A p \in Objs : idOf[p] # NoWorker => idOf'[p] = idOf[p]
      BY <2>2 DEF TypeOK
    <3>2. \A r \in Routers : r \notin routers[o]
      BY <2>2 DEF Counted, RouterPointers, RouterId, TypeOK
    <3>3. RouterPointers' /\ Scored'
      BY <1>1, <3>1 DEF RouterPointers, Chosen, RouterId, Scored, TypeOK,
         routerVars
    <3>4. Counted'
      <4>1. \A r \in Routers, p \in Objs : r \in routers[p] =>
              /\ rpc[r] \in {"live", "remove", "removing", "closed", "failed"}
              /\ best[r] # NoObj /\ idOf'[p] = idOf'[best[r]]
        BY <3>1 DEF Counted, RouterPointers, RouterId, TypeOK
      <4>2. \A r \in Routers, v \in Workers :
              mapped'[v] # NoObj /\ r \in routers[mapped'[v]] =>
                mapped'[v] = mapped[v]
        BY <2>2, <3>2 DEF TypeOK
      <4> QED
        BY <1>1, <4>1, <4>2 DEF Counted, RouterId, routerVars
    <3>5. ClosedNotCounted'
      BY <1>1, <2>2, <3>2 DEF ClosedNotCounted, RouterAt, TypeOK, routerVars
    <3> QED
      BY <3>3, <3>4, <3>5 DEF RouterInv
  <2> QED
    BY <1>3, <2>1, <2>2
<1> QED
  BY <1>2, <1>4, <1>5, <1>6, <1>7 DEF SyncInv, RouterInv

-----------------------------------------------------------------------------
(* Steps of the goroutines of routers                                       *)

\* A router's goroutine leaves the map and Sync alone.
LEMMA RouterOnly ==
  ASSUME Inv,
         UNCHANGED <<mapped, idOf, online, age, sinceCleanup, syncVars, claimed>>
  PROVE  RegistryInv' /\ SyncInv'
<1> USE DEF Inv, syncVars
<1>1. RegistryInv'
  BY DEF RegistryInv, Aging, OnlineIffMapped
<1>2. SyncInv'
  BY DEF SyncInv, SyncPointers, Claims, SoleConnectionStaysRouted
<1> QED
  BY <1>1, <1>2

\* The snapshot of the online workers.
LEMMA ChooseStartStep ==
  ASSUME Inv, NEW r \in Routers, ChooseStart(r)
  PROVE  Inv'
<1>1. RegistryInv' /\ SyncInv'
  BY RouterOnly DEF ChooseStart, objVars
<1> USE RegistryAssumption
    DEF Inv, TypeOK, ChooseStart, RouterAt, RouterGoto, objVars, syncVars
<1>2. \A o \in GetOnlineWorkers : o \in Objs /\ idOf[o] # NoWorker
  BY DEF GetOnlineWorkers, OnlineIffMapped
<1>3. TypeOK'
  BY <1>2 DEF RouterPoints
<1>4. RouterPointers'
  BY <1>2 DEF RouterPointers, RouterId, Chosen
<1>5. Scored'
  BY DEF Scored
<1>6. Counted' /\ ClosedNotCounted'
  BY DEF Counted, RouterId, ClosedNotCounted
<1> QED
  BY <1>1, <1>3, <1>4, <1>5, <1>6 DEF RegistryInv, SyncInv

\* One worker is scored.
LEMMA ScoreWorkerStep ==
  ASSUME Inv, NEW r \in Routers, NEW o \in Objs, ScoreWorker(r, o)
  PROVE  Inv'
<1>1. RegistryInv' /\ SyncInv'
  BY RouterOnly DEF ScoreWorker, objVars
<1>2. Score(o) \in Int
  BY ScoreType DEF Inv
<1> USE RegistryAssumption
    DEF Inv, TypeOK, ScoreWorker, RouterAt, RouterGoto, objVars, syncVars
<1>3. TypeOK'
  BY <1>2 DEF RouterPoints
<1>4. best'[r] # NoObj /\ idOf[best'[r]] # NoWorker
  BY DEF RouterPointers
<1>5. RouterPointers'
  BY <1>4 DEF RouterPointers, RouterId
<1>6. Scored'
  <2>1. \A q \in Routers : q # r =>
          /\ rpc'[q] = rpc[q] /\ best'[q] = best[q] /\ scores'[q] = scores[q]
          /\ bestScore'[q] = bestScore[q]
    OBVIOUS
  <2>2. rpc'[r] # "idle" /\ scores'[r] = scores[r] \cup {Score(o)}
    OBVIOUS
  <2>3. /\ bestScore'[r] = Score(o) \/ bestScore'[r] = bestScore[r]
        /\ bestScore'[r] >= Score(o)
        /\ best[r] # NoObj => bestScore'[r] >= bestScore[r]
    BY <1>2
  <2>4. \A s \in scores[r] : s \in Int /\ s <= bestScore[r] /\ best[r] # NoObj
    BY DEF Scored
  <2>5. \A s \in scores'[r] : s <= bestScore'[r]
    BY <1>2, <2>2, <2>3, <2>4
  <2> QED
    BY <1>4, <2>1, <2>2, <2>5 DEF Scored
<1>7. Counted' /\ ClosedNotCounted'
  BY DEF Counted, RouterId, ClosedNotCounted
<1> QED
  BY <1>1, <1>3, <1>5, <1>6, <1>7 DEF RegistryInv, SyncInv

\* The requests to create and to close a router: their goroutine goes on, or
\* ends.
LEMMA RequestStep ==
  ASSUME Inv, NEW r \in Routers, CreateRequest(r) \/ CloseRequest(r)
  PROVE  Inv'
<1>1. RegistryInv' /\ SyncInv'
  BY RouterOnly DEF CreateRequest, CloseRequest, objVars
<1> USE RegistryAssumption DEF Inv, TypeOK, RouterAt, RouterGoto
<1>2. /\ rpc[r] \in {"picked", "live"}
      /\ \E p \in {"failed", "add", "remove"} : rpc' = [rpc EXCEPT ![r] = p]
      /\ rpc[r] = "picked" => rpc'[r] \in {"failed", "add"}
      /\ rpc[r] = "live" => rpc'[r] \in {"failed", "remove"}
      /\ UNCHANGED <<objVars, syncVars, todo, best, rptr, claimed, reported>>
  BY DEF CreateRequest, CloseRequest
<1>3. bestScore' \in [Routers -> Int] /\ scores' \in [Routers -> SUBSET Int]
      /\ \A q \in Routers : q # r =>
            bestScore'[q] = bestScore[q] /\ scores'[q] = scores[q]
  BY DEF CreateRequest, CloseRequest
<1>4. TypeOK'
  <2>1. rpc' \in [Routers -> RouterPoints]
    BY <1>2 DEF RouterPoints
  <2> QED
    BY <1>2, <1>3, <2>1 DEF objVars, syncVars
<1>5. RouterPointers'
  BY <1>2 DEF RouterPointers, RouterId, Chosen, objVars
<1>6. Scored'
  BY <1>2, <1>3 DEF Scored
<1>7. Counted'
  BY <1>2 DEF Counted, RouterId, objVars
<1>8. ClosedNotCounted'
  BY <1>2 DEF ClosedNotCounted, objVars
<1> QED
  BY <1>1, <1>4, <1>5, <1>6, <1>7, <1>8 DEF RegistryInv, SyncInv

\* The look-ups of AddRouter and RemoveRouter: the object is the id's own; an
\* id out of the map leaves no object in the map that has the router.
LEMMA LookupStep ==
  ASSUME Inv, NEW r \in Routers, AddRouterLookup(r) \/ RemoveRouterLookup(r)
  PROVE  Inv'
<1>1. RegistryInv' /\ SyncInv'
  BY RouterOnly DEF AddRouterLookup, RemoveRouterLookup, objVars
<1> USE RegistryAssumption DEF Inv, TypeOK, RouterAt, RouterGoto
<1>2. /\ rpc[r] \in {"add", "remove"}
      /\ UNCHANGED <<objVars, syncVars, todo, best, bestScore, scores, claimed,
                     reported>>
      /\ rptr' = [rptr EXCEPT ![r] = mapped[RouterId(r)]]
      /\ \E p \in {"live", "adding", "closed", "removing"} :
           /\ rpc' = [rpc EXCEPT ![r] = p]
           /\ p \in {"live", "adding"} <=> rpc[r] = "add"
           /\ p \in {"live", "closed"} <=> mapped[RouterId(r)] = NoObj
  BY DEF AddRouterLookup, RemoveRouterLookup
<1>3. RouterId(r) \in Workers /\ best[r] \in Objs
  BY <1>2 DEF RouterPointers, Chosen, RouterId
<1>4. mapped[RouterId(r)] # NoObj => idOf[mapped[RouterId(r)]] = RouterId(r)
  BY <1>3 DEF OnlineIffMapped
<1>5. TypeOK'
  BY <1>2, <1>3 DEF RouterPoints, objVars, syncVars
<1>6. RouterPointers'
  BY <1>2, <1>3, <1>4 DEF RouterPointers, RouterId, Chosen, objVars
<1>7. Scored'
  BY <1>2 DEF Scored
<1>8. \A w \in Workers : mapped[w] # NoObj /\ r \in routers[mapped[w]] =>
         w = RouterId(r)
  BY <1>3 DEF Counted, OnlineIffMapped
<1>9. Counted'
  BY <1>2, <1>8 DEF Counted, RouterId, objVars
<1>10. ClosedNotCounted'
  BY <1>2, <1>8 DEF ClosedNotCounted, objVars
<1> QED
  BY <1>1, <1>5, <1>6, <1>7, <1>9, <1>10 DEF RegistryInv, SyncInv

\* A router is counted once, on an object of its worker's id.
LEMMA AddRouterStep ==
  ASSUME Inv, NEW r \in Routers, AddRouter(r)
  PROVE  Inv'
<1>1. RegistryInv' /\ SyncInv'
  BY RouterOnly DEF AddRouter
<1> USE RegistryAssumption
    DEF Inv, TypeOK, AddRouter, RouterAt, RouterGoto, syncVars
<1>2. rptr[r] \in Objs /\ idOf[rptr[r]] = RouterId(r) /\ best[r] # NoObj
  BY DEF RouterPointers, Chosen
<1>3. (routerCount[rptr[r]] + 1) % Modulus \in 0..(Modulus - 1)
  BY <1>2, ModuloType
<1>4. TypeOK'
  BY <1>2, <1>3 DEF RouterPoints
<1>5. RouterPointers' /\ Scored'
  BY DEF RouterPointers, RouterId, Chosen, Scored
<1>6. \A q \in Routers, o \in Objs :
         q \in routers'[o] => q \in routers[o] \/ (q = r /\ o = rptr[r])
  BY <1>2
<1>7. Counted'
  BY <1>2, <1>6 DEF Counted, RouterId
<1>8. ClosedNotCounted'
  BY <1>2, <1>6 DEF ClosedNotCounted
<1> QED
  BY <1>1, <1>4, <1>5, <1>7, <1>8 DEF RegistryInv, SyncInv

\* A closed router leaves the one object of the map that may have it.
LEMMA RemoveRouterStep ==
  ASSUME Inv, NEW r \in Routers, RemoveRouter(r)
  PROVE  Inv'
<1>1. RegistryInv' /\ SyncInv'
  BY RouterOnly DEF RemoveRouter
<1> USE RegistryAssumption
    DEF Inv, TypeOK, RemoveRouter, RouterAt, RouterGoto, syncVars
<1>2. rptr[r] \in Objs /\ best[r] # NoObj
  BY DEF RouterPointers, Chosen
<1>3. (routerCount[rptr[r]] + Modulus - 1) % Modulus \in 0..(Modulus - 1)
  <2>1. routerCount[rptr[r]] \in 0..(Modulus - 1)
    BY <1>2
  <2> HIDE DEF Inv, TypeOK, RemoveRouter
  <2>2. routerCount[rptr[r]] + Modulus - 1 \in Nat
    BY <2>1
  <2> QED
    BY <2>2, ModuloType
<1>4. TypeOK'
  BY <1>2, <1>3 DEF RouterPoints
<1>5. RouterPointers' /\ Scored'
  BY DEF RouterPointers, RouterId, Chosen, Scored
<1>6. /\ \A o \in Objs : routers'[o] \subseteq routers[o]
      /\ r \notin routers'[rptr[r]]
  BY <1>2
<1>7. Counted'
  BY <1>6 DEF Counted, RouterId
<1>8. ClosedNotCounted'
  BY <1>6 DEF ClosedNotCounted, Counted
<1> QED
  BY <1>1, <1>4, <1>5, <1>7, <1>8 DEF RegistryInv, SyncInv

-----------------------------------------------------------------------------
(* The theorems                                                             *)

\* Every step preserves Inv.
LEMMA NextInv == Inv /\ [Next]_vars => Inv'
<1> SUFFICES ASSUME Inv, [Next]_vars PROVE Inv'
  OBVIOUS
<1>1. CASE UNCHANGED vars
  BY <1>1 DEF vars, objVars, syncVars, routerVars, Inv, TypeOK, SyncPointers,
     RouterPointers, RouterId, Aging, Claims, Scored, Counted, OnlineIffMapped,
     ClosedNotCounted, RouterAt, SoleConnectionStaysRouted
<1>2. ASSUME NEW k \in Conns, SyncStep(k) \/ Break(k) PROVE Inv'
  BY <1>2, RecvRegisterStep, DropStreamStep, StoreStreamStep, SyncMovesStep,
     RegisterStep, RecvKeepaliveStep, BeatStep, StatsUpdateStep DEF SyncStep
<1>3. ASSUME NEW r \in Routers, RouterStep(r) PROVE Inv'
  BY <1>3, ChooseStartStep, ScoreWorkerStep, RequestStep, LookupStep,
     AddRouterStep, RemoveRouterStep DEF RouterStep
<1> QED
  BY <1>1, <1>2, <1>3, TickStep, CleanupStep DEF Next

\* Inv holds in every reachable state.
THEOREM Invariance == Spec => []Inv
  BY InitInv, NextInv, PTL DEF Spec

\* The registry, Sync's locals and those of the routers keep their types.
THEOREM TypeCorrect == Spec => []TypeOK
<1>1. Inv => TypeOK
  BY DEF Inv
<1> QED
  BY <1>1, Invariance, PTL

\* A worker is online exactly while wm.workers has it under its id, whatever
\* writes through pointers looked up before its removal are still to come.
THEOREM StatusAgreesWithMap == Spec => []OnlineIffMapped
<1>1. Inv => OnlineIffMapped
  BY DEF Inv
<1> QED
  BY <1>1, Invariance, PTL

\* A silent worker is out of the map one cleanup interval after its timeout.
THEOREM SilentWorkersLeave == Spec => []SilenceIsBounded
<1>1. Inv => SilenceIsBounded
  <2> SUFFICES ASSUME Inv, NEW w \in Workers, mapped[w] # NoObj
               PROVE  age[mapped[w]] <= HeartbeatTimeout + CleanupInterval
    BY DEF SilenceIsBounded
  <2>1. age[mapped[w]] \in Int /\ sinceCleanup \in Int
        /\ sinceCleanup <= CleanupInterval
    BY RegistryAssumption DEF Inv, TypeOK, MaxAge
  <2>2. age[mapped[w]] <= HeartbeatTimeout + sinceCleanup
    BY DEF Inv, Aging
  <2> QED
    BY <2>1, <2>2, RegistryAssumption
<1> QED
  BY <1>1, Invariance, PTL

\* The only connection that ever used an id keeps receiving its requests.
THEOREM SoleConnectionIsReached == Spec => []SoleConnectionStaysRouted
<1>1. Inv => SoleConnectionStaysRouted
  BY DEF Inv
<1> QED
  BY <1>1, Invariance, PTL

\* A router whose close was confirmed is on no worker of the map.
THEOREM ClosedRoutersLeave == Spec => []ClosedNotCounted
<1>1. Inv => ClosedNotCounted
  BY DEF Inv
<1> QED
  BY <1>1, Invariance, PTL

\* ChooseBestWorker finds a worker, and none it looked at scored higher.
THEOREM BestIsChosen == Spec => []PickIsMaximal
<1>1. Inv => PickIsMaximal
  BY DEF Inv, RouterPointers, Chosen, Scored, PickIsMaximal, RouterAt
<1> QED
  BY <1>1, Invariance, PTL

-----------------------------------------------------------------------------
(* routerCount, as long as fewer than 2^32 routers are ever created         *)

\* The routers of an object are finitely many, and fewer than 2^32.
LEMMA RoutersAreFew ==
  ASSUME IsFiniteSet(Routers), Cardinality(Routers) < Modulus,
         NEW S \in SUBSET Routers
  PROVE  IsFiniteSet(S) /\ Cardinality(S) \in Nat /\ Cardinality(S) < Modulus
<1>1. IsFiniteSet(S) /\ Cardinality(S) <= Cardinality(Routers)
  BY FS_Subset
<1>2. Cardinality(S) \in Nat /\ Cardinality(Routers) \in Nat
  BY <1>1, FS_CardinalityType
<1> QED
  BY <1>1, <1>2, RegistryAssumption

\* AddRouter adds one to both, RemoveRouter takes one off both or neither.
LEMMA CountStep ==
  ASSUME IsFiniteSet(Routers), Cardinality(Routers) < Modulus,
         Inv, CountTracksRouters, [Next]_vars
  PROVE  CountTracksRouters'
<1>1. CASE UNCHANGED <<routerCount, routers, reported>>
  BY <1>1 DEF CountTracksRouters
<1>2. ASSUME NEW k \in Conns, NEW rep \in Reports, StatsUpdate(k, rep)
      PROVE  CountTracksRouters'
  BY <1>2 DEF StatsUpdate, UpdateWorkerStats, CountTracksRouters, Inv, TypeOK
<1>3. ASSUME NEW r \in Routers, AddRouter(r)
      PROVE  CountTracksRouters'
  <2> DEFINE o == rptr[r]
  <2>1. o \in Objs /\ routers[o] \in SUBSET Routers /\ r \notin routers[o]
    BY <1>3 DEF AddRouter, RouterAt, Inv, TypeOK, RouterPointers, Counted
  <2>2. /\ routers' = [routers EXCEPT ![o] = @ \cup {r}]
        /\ routerCount' = [routerCount EXCEPT ![o] = (@ + 1) % Modulus]
        /\ UNCHANGED reported
    BY <1>3 DEF AddRouter
  <2> HIDE DEF o
  <2>3. /\ IsFiniteSet(routers[o]) /\ Cardinality(routers[o]) \in Nat
        /\ Cardinality(routers[o] \cup {r}) \in Nat
        /\ Cardinality(routers[o] \cup {r}) < Modulus
    BY <2>1, RoutersAreFew
  <2>4. Cardinality(routers[o] \cup {r}) = Cardinality(routers[o]) + 1
    BY <2>1, <2>3, FS_AddElement
  <2>5. o \notin reported =>
          (routerCount[o] + 1) % Modulus = Cardinality(routers[o] \cup {r})
    BY <2>1, <2>3, <2>4, RegistryAssumption DEF CountTracksRouters
  <2> QED
    BY <2>1, <2>2, <2>5 DEF CountTracksRouters, Inv, TypeOK
<1>4. ASSUME NEW r \in Routers, RemoveRouter(r)
      PROVE  CountTracksRouters'
  <2> DEFINE o == rptr[r]
  <2>1. o \in Objs /\ routers[o] \in SUBSET Routers
    BY <1>4 DEF RemoveRouter, RouterAt, Inv, TypeOK, RouterPointers
  <2>2. CASE r \notin routers[o]
    BY <1>1, <1>4, <2>2 DEF RemoveRouter
  <2>3. CASE r \in routers[o]
    <3>1. /\ routers' = [routers EXCEPT ![o] = @ \ {r}]
          /\ routerCount' = [routerCount EXCEPT ![o] = (@ + Modulus - 1) % Modulus]
          /\ UNCHANGED reported
      BY <1>4, <2>3 DEF RemoveRouter
    <3> HIDE DEF o
    <3>2. /\ IsFiniteSet(routers[o]) /\ Cardinality(routers[o]) \in Nat
          /\ Cardinality(routers[o]) < Modulus
          /\ Cardinality(routers[o] \ {r}) \in Nat
      BY <2>1, RoutersAreFew
    <3>3. Cardinality(routers[o] \ {r}) = Cardinality(routers[o]) - 1
      BY <2>3, <3>2, FS_RemoveElement
    <3>4. o \notin reported => (routerCount[o] + Modulus - 1) % Modulus
                                 = Cardinality(routers[o] \ {r})
      BY <2>1, <3>2, <3>3, RegistryAssumption DEF CountTracksRouters
    <3> QED
      BY <2>1, <3>1, <3>4 DEF CountTracksRouters, Inv, TypeOK
  <2> QED
    BY <2>2, <2>3
<1>5. CASE UNCHANGED vars
  BY <1>1, <1>5 DEF vars, objVars
<1>6. CASE Tick \/ Cleanup
  BY <1>1, <1>6 DEF Tick, Cleanup, Discard
<1>7. ASSUME NEW k \in Conns, SyncStep(k) \/ Break(k)
      PROVE  CountTracksRouters'
  BY <1>1, <1>2, <1>7 DEF SyncStep, RecvRegister, RemoveWorker, Discard,
     DeleteOld, StoreStream, SendAck, Register, RegisterWorker, RecvKeepalive,
     Beat, Heartbeat, StatsLookup, RecvError, DropStream, Break, objVars
<1>8. ASSUME NEW r \in Routers, RouterStep(r)
      PROVE  CountTracksRouters'
  BY <1>1, <1>3, <1>4, <1>8 DEF RouterStep, ChooseStart, ScoreWorker,
     CreateRequest, AddRouterLookup, CloseRequest, RemoveRouterLookup, objVars
<1> QED
  BY <1>5, <1>6, <1>7, <1>8 DEF Next

\* Until a keepalive overwrites it, routerCount is exactly the number of
\* routers: it never wraps below zero, whatever closes race with removals and
\* new registrations of the worker.
THEOREM CountIsExact ==
  ASSUME IsFiniteSet(Routers), Cardinality(Routers) < Modulus
  PROVE  Spec => []CountTracksRouters
<1>1. Init => CountTracksRouters
  BY FS_EmptySet DEF Init, CountTracksRouters
<1>2. Inv /\ CountTracksRouters /\ [Next]_vars => CountTracksRouters'
  BY CountStep
<1> QED
  BY <1>1, <1>2, Invariance, PTL DEF Spec
=============================================================================
