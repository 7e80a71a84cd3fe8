--------------------------- MODULE WorkerRegistry ---------------------------
(***************************************************************************)
(* The registry of media workers: workerManager.go, with the goroutines    *)
(* that change it.                                                         *)
(*                                                                         *)
(*   - one Sync goroutine per worker connection (grpcServer.go), which     *)
(*     registers and removes workers and applies their keepalives;         *)
(*   - the cleanupWorkers goroutine, which expires silent workers;         *)
(*   - one goroutine per router, which chooses a worker, creates the       *)
(*     router on it, counts it, and may close it again.                    *)
(*                                                                         *)
(* wm.workers maps ids to Worker objects.  Heartbeat, UpdateWorkerStats,   *)
(* AddRouter and RemoveRouter look an object up under wm.mu and change it  *)
(* later, under its own lock: in between the object may be removed from    *)
(* the map, or the id be registered anew.  Each critical section is one    *)
(* step here, and so is each operation on s.workers.  sendRequest is       *)
(* taken as RequestReply describes it: an unknown id fails, anything else  *)
(* may succeed or fail.                                                    *)
(*                                                                         *)
(* Time passes in ticks; lastHeartbeat is kept as its age.                 *)
(***************************************************************************)
EXTENDS Integers, FiniteSets

CONSTANTS
    Workers,           \* worker ids
    Objs,              \* Worker objects; bounds the registrations of new ids
    Conns,             \* connections, each served by one Sync goroutine
    Routers,           \* routers, each made by one CreateRouterOnWorker
    Reports,           \* the [routerCount, cpu, mem] a keepalive may carry
    HeartbeatTimeout,  \* heartbeatTimeout in ticks
    CleanupInterval,   \* workerCleanupInterval in ticks
    Modulus,           \* routerCount is a uint32: arithmetic modulo 2^32
    NoWorker, NoObj, NoConn

ASSUME RegistryAssumption ==
    /\ HeartbeatTimeout \in Nat \ {0} /\ CleanupInterval \in Nat \ {0}
    /\ Modulus \in Nat \ {0}
    /\ Reports \subseteq [routerCount : 0..(Modulus - 1), cpu : Nat, mem : Nat]
    /\ NoWorker \notin Workers /\ NoObj \notin Objs /\ NoConn \notin Conns

VARIABLES
    mapped,       \* wm.workers
    idOf,         \* worker.workerId of each object, NoWorker if not allocated
    online,       \* the objects whose status is WorkerStatusOnline
    age,          \* ticks since lastHeartbeat
    routerCount, load, routers,   \* the object's fields; load is [cpu, mem]
    sinceCleanup, \* ticks since cleanupWorkers last ran
    stored,       \* s.workers: the connection of the id's WorkerStream
    broken,       \* connections that have ended
    sync, workerID, ptr,   \* Sync's locals
    ws,           \* Sync's local ws: the workerId of ws.worker, or NoWorker
    rpc, todo, best, bestScore, rptr,              \* a router goroutine's locals
    \* for the properties alone:
    reported,     \* objects some keepalive has overwritten the count of
    claimed,      \* claimed[w]: the connections that ever used id w
    scores        \* the scores ChooseBestWorker has read

objVars == <<mapped, idOf, online, age, routerCount, load, routers, sinceCleanup>>
syncVars == <<stored, broken, sync, workerID, ptr, ws>>
routerVars == <<rpc, todo, best, bestScore, rptr, scores>>
vars == <<objVars, syncVars, routerVars, claimed, reported>>

MaxAge == HeartbeatTimeout + CleanupInterval + 1   \* ages beyond are alike

SyncPoints == {"recv", "deleteOld", "register", "store", "ack", "beat",
               "stats", "update", "drop", "returned"}
RouterPoints == {"idle", "scoring", "picked", "add", "adding", "live",
                 "remove", "removing", "closed", "failed"}
Load == [cpu : Nat, mem : Nat]

TypeOK ==
    /\ mapped \in [Workers -> Objs \cup {NoObj}]
    /\ idOf \in [Objs -> Workers \cup {NoWorker}]
    /\ online \subseteq Objs
    /\ age \in [Objs -> 0..MaxAge]
    /\ routerCount \in [Objs -> 0..(Modulus - 1)]
    /\ load \in [Objs -> Load]
    /\ routers \in [Objs -> SUBSET Routers]
    /\ sinceCleanup \in 0..CleanupInterval
    /\ stored \in [Workers -> Conns \cup {NoConn}]
    /\ broken \subseteq Conns
    /\ sync \in [Conns -> SyncPoints]
    /\ workerID \in [Conns -> Workers \cup {NoWorker}]
    /\ ptr \in [Conns -> Objs \cup {NoObj}]
    /\ ws \in [Conns -> Workers \cup {NoWorker}]
    /\ rpc \in [Routers -> RouterPoints]
    /\ todo \in [Routers -> SUBSET Objs]
    /\ best \in [Routers -> Objs \cup {NoObj}]
    /\ bestScore \in [Routers -> Int]
    /\ rptr \in [Routers -> Objs \cup {NoObj}]
    /\ reported \subseteq Objs
    /\ claimed \in [Workers -> SUBSET Conns]
    /\ scores \in [Routers -> SUBSET Int]

Init ==
    /\ mapped = [w \in Workers |-> NoObj]
    /\ idOf = [o \in Objs |-> NoWorker]
    /\ online = {}
    /\ age = [o \in Objs |-> 0]
    /\ routerCount = [o \in Objs |-> 0]
    /\ load = [o \in Objs |-> [cpu |-> 0, mem |-> 0]]
    /\ routers = [o \in Objs |-> {}]
    /\ sinceCleanup = 0
    /\ stored = [w \in Workers |-> NoConn]
    /\ broken = {}
    /\ sync = [k \in Conns |-> "recv"]
    /\ workerID = [k \in Conns |-> NoWorker]
    /\ ptr = [k \in Conns |-> NoObj]
    /\ ws = [k \in Conns |-> NoWorker]
    /\ rpc = [r \in Routers |-> "idle"]
    /\ todo = [r \in Routers |-> {}]
    /\ best = [r \in Routers |-> NoObj]
    /\ bestScore = [r \in Routers |-> 0]
    /\ rptr = [r \in Routers |-> NoObj]
    /\ reported = {}
    /\ claimed = [w \in Workers |-> {}]
    /\ scores = [r \in Routers |-> {}]

-----------------------------------------------------------------------------
(* WorkerManager: what its operations do to the registry.                   *)

(* The objects D go offline and leave the map. *)
Discard(D) ==
    /\ mapped' = [w \in Workers |-> IF mapped[w] \in D THEN NoObj ELSE mapped[w]]
    /\ online' = online \ D
    /\ UNCHANGED <<idOf, age, routerCount, load, routers>>

RemoveWorker(id) ==
    /\ Discard({mapped[w] : w \in Workers \cap {id}})
    /\ UNCHANGED sinceCleanup

(* An id in the map keeps its object, with its counters and its address. *)
RegisterWorker(id) ==
    /\ \/ /\ mapped[id] # NoObj
          /\ age' = [age EXCEPT ![mapped[id]] = 0]
          /\ online' = online \cup {mapped[id]}
          /\ UNCHANGED <<mapped, idOf>>
       \/ /\ mapped[id] = NoObj
          /\ \E o \in Objs :
              /\ idOf[o] = NoWorker
              /\ idOf' = [idOf EXCEPT ![o] = id]
              /\ mapped' = [mapped EXCEPT ![id] = o]
              /\ online' = online \cup {o}
              /\ age' = [age EXCEPT ![o] = 0]
    /\ UNCHANGED <<routerCount, load, routers, sinceCleanup>>

\* Mutant: a worker that is heard of again is put back online.
HeartbeatRevives(o) ==
    /\ age' = [age EXCEPT ![o] = 0]
    /\ online' = online \cup {o}
    /\ UNCHANGED <<mapped, idOf, routerCount, load, routers, sinceCleanup>>

(* The write of Heartbeat, through the pointer it looked up before. *)
Heartbeat(o) ==
    /\ age' = [age EXCEPT ![o] = 0]
    /\ UNCHANGED <<mapped, idOf, online, routerCount, load, routers, sinceCleanup>>

(* The write of UpdateWorkerStats: the count is overwritten. *)
UpdateWorkerStats(o, rep) ==
    /\ routerCount' = [routerCount EXCEPT ![o] = rep.routerCount]
    /\ load' = [load EXCEPT ![o] = [cpu |-> rep.cpu, mem |-> rep.mem]]
    /\ age' = [age EXCEPT ![o] = 0]
    /\ UNCHANGED <<mapped, idOf, online, routers, sinceCleanup>>

GetOnlineWorkers ==
    {o \in online : o \in {mapped[w] : w \in Workers} /\ age[o] < HeartbeatTimeout}

Score(o) == 1000 - ((routerCount[o] * 10) % Modulus)
                 - load[o].cpu - (load[o].mem \div 2)

-----------------------------------------------------------------------------
(* cleanupWorkers and the clock.  The ticker's goroutine is not starved: a  *)
(* cleanup that is due runs before more time passes.                        *)

Tick ==
    /\ sinceCleanup < CleanupInterval
    /\ sinceCleanup' = sinceCleanup + 1
    /\ age' = [o \in Objs |-> IF o \in online /\ age[o] < MaxAge
                              THEN age[o] + 1 ELSE age[o]]
    /\ UNCHANGED <<mapped, idOf, online, routerCount, load, routers, syncVars,
                   routerVars, claimed, reported>>

\* Mutant: off by one in the comparison.
StaleLate(o) == age[o] > HeartbeatTimeout + 1

Stale(o) == age[o] > HeartbeatTimeout

\* Mutant: the streams of the workers removed are dropped with them.
CleanupDropsStreams ==
    LET D == {o \in Objs : Stale(o) /\ \E w \in Workers : mapped[w] = o} IN
    /\ sinceCleanup = CleanupInterval
    /\ sinceCleanup' = 0
    /\ Discard(D)
    /\ stored' = [w \in Workers |-> IF mapped[w] \in D THEN NoConn ELSE stored[w]]
    /\ UNCHANGED <<broken, sync, workerID, ptr, ws, routerVars,
                   claimed, reported>>

Cleanup ==
    /\ sinceCleanup = CleanupInterval
    /\ sinceCleanup' = 0
    /\ Discard({o \in Objs : Stale(o) /\ \E w \in Workers : mapped[w] = o})
    /\ UNCHANGED <<syncVars, routerVars, claimed, reported>>

-----------------------------------------------------------------------------
(* Sync: one goroutine per connection.                                      *)

At(k, p) == sync[k] = p
Goto(k, p) == sync' = [sync EXCEPT ![k] = p]

\* A registration: first the id the connection used so far is removed from
\* the manager, then from s.workers.
RecvRegister(k) ==
    /\ At(k, "recv")
    /\ RemoveWorker(workerID[k])
    /\ Goto(k, IF workerID[k] = NoWorker THEN "register" ELSE "deleteOld")
    /\ UNCHANGED <<stored, broken, workerID, ptr, ws, routerVars,
                   claimed, reported>>

DeleteOld(k) ==
    /\ At(k, "deleteOld")
    /\ stored' = [stored EXCEPT ![workerID[k]] = NoConn]
    /\ Goto(k, "register")
    /\ UNCHANGED <<objVars, broken, workerID, ptr, ws, routerVars,
                   claimed, reported>>

Register(k, w) ==
    /\ At(k, "register")
    /\ RegisterWorker(w)
    /\ workerID' = [workerID EXCEPT ![k] = w]
    /\ claimed' = [claimed EXCEPT ![w] = @ \cup {k}]
    /\ Goto(k, "store")
    /\ UNCHANGED <<stored, broken, ptr, ws, routerVars, reported>>

StoreStream(k) ==
    /\ At(k, "store")
    /\ stored' = [stored EXCEPT ![workerID[k]] = k]
    /\ ws' = [ws EXCEPT ![k] = workerID[k]]
    /\ Goto(k, "ack")
    /\ UNCHANGED <<objVars, broken, workerID, ptr, routerVars, claimed,
                   reported>>

\* When the acknowledgement fails Sync returns and cleans nothing up.
SendAck(k) ==
    /\ At(k, "ack")
    /\ Goto(k, IF k \in broken THEN "returned" ELSE "recv")
    /\ UNCHANGED <<objVars, stored, broken, workerID, ptr, ws,
                   routerVars, claimed, reported>>

\* A keepalive: Heartbeat's lookup, its write, and when the connection has
\* registered UpdateWorkerStats's own lookup and write.
RecvKeepalive(k, w) ==
    /\ At(k, "recv")
    /\ workerID' = [workerID EXCEPT ![k] = w]
    /\ claimed' = [claimed EXCEPT ![w] = @ \cup {k}]
    /\ ptr' = [ptr EXCEPT ![k] = mapped[w]]
    /\ Goto(k, IF mapped[w] = NoObj THEN "recv" ELSE "beat")
    /\ UNCHANGED <<objVars, stored, broken, ws, routerVars, reported>>

Beat(k) ==
    /\ At(k, "beat")
    /\ Heartbeat(ptr[k])
    /\ ptr' = [ptr EXCEPT ![k] = NoObj]
    /\ Goto(k, IF ws[k] # NoWorker THEN "stats" ELSE "recv")
    /\ UNCHANGED <<stored, broken, workerID, ws, routerVars, claimed,
                   reported>>

StatsLookup(k) ==
    /\ At(k, "stats")
    /\ ptr' = [ptr EXCEPT ![k] = mapped[workerID[k]]]
    /\ Goto(k, IF mapped[workerID[k]] = NoObj THEN "recv" ELSE "update")
    /\ UNCHANGED <<objVars, stored, broken, workerID, ws, routerVars,
                   claimed, reported>>

StatsUpdate(k, rep) ==
    /\ At(k, "update")
    /\ UpdateWorkerStats(ptr[k], rep)
    /\ reported' = reported \cup {ptr[k]}
    /\ ptr' = [ptr EXCEPT ![k] = NoObj]
    /\ Goto(k, "recv")
    /\ UNCHANGED <<stored, broken, workerID, ws, routerVars, claimed>>

\* Recv fails or ends: the manager first, s.workers after it.
RecvError(k) ==
    /\ At(k, "recv")
    /\ k \in broken
    /\ RemoveWorker(workerID[k])
    /\ Goto(k, IF workerID[k] = NoWorker THEN "returned" ELSE "drop")
    /\ UNCHANGED <<stored, broken, workerID, ptr, ws, routerVars,
                   claimed, reported>>

DropStream(k) ==
    /\ At(k, "drop")
    /\ stored' = [stored EXCEPT ![workerID[k]] = NoConn]
    /\ Goto(k, "returned")
    /\ UNCHANGED <<objVars, broken, workerID, ptr, ws, routerVars,
                   claimed, reported>>

\* External: the connection ends.
Break(k) ==
    /\ k \notin broken
    /\ broken' = broken \cup {k}
    /\ UNCHANGED <<objVars, stored, sync, workerID, ptr, ws, routerVars,
                   claimed, reported>>

-----------------------------------------------------------------------------
(* CreateRouterOnWorker and CloseRouterOnWorker: one goroutine per router.  *)

RouterAt(r, p) == rpc[r] = p
RouterGoto(r, p) == rpc' = [rpc EXCEPT ![r] = p]

\* ChooseBestWorker: a snapshot of the online workers ...
ChooseStart(r) ==
    /\ RouterAt(r, "idle")
    /\ todo' = [todo EXCEPT ![r] = GetOnlineWorkers]
    /\ RouterGoto(r, IF GetOnlineWorkers = {} THEN "failed" ELSE "scoring")
    /\ UNCHANGED <<objVars, syncVars, best, bestScore, rptr, scores, claimed,
                   reported>>

\* Mutant: bestScore starts at zero and there is no test for nil.
ScoreAboveZero(r, o) ==
    /\ RouterAt(r, "scoring")
    /\ o \in todo[r]
    /\ todo' = [todo EXCEPT ![r] = @ \ {o}]
    /\ scores' = [scores EXCEPT ![r] = @ \cup {Score(o)}]
    /\ IF Score(o) > bestScore[r]
       THEN /\ best' = [best EXCEPT ![r] = o]
            /\ bestScore' = [bestScore EXCEPT ![r] = Score(o)]
       ELSE UNCHANGED <<best, bestScore>>
    /\ RouterGoto(r, IF todo[r] = {o} THEN "picked" ELSE "scoring")
    /\ UNCHANGED <<objVars, syncVars, rptr, claimed, reported>>

\* ... scored one by one, in the order of a map iteration.
ScoreWorker(r, o) ==
    /\ RouterAt(r, "scoring")
    /\ o \in todo[r]
    /\ todo' = [todo EXCEPT ![r] = @ \ {o}]
    /\ scores' = [scores EXCEPT ![r] = @ \cup {Score(o)}]
    /\ IF best[r] = NoObj \/ Score(o) > bestScore[r]
       THEN /\ best' = [best EXCEPT ![r] = o]
            /\ bestScore' = [bestScore EXCEPT ![r] = Score(o)]
       ELSE UNCHANGED <<best, bestScore>>
    /\ RouterGoto(r, IF todo[r] = {o} THEN "picked" ELSE "scoring")
    /\ UNCHANGED <<objVars, syncVars, rptr, claimed, reported>>

RouterId(r) == idOf[best[r]]   \* router.workerId

\* sendRequest to the worker chosen, by its id.
CreateRequest(r) ==
    /\ RouterAt(r, "picked")
    /\ \/ RouterGoto(r, "failed")
       \/ stored[RouterId(r)] # NoConn /\ RouterGoto(r, "add")
    /\ bestScore' = [bestScore EXCEPT ![r] = 0]
    /\ scores' = [scores EXCEPT ![r] = {}]
    /\ UNCHANGED <<objVars, syncVars, todo, best, rptr, claimed, reported>>

\* AddRouter: GetWorker, then the write.  Its result is not looked at.
AddRouterLookup(r) ==
    /\ RouterAt(r, "add")
    /\ rptr' = [rptr EXCEPT ![r] = mapped[RouterId(r)]]
    /\ RouterGoto(r, IF mapped[RouterId(r)] = NoObj THEN "live" ELSE "adding")
    /\ UNCHANGED <<objVars, syncVars, todo, best, bestScore, scores, claimed,
                   reported>>

AddRouter(r) ==
    /\ RouterAt(r, "adding")
    /\ routers' = [routers EXCEPT ![rptr[r]] = @ \cup {r}]
    /\ routerCount' = [routerCount EXCEPT ![rptr[r]] = (@ + 1) % Modulus]
    /\ rptr' = [rptr EXCEPT ![r] = NoObj]
    /\ RouterGoto(r, "live")
    /\ UNCHANGED <<mapped, idOf, online, age, load, sinceCleanup, syncVars,
                   todo, best, bestScore, scores, claimed, reported>>

\* CloseRouterOnWorker: only a request that succeeded uncounts the router.
CloseRequest(r) ==
    /\ RouterAt(r, "live")
    /\ \/ RouterGoto(r, "failed")
       \/ stored[RouterId(r)] # NoConn /\ RouterGoto(r, "remove")
    /\ UNCHANGED <<objVars, syncVars, todo, best, bestScore, rptr, scores,
                   claimed, reported>>

RemoveRouterLookup(r) ==
    /\ RouterAt(r, "remove")
    /\ rptr' = [rptr EXCEPT ![r] = mapped[RouterId(r)]]
    /\ RouterGoto(r, IF mapped[RouterId(r)] = NoObj THEN "closed" ELSE "removing")
    /\ UNCHANGED <<objVars, syncVars, todo, best, bestScore, scores, claimed,
                   reported>>

\* Mutant: a count of zero is taken to mean that nothing is there to remove.
RemoveRouterIfCounted(r) ==
    LET o == rptr[r] IN
    /\ RouterAt(r, "removing")
    /\ IF r \in routers[o] /\ routerCount[o] > 0
       THEN /\ routers' = [routers EXCEPT ![o] = @ \ {r}]
            /\ routerCount' = [routerCount EXCEPT ![o] = @ - 1]
       ELSE UNCHANGED <<routers, routerCount>>
    /\ rptr' = [rptr EXCEPT ![r] = NoObj]
    /\ RouterGoto(r, "closed")
    /\ UNCHANGED <<mapped, idOf, online, age, load, sinceCleanup, syncVars,
                   todo, best, bestScore, scores, claimed, reported>>

\* Mutant: a signed counter.
RemoveRouterSigned(r) ==
    LET o == rptr[r] IN
    /\ RouterAt(r, "removing")
    /\ IF r \in routers[o]
       THEN /\ routers' = [routers EXCEPT ![o] = @ \ {r}]
            /\ routerCount' = [routerCount EXCEPT ![o] = @ - 1]
       ELSE UNCHANGED <<routers, routerCount>>
    /\ rptr' = [rptr EXCEPT ![r] = NoObj]
    /\ RouterGoto(r, "closed")
    /\ UNCHANGED <<mapped, idOf, online, age, load, sinceCleanup, syncVars,
                   todo, best, bestScore, scores, claimed, reported>>

\* Mutant: the count goes down whether or not the router was in the map.
RemoveRouterUnchecked(r) ==
    LET o == rptr[r] IN
    /\ RouterAt(r, "removing")
    /\ routers' = [routers EXCEPT ![o] = @ \ {r}]
    /\ routerCount' = [routerCount EXCEPT ![o] = (@ + Modulus - 1) % Modulus]
    /\ rptr' = [rptr EXCEPT ![r] = NoObj]
    /\ RouterGoto(r, "closed")
    /\ UNCHANGED <<mapped, idOf, online, age, load, sinceCleanup, syncVars,
                   todo, best, bestScore, scores, claimed, reported>>

\* Adding ^uint32(0) takes one off, and takes zero to 2^32 - 1.
RemoveRouter(r) ==
    LET o == rptr[r] IN
    /\ RouterAt(r, "removing")
    /\ IF r \in routers[o]
       THEN /\ routers' = [routers EXCEPT ![o] = @ \ {r}]
            /\ routerCount' = [routerCount EXCEPT ![o] = (@ + Modulus - 1) % Modulus]
       ELSE UNCHANGED <<routers, routerCount>>
    /\ rptr' = [rptr EXCEPT ![r] = NoObj]
    /\ RouterGoto(r, "closed")
    /\ UNCHANGED <<mapped, idOf, online, age, load, sinceCleanup, syncVars,
                   todo, best, bestScore, scores, claimed, reported>>

-----------------------------------------------------------------------------
SyncStep(k) ==
    \/ RecvRegister(k) \/ DeleteOld(k) \/ StoreStream(k) \/ SendAck(k)
    \/ \E w \in Workers : Register(k, w) \/ RecvKeepalive(k, w)
    \/ Beat(k) \/ StatsLookup(k) \/ \E rep \in Reports : StatsUpdate(k, rep)
    \/ RecvError(k) \/ DropStream(k)

RouterStep(r) ==
    \/ ChooseStart(r) \/ \E o \in Objs : ScoreWorker(r, o)
    \/ CreateRequest(r) \/ AddRouterLookup(r) \/ AddRouter(r)
    \/ CloseRequest(r) \/ RemoveRouterLookup(r) \/ RemoveRouter(r)

Next ==
    \/ Tick \/ Cleanup
    \/ \E k \in Conns : SyncStep(k) \/ Break(k)
    \/ \E r \in Routers : RouterStep(r)

Spec == Init /\ [][Next]_vars

-----------------------------------------------------------------------------
\* The status of a Worker and its place in wm.workers agree: an object is
\* online exactly while the map holds it, under its own id.  A late write of
\* Heartbeat or UpdateWorkerStats through a pointer that has left the map, or
\* a registration in that window, never brings a removed worker back.
OnlineIffMapped ==
    /\ online = {mapped[w] : w \in Workers} \ {NoObj}
    /\ \A w \in Workers : mapped[w] # NoObj => idOf[mapped[w]] = w

\* A worker nobody hears from, after a failed acknowledgement too, is gone
\* from the map one cleanup interval after its heartbeat timed out.
SilenceIsBounded ==
    \A w \in Workers :
        mapped[w] # NoObj => age[mapped[w]] <= HeartbeatTimeout + CleanupInterval

\* Until a keepalive overwrites it, routerCount is the number of routers,
\* across removals, new registrations of the id and routers closed on an
\* object that is not the one they were added to.
CountTracksRouters ==
    \A o \in Objs \ reported : routerCount[o] = Cardinality(routers[o])

\* A router whose close was confirmed is not among the routers of any worker
\* in the map, whatever happened to the worker in between.
ClosedNotCounted ==
    \A r \in Routers : RouterAt(r, "closed") =>
        \A w \in Workers : mapped[w] # NoObj => r \notin routers[mapped[w]]

\* ChooseBestWorker returns a worker whenever one was online, all of them
\* overloaded included, and none of those it looked at scored higher.
PickIsMaximal ==
    \A r \in Routers : RouterAt(r, "picked") =>
        best[r] # NoObj /\ \A s \in scores[r] : s <= bestScore[r]

\* A connection that is the only one to have used the id it registered stays
\* the one requests for that id go to, through late keepalives, expiry of the
\* worker and registrations under other ids before it.
SoleConnectionStaysRouted ==
    \A k \in Conns :
        /\ ws[k] # NoWorker
        /\ sync[k] \in {"recv", "ack", "beat", "stats", "update"}
        /\ claimed[ws[k]] = {k}
        => stored[ws[k]] = k
=============================================================================
