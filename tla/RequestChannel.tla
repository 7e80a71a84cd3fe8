--------------------------- MODULE RequestChannel ---------------------------
(***************************************************************************)
(* The request channel between the signaling server and its media workers: *)
(* WebRtcServer.Sync and WebRtcServer.sendRequest of grpcServer.go.        *)
(*                                                                         *)
(* Every gRPC connection of a worker is served by one goroutine running    *)
(* Sync; every RPC of the signaling side is one invocation of sendRequest  *)
(* on a goroutine of its own (a call).  They share s.workers (a sync.Map   *)
(* from worker id to WorkerStream), the atomic counter s.nextID and, in    *)
(* each WorkerStream, the map pending from sequence numbers to the         *)
(* channels of the calls that wait.                                        *)
(*                                                                         *)
(* A step of this module is one atomic operation of the code: an operation *)
(* of the sync.Map, an atomic addition, a critical section of ws.mu, a     *)
(* Send, a channel receive.  The gRPC transport and the worker behind it   *)
(* are external: a request may be answered in any order, more than once or *)
(* never, and a connection may break at any time.                          *)
(***************************************************************************)
EXTENDS Naturals, FiniteSets

CONSTANTS
    Calls,       \* the invocations of sendRequest
    Workers,     \* worker ids
    Conns,       \* gRPC connections, each served by one Sync goroutine
    Streams,     \* WorkerStream objects, one for each registration
    NoWorker,    \* workerID = ""
    NoStream,    \* a nil *WorkerStream, or no entry in s.workers
    NoConn,      \* the connection of a WorkerStream not yet allocated
    NoReply      \* an empty channel, or a call that returned no message

ASSUME NoValuesAreNew ==
    /\ NoWorker \notin Workers
    /\ NoStream \notin Streams
    /\ NoConn \notin Conns
    /\ NoReply \notin [seq : Nat, call : Calls]

VARIABLES
    workers,     \* s.workers
    nextID,      \* s.nextID
    broken,      \* connections the peer or the network has ended
    sync,        \* the point each Sync goroutine is at
    workerID,    \* Sync's local workerID
    ws,          \* Sync's local ws
    connOf,      \* ws.stream of each WorkerStream
    pending,     \* ws.pending of each WorkerStream
    pc,          \* the point each call is at
    target,      \* the call's local ws
    seqID,       \* the call's local seqID
    resCh,       \* the call's channel, of capacity one
    result,      \* the message the call returned
    requests,    \* the requests each connection carried to its worker
    replies,     \* the replies the worker has sent on each connection
    missed       \* for the properties: calls whose answer Sync has dropped

connVars == <<workers, broken, sync, workerID, ws, connOf, missed>>
callVars == <<nextID, pc, target, seqID, result>>
vars == <<workers, nextID, broken, sync, workerID, ws, connOf, pending, pc,
          target, seqID, resCh, result, requests, replies, missed>>

(* A message is its sequence number and, for the properties alone, the call *)
(* whose request it is or answers.                                          *)
Messages == [seq : Nat, call : Calls]

SyncPoints == {"recv", "store", "ack", "returned"}
CallPoints == {"idle", "loaded", "numbered", "enrolled", "sent",
               "sendFailed", "waiting", "expired", "done"}
\* A call from its enrolment until it stops waiting.
Open == {"enrolled", "sent", "waiting"}

TypeOK ==
    /\ workers \in [Workers -> Streams \cup {NoStream}]
    /\ nextID \in Nat
    /\ broken \subseteq Conns
    /\ sync \in [Conns -> SyncPoints]
    /\ workerID \in [Conns -> Workers \cup {NoWorker}]
    /\ ws \in [Conns -> Streams \cup {NoStream}]
    /\ connOf \in [Streams -> Conns \cup {NoConn}]
    /\ pending \in [Streams -> SUBSET [seq : Nat, ch : Calls]]
    /\ pc \in [Calls -> CallPoints]
    /\ target \in [Calls -> Streams \cup {NoStream}]
    /\ seqID \in [Calls -> Nat]
    /\ resCh \in [Calls -> Messages \cup {NoReply}]
    /\ result \in [Calls -> Messages \cup {NoReply}]
    /\ requests \in [Conns -> SUBSET Messages]
    /\ replies \in [Conns -> SUBSET Messages]
    /\ missed \subseteq Calls

Init ==
    /\ workers = [w \in Workers |-> NoStream]
    /\ nextID = 0
    /\ broken = {}
    /\ sync = [k \in Conns |-> "recv"]
    /\ workerID = [k \in Conns |-> NoWorker]
    /\ ws = [k \in Conns |-> NoStream]
    /\ connOf = [s \in Streams |-> NoConn]
    /\ pending = [s \in Streams |-> {}]
    /\ pc = [c \in Calls |-> "idle"]
    /\ target = [c \in Calls |-> NoStream]
    /\ seqID = [c \in Calls |-> 0]
    /\ resCh = [c \in Calls |-> NoReply]
    /\ result = [c \in Calls |-> NoReply]
    /\ requests = [k \in Conns |-> {}]
    /\ replies = [k \in Conns |-> {}]
    /\ missed = {}

-----------------------------------------------------------------------------
(* The map ws.pending.  Storing under a key replaces what the key held.     *)

Without(m, n) == {e \in m : e.seq # n}
With(m, n, c) == Without(m, n) \cup {[seq |-> n, ch |-> c]}

\* s.workers.Delete(id), where deleting "" or an absent key does nothing
Deleted(id) == [w \in Workers |-> IF w = id THEN NoStream ELSE workers[w]]

-----------------------------------------------------------------------------
(* Sync: one goroutine per connection.                                      *)

\* A registration first drops whatever id this connection had used before.
RecvRegister(k, w) ==
    /\ sync[k] = "recv"
    /\ workers' = Deleted(workerID[k])
    /\ workerID' = [workerID EXCEPT ![k] = w]
    /\ sync' = [sync EXCEPT ![k] = "store"]
    /\ UNCHANGED <<broken, ws, connOf, pending, resCh, callVars,
                   requests, replies, missed>>

\* A new WorkerStream with an empty pending map takes the id's entry.
StoreStream(k, s) ==
    /\ sync[k] = "store"
    /\ connOf[s] = NoConn
    /\ connOf' = [connOf EXCEPT ![s] = k]
    /\ ws' = [ws EXCEPT ![k] = s]
    /\ workers' = [workers EXCEPT ![workerID[k]] = s]
    /\ sync' = [sync EXCEPT ![k] = "ack"]
    /\ UNCHANGED <<broken, workerID, pending, resCh, callVars,
                   requests, replies, missed>>

\* The acknowledgement; when it cannot be sent Sync returns at once and the
\* entry in s.workers stays behind.
SendAck(k) ==
    /\ sync[k] = "ack"
    /\ sync' = [sync EXCEPT ![k] = IF k \in broken THEN "returned" ELSE "recv"]
    /\ UNCHANGED <<workers, broken, workerID, ws, connOf, pending, resCh,
                   callVars, requests, replies, missed>>

\* A keepalive renames the connection to the id it carries.
RecvKeepalive(k, w) ==
    /\ sync[k] = "recv"
    /\ workerID' = [workerID EXCEPT ![k] = w]
    /\ UNCHANGED <<workers, broken, sync, ws, connOf, pending, resCh, callVars,
                   requests, replies, missed>>

\* Mutant: the entry stays in the map after its channel was filled.
RecvResponseKeepsEntry(k, r) ==
    /\ sync[k] = "recv"
    /\ r \in replies[k]
    /\ ws[k] # NoStream
    /\ \E e \in pending[ws[k]] :
        /\ e.seq = r.seq
        /\ resCh[e.ch] = NoReply
        /\ resCh' = [resCh EXCEPT ![e.ch] = r]
    /\ UNCHANGED <<connVars, callVars, pending, requests, replies>>

\* Mutant: a send that gives up when the caller is not yet in its select.
RecvResponseNonBlocking(k, r) ==
    /\ sync[k] = "recv"
    /\ r \in replies[k]
    /\ ws[k] # NoStream
    /\ \E e \in pending[ws[k]] :
        /\ e.seq = r.seq
        /\ resCh' = IF pc[e.ch] = "waiting"
                    THEN [resCh EXCEPT ![e.ch] = r] ELSE resCh
        /\ pending' = [pending EXCEPT ![ws[k]] = Without(@, r.seq)]
    /\ UNCHANGED <<connVars, callVars, requests, replies>>

\* A response: under ws.mu, if its number is pending, into the channel of
\* the waiting call and out of the map.  The send blocks on a full channel.
RecvResponse(k, r) ==
    /\ sync[k] = "recv"
    /\ r \in replies[k]
    /\ ws[k] # NoStream
    /\ \E e \in pending[ws[k]] :
        /\ e.seq = r.seq
        /\ resCh[e.ch] = NoReply
        /\ resCh' = [resCh EXCEPT ![e.ch] = r]
        /\ pending' = [pending EXCEPT ![ws[k]] = Without(@, r.seq)]
    /\ UNCHANGED <<connVars, callVars, requests, replies>>

\* A response whose number is not pending in Sync's present WorkerStream is
\* dropped.  The map of a WorkerStream this connection registered before is
\* not looked at, although a call may still wait there.
RecvUnknown(k, r) ==
    /\ sync[k] = "recv"
    /\ r \in replies[k]
    /\ ws[k] # NoStream => \A e \in pending[ws[k]] : e.seq # r.seq
    /\ missed' = IF pc[r.call] \in Open /\ resCh[r.call] = NoReply
                 THEN missed \cup {r.call} ELSE missed
    /\ UNCHANGED <<workers, broken, sync, workerID, ws, connOf, pending, resCh,
                   callVars, requests, replies>>

\* Recv fails or ends.  The entry of workerID is deleted whoever stored it.
RecvError(k) ==
    /\ sync[k] = "recv"
    /\ k \in broken
    /\ workers' = Deleted(workerID[k])
    /\ sync' = [sync EXCEPT ![k] = "returned"]
    /\ UNCHANGED <<broken, workerID, ws, connOf, pending, resCh, callVars,
                   requests, replies, missed>>

-----------------------------------------------------------------------------
(* sendRequest: one goroutine per call.                                     *)

GetWorkerStream(c, w) ==
    /\ pc[c] = "idle"
    /\ target' = [target EXCEPT ![c] = workers[w]]
    /\ pc' = [pc EXCEPT ![c] = IF workers[w] = NoStream THEN "done" ELSE "loaded"]
    /\ UNCHANGED <<connVars, nextID, pending, seqID, resCh, result,
                   requests, replies>>

\* Mutant: the number is read but the counter is not advanced.
NextSeqIDNotStored(c) ==
    /\ pc[c] = "loaded"
    /\ nextID' = nextID
    /\ seqID' = [seqID EXCEPT ![c] = nextID + 1]
    /\ pc' = [pc EXCEPT ![c] = "numbered"]
    /\ UNCHANGED <<connVars, pending, target, resCh, result, requests, replies>>

NextSeqID(c) ==
    /\ pc[c] = "loaded"
    /\ nextID' = nextID + 1
    /\ seqID' = [seqID EXCEPT ![c] = nextID + 1]
    /\ pc' = [pc EXCEPT ![c] = "numbered"]
    /\ UNCHANGED <<connVars, pending, target, resCh, result, requests, replies>>

Enroll(c) ==
    /\ pc[c] = "numbered"
    /\ pending' = [pending EXCEPT ![target[c]] = With(@, seqID[c], c)]
    /\ pc' = [pc EXCEPT ![c] = "enrolled"]
    /\ UNCHANGED <<connVars, nextID, target, seqID, resCh, result,
                   requests, replies>>

\* ws.stream.Send: the request reaches the transport before Send returns, so
\* the worker may answer while the caller is still inside Send; Send fails
\* only on a connection that has ended, with the request out or not.  On a
\* connection that stays open Send may also never return: gRPC's flow control
\* holds it while the worker does not read, and no timer runs yet.
Transmit(c) ==
    /\ pc[c] = "enrolled"
    /\ requests' = [requests EXCEPT ![connOf[target[c]]] =
                      @ \cup {[seq |-> seqID[c], call |-> c]}]
    /\ pc' = [pc EXCEPT ![c] = "sent"]
    /\ UNCHANGED <<connVars, nextID, pending, target, seqID, resCh, result,
                   replies>>

SendOk(c) ==
    /\ pc[c] = "sent"
    /\ pc' = [pc EXCEPT ![c] = "waiting"]
    /\ UNCHANGED <<connVars, nextID, pending, target, seqID, resCh, result,
                   requests, replies>>

SendErr(c) ==
    /\ pc[c] \in {"enrolled", "sent"}
    /\ connOf[target[c]] \in broken
    /\ pc' = [pc EXCEPT ![c] = "sendFailed"]
    /\ UNCHANGED <<connVars, nextID, pending, target, seqID, resCh, result,
                   requests, replies>>

\* The select's first case.
Receive(c) ==
    /\ pc[c] = "waiting"
    /\ resCh[c] # NoReply
    /\ result' = [result EXCEPT ![c] = resCh[c]]
    /\ resCh' = [resCh EXCEPT ![c] = NoReply]
    /\ pc' = [pc EXCEPT ![c] = "done"]
    /\ UNCHANGED <<connVars, nextID, pending, target, seqID, requests, replies>>

\* Mutant: a call on a connection that has ended waits without a timer.
TimeoutOnlyWhileOpen(c) ==
    /\ pc[c] = "waiting"
    /\ connOf[target[c]] \notin broken
    /\ pc' = [pc EXCEPT ![c] = "expired"]
    /\ UNCHANGED <<connVars, nextID, pending, target, seqID, resCh, result,
                   requests, replies>>

\* The select's second case.  It may win against a channel that is ready.
Timeout(c) ==
    /\ pc[c] = "waiting"
    /\ pc' = [pc EXCEPT ![c] = "expired"]
    /\ UNCHANGED <<connVars, nextID, pending, target, seqID, resCh, result,
                   requests, replies>>

\* Mutant: the entry is looked for in the id's present WorkerStream, which a
\* new registration may have replaced.
RetractReloaded(c) ==
    /\ pc[c] \in {"sendFailed", "expired"}
    /\ \E w \in Workers :
        pending' = [s \in Streams |-> IF s = workers[w]
                                     THEN Without(pending[s], seqID[c])
                                     ELSE pending[s]]
    /\ pc' = [pc EXCEPT ![c] = "done"]
    /\ UNCHANGED <<connVars, nextID, target, seqID, resCh, result,
                   requests, replies>>

\* The entry is deleted and the call returns its error.
Retract(c) ==
    /\ pc[c] \in {"sendFailed", "expired"}
    /\ pending' = [pending EXCEPT ![target[c]] = Without(@, seqID[c])]
    /\ pc' = [pc EXCEPT ![c] = "done"]
    /\ UNCHANGED <<connVars, nextID, target, seqID, resCh, result,
                   requests, replies>>

-----------------------------------------------------------------------------
(* External: the network and the worker, which echoes sequence numbers.     *)

Break(k) ==
    /\ k \notin broken
    /\ broken' = broken \cup {k}
    /\ UNCHANGED <<workers, sync, workerID, ws, connOf, pending, resCh,
                   callVars, requests, replies, missed>>

Answer(k) ==
    /\ k \notin broken
    /\ \E r \in requests[k] \ replies[k] :
        replies' = [replies EXCEPT ![k] = @ \cup {r}]
    /\ UNCHANGED <<connVars, pending, resCh, callVars, requests>>

-----------------------------------------------------------------------------
SyncStep(k) ==
    \/ \E w \in Workers : RecvRegister(k, w) \/ RecvKeepalive(k, w)
    \/ \E s \in Streams : StoreStream(k, s)
    \/ SendAck(k)
    \/ \E r \in replies[k] : RecvResponse(k, r) \/ RecvUnknown(k, r)
    \/ RecvError(k)

\* The steps of a call that need nothing of the worker.
OwnStep(c) ==
    \/ NextSeqID(c) \/ Enroll(c) \/ SendErr(c)
    \/ Receive(c) \/ Timeout(c) \/ Retract(c)

CallStep(c) == OwnStep(c) \/ Transmit(c) \/ SendOk(c)

Next ==
    \/ \E k \in Conns : SyncStep(k) \/ Break(k) \/ Answer(k)
    \/ \E c \in Calls : CallStep(c) \/ \E w \in Workers : GetWorkerStream(c, w)

Spec == Init /\ [][Next]_vars

(* The fairness of the code: a goroutine that can take a step takes it, the *)
(* 10 s timer of the select fires and a Send on a connection that has ended *)
(* fails.  That a Send on an open connection returns is up to the worker    *)
(* reading, and is not assumed.                                             *)
FairSpec == Spec /\ \A c \in Calls : WF_vars(OwnStep(c))

-----------------------------------------------------------------------------
(* Safety.                                                                  *)

\* sendRequest returns only the worker's answer to its own request, sent on
\* the connection the request went out on.  It takes two calls, a worker that
\* answers out of order and re-registrations in between to get this wrong.
NoCrossTalk ==
    \A c \in Calls : result[c] # NoReply =>
        /\ result[c].call = c
        /\ result[c] \in replies[connOf[target[c]]]

\* No lost wakeup: from its enrolment until it stops waiting a call is either
\* in the pending map of its WorkerStream or has its answer in its channel,
\* and never both, even if the answer comes before the select is reached; and
\* Sync drops the answer to such a call only when the connection has registered
\* again since the call loaded its WorkerStream.  There it does drop it: Sync
\* looks in its new WorkerStream, and the call waits for its timer.
NoLostWakeup ==
    \A c \in Calls : pc[c] \in Open =>
        /\ resCh[c] = NoReply <=> [seq |-> seqID[c], ch |-> c] \in pending[target[c]]
        /\ c \in missed => ws[connOf[target[c]]] # target[c]

\* No leak: an entry of a pending map belongs to a call that is still running
\* and that will remove it; nothing is left behind by a failed Send, a timeout
\* or a worker that registered again while the call was waiting.
NoLeak ==
    \A s \in Streams : \A e \in pending[s] :
        /\ pc[e.ch] \in {"enrolled", "sent", "waiting", "sendFailed", "expired"}
        /\ target[e.ch] = s
        /\ seqID[e.ch] = e.seq

\* The Sync goroutine sends to the channel while it holds ws.mu.  That send
\* never blocks, whatever the worker repeats: a full channel would stop the
\* connection's receive loop and every call on it.
ReceiveLoopNeverBlocks ==
    \A k \in Conns : \A r \in replies[k] :
        sync[k] = "recv" /\ ws[k] # NoStream =>
            \A e \in pending[ws[k]] : e.seq = r.seq => resCh[e.ch] = NoReply

(* Liveness.                                                                *)

\* Every call returns, with a worker that never answers, a connection that
\* breaks between the enrolment and the Send, or a worker that registers anew;
\* the one exception is a call that stays inside Send for ever, on a connection
\* that does not end: the 10 s timer starts only when Send has returned.
EveryCallReturns ==
    \A c \in Calls :
        \/ (pc[c] # "idle") ~> (pc[c] = "done")
        \/ <>[](pc[c] \in {"enrolled", "sent"} /\ connOf[target[c]] \notin broken)

(* Refinement.                                                              *)

absStatus == [c \in Calls |-> CASE pc[c] = "idle" -> "idle"
                               [] pc[c] = "done" -> "returned"
                               [] OTHER          -> "running"]
absHanded == {c \in Calls : \E k \in Conns : \E r \in requests[k] : r.call = c}
absAnswered == {c \in Calls : \E k \in Conns : \E r \in replies[k] : r.call = c}
absResult == [c \in Calls |-> CASE pc[c] # "done"          -> "none"
                               [] pc[c] = "done" /\ result[c] = NoReply -> "error"
                               [] pc[c] = "done" /\ result[c] # NoReply ->
                                    IF result[c].call = c THEN "answer"
                                                          ELSE "foreign"]

RR == INSTANCE RequestReply
        WITH status <- absStatus, handed <- absHanded,
             answered <- absAnswered, result <- absResult

\* The channel implements what its callers rely on: at most one request per
\* call, handed over while the call runs, one return, and an answer only when
\* a worker has answered that very request.
ImplementsRequestReply == RR!Spec
=============================================================================
