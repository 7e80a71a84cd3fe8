------------------------ MODULE RequestChannelProofs ------------------------
(***************************************************************************)
(* Proofs about RequestChannel for every set of calls, workers,            *)
(* connections and WorkerStreams.                                          *)
(*                                                                         *)
(* NoCrossTalk is not inductive: that the message in a channel answers the *)
(* call that owns the channel rests on the numbers of all calls being      *)
(* different, on every message in transit carrying the number its call     *)
(* drew, and on every entry of a pending map being under the number of the *)
(* call it wakes.  Inv collects these facts.                               *)
(***************************************************************************)
EXTENDS RequestChannel, TLAPS

\* The points at which a call may have an entry in a pending map.
Waiting == {"enrolled", "sent", "waiting", "sendFailed", "expired"}
\* The points a call may be at once its request was transmitted.
Out == {"sent", "waiting", "sendFailed", "expired", "done"}

\* Every number drawn is at most nextID, and no two calls have the same.
Numbers ==
    /\ \A c \in Calls : seqID[c] <= nextID
    /\ \A c \in Calls : pc[c] \in {"idle", "loaded"} => seqID[c] = 0
    /\ \A c \in Calls : pc[c] \in {"numbered"} \cup Waiting => seqID[c] # 0
    /\ \A c, d \in Calls : seqID[c] = seqID[d] /\ seqID[c] # 0 => c = d

\* A WorkerStream that can be reached has its connection, for good.
Allocated ==
    /\ \A w \in Workers : workers[w] # NoStream => connOf[workers[w]] \in Conns
    /\ \A k \in Conns : ws[k] # NoStream => connOf[ws[k]] = k
    /\ \A c \in Calls : pc[c] \notin {"idle", "done"} => target[c] # NoStream
    /\ \A c \in Calls : target[c] # NoStream => connOf[target[c]] \in Conns

\* A message on a connection carries its call's number and went out on the
\* WorkerStream the call had loaded.
Wire ==
    /\ \A k \in Conns : replies[k] \subseteq requests[k]
    /\ \A k \in Conns : \A r \in requests[k] :
        /\ r.seq = seqID[r.call] /\ r.seq # 0
        /\ target[r.call] # NoStream /\ connOf[target[r.call]] = k
        /\ pc[r.call] \in Out

\* A message in a channel is the answer its owner waits for, and the owner
\* has no entry left.
Channels ==
    /\ \A c \in Calls : resCh[c] # NoReply \/ result[c] # NoReply =>
        target[c] # NoStream
    /\ \A c \in Calls : result[c] # NoReply => pc[c] = "done"
    /\ \A c \in Calls : resCh[c] # NoReply =>
        /\ resCh[c].call = c
        /\ resCh[c] \in replies[connOf[target[c]]]
    /\ \A s \in Streams : \A e \in pending[s] : resCh[e.ch] = NoReply

\* Only a call whose request is out can have missed its answer.
Drops == \A c \in missed : pc[c] \in Out

Inv == TypeOK /\ Numbers /\ Allocated /\ Wire /\ Channels /\ Drops
       /\ NoLeak /\ NoLostWakeup /\ NoCrossTalk

-----------------------------------------------------------------------------
(* The initial state, and a fact about calls that have sent nothing.        *)

\* The initial states satisfy the invariant: every table is empty.
LEMMA InitInv == Init => Inv
<1> SUFFICES ASSUME Init PROVE Inv
  OBVIOUS
<1> USE NoValuesAreNew DEF Init
<1>1. TypeOK
  BY DEF TypeOK, Messages, SyncPoints, CallPoints
<1>2. Numbers /\ Allocated /\ Wire /\ Channels /\ Drops
  BY DEF Numbers, Waiting, Allocated, Wire, Out, Channels, Drops
<1>3. NoLeak /\ NoLostWakeup /\ NoCrossTalk
  BY DEF NoLeak, NoLostWakeup, Open, NoCrossTalk
<1> QED
  BY <1>1, <1>2, <1>3 DEF Inv

\* A call that has not transmitted its request has received nothing: what is
\* in a channel or was returned is a reply, and a reply answers a request.
LEMMA EmptyBeforeSend ==
  ASSUME Inv
  PROVE  \A c \in Calls : pc[c] \in {"idle", "loaded", "numbered", "enrolled"} =>
            resCh[c] = NoReply /\ result[c] = NoReply
<1> SUFFICES ASSUME NEW c \in Calls,
                    pc[c] \in {"idle", "loaded", "numbered", "enrolled"}
             PROVE  resCh[c] = NoReply /\ result[c] = NoReply
  OBVIOUS
<1>1. ASSUME NEW r \in Messages, r.call = c,
             target[c] # NoStream, r \in replies[connOf[target[c]]]
      PROVE  FALSE
  BY <1>1 DEF Inv, Allocated, Wire, Out
<1>2. resCh[c] = NoReply
  BY <1>1 DEF Inv, TypeOK, Channels
<1>3. result[c] = NoReply
  BY <1>1 DEF Inv, TypeOK, NoCrossTalk, Channels
<1> QED
  BY <1>2, <1>3

-----------------------------------------------------------------------------
(* Every action preserves Inv.                                              *)

\* An entry of s.workers is dropped.
LEMMA RecvRegisterStep ==
  ASSUME Inv, NEW k \in Conns, NEW w \in Workers,
         RecvRegister(k, w)
  PROVE  Inv'
<1> USE NoValuesAreNew DEF Inv, RecvRegister, connVars, callVars, Deleted
<1>1. TypeOK'
  BY DEF TypeOK, Messages, SyncPoints, CallPoints
<1>2. Allocated'
  BY DEF TypeOK, Allocated
<1>3. Numbers' /\ Drops' /\ Wire' /\ Channels' /\ NoLeak' /\ NoLostWakeup' /\
      NoCrossTalk'
  BY DEF Numbers, Drops, Wire, Channels, NoLeak, NoLostWakeup, NoCrossTalk, Waiting,
         Out
<1> QED
  BY <1>1, <1>2, <1>3

\* The WorkerStream stored is new, so no call has loaded it and no message
\* went out on it.
LEMMA StoreStreamStep ==
  ASSUME Inv, NEW k \in Conns, NEW s \in Streams,
         StoreStream(k, s)
  PROVE  Inv'
<1> USE NoValuesAreNew DEF Inv, StoreStream, connVars, callVars
<1>1. TypeOK'
  BY DEF TypeOK, Messages, SyncPoints, CallPoints
<1>2. Allocated'
  BY DEF TypeOK, Allocated
<1>3. Wire'
  BY DEF TypeOK, Wire, Out
<1>4. Channels'
  BY DEF TypeOK, Channels, Wire, Allocated, Out
<1>5. NoCrossTalk'
  BY DEF TypeOK, NoCrossTalk, Wire, Allocated, Out
<1>6. NoLostWakeup'
  BY DEF TypeOK, Allocated, NoLostWakeup, Open
<1>7. Numbers' /\ Drops' /\ NoLeak'
  BY DEF Numbers, Drops, NoLeak, Waiting
<1> QED
  BY <1>1, <1>2, <1>3, <1>4, <1>5, <1>6, <1>7

\* The acknowledgement moves the Sync goroutine and nothing else.
LEMMA SendAckStep ==
  ASSUME Inv, NEW k \in Conns,
         SendAck(k)
  PROVE  Inv'
<1> USE NoValuesAreNew DEF Inv, SendAck, connVars, callVars
<1>1. TypeOK'
  BY DEF TypeOK, Messages, SyncPoints, CallPoints
<1>2. Numbers' /\ Drops' /\ Allocated' /\ Wire' /\ Channels' /\ NoLeak' /\
      NoLostWakeup' /\ NoCrossTalk'
  BY DEF Numbers, Drops, Allocated, Wire, Channels, NoLeak, NoLostWakeup,
         NoCrossTalk, Waiting, Out
<1> QED
  BY <1>1, <1>2

\* A keepalive changes only the id of the connection.
LEMMA RecvKeepaliveStep ==
  ASSUME Inv, NEW k \in Conns, NEW w \in Workers,
         RecvKeepalive(k, w)
  PROVE  Inv'
<1> USE NoValuesAreNew DEF Inv, RecvKeepalive, connVars, callVars
<1>1. TypeOK'
  BY DEF TypeOK, Messages, SyncPoints, CallPoints
<1>2. Numbers' /\ Drops' /\ Allocated' /\ Wire' /\ Channels' /\ NoLeak' /\
      NoLostWakeup' /\ NoCrossTalk'
  BY DEF Numbers, Drops, Allocated, Wire, Channels, NoLeak, NoLostWakeup,
         NoCrossTalk, Waiting, Out
<1> QED
  BY <1>1, <1>2

\* The entry found under the reply's number is the entry of the call that
\* the reply answers: their numbers agree, and numbers are unique.
LEMMA RecvResponseStep ==
  ASSUME Inv, NEW k \in Conns, NEW r \in replies[k], RecvResponse(k, r)
  PROVE  Inv'
<1> USE NoValuesAreNew DEF Inv, connVars, callVars
<1> DEFINE s == ws[k]
<1>1. PICK e \in pending[s] :
         /\ e.seq = r.seq
         /\ resCh' = [resCh EXCEPT ![e.ch] = r]
         /\ pending' = [pending EXCEPT ![s] = Without(@, r.seq)]
  BY DEF RecvResponse
<1>2. UNCHANGED <<connVars, callVars, requests, replies>> /\ s \in Streams
  BY DEF RecvResponse, TypeOK
<1>3. e.ch = r.call /\ target[e.ch] = s /\ connOf[s] = k
  BY <1>1, <1>2 DEF TypeOK, Messages, Numbers, Allocated, Wire, NoLeak
<1>4. TypeOK'
  BY <1>1, <1>2 DEF TypeOK, Messages, Without
<1>5. Channels'
  BY <1>1, <1>2, <1>3 DEF TypeOK, Messages, Channels, Wire, Numbers, NoLeak,
     Without, Out
<1>6. NoLeak'
  BY <1>1, <1>2 DEF TypeOK, NoLeak, Without
<1>7. NoLostWakeup'
  BY <1>1, <1>2, <1>3 DEF TypeOK, Messages, NoLostWakeup, Open, Numbers,
     NoLeak, Without, Waiting
<1>8. Numbers' /\ Drops' /\ Allocated' /\ Wire' /\ NoCrossTalk'
  BY <1>2 DEF Numbers, Drops, Allocated, Wire, NoCrossTalk, Waiting, Out
<1> QED
  BY <1>4, <1>5, <1>6, <1>7, <1>8

\* A call that waits has its entry in the WorkerStream it loaded.  If that is
\* the one Sync looks in, the reply's number is found there.
LEMMA RecvUnknownStep ==
  ASSUME Inv, NEW k \in Conns, NEW r \in replies[k], RecvUnknown(k, r)
  PROVE  Inv'
<1> USE NoValuesAreNew DEF Inv, RecvUnknown, callVars
<1>1. r \in Messages /\ r.call \in Calls
  BY DEF TypeOK, Messages
<1>2. TypeOK'
  BY <1>1 DEF TypeOK
<1>3. ASSUME pc[r.call] \in Open, resCh[r.call] = NoReply
      PROVE  ws[connOf[target[r.call]]] # target[r.call]
  <2>1. [seq |-> seqID[r.call], ch |-> r.call] \in pending[target[r.call]]
    BY <1>1, <1>3 DEF NoLostWakeup
  <2>2. r.seq = seqID[r.call] /\ connOf[target[r.call]] = k
        /\ target[r.call] # NoStream
    BY DEF Wire
  <2> QED
    BY <2>1, <2>2
<1>4. NoLostWakeup'
  BY <1>1, <1>3 DEF TypeOK, NoLostWakeup, Open
<1>5. Drops'
  BY DEF Drops, Wire
<1>6. Numbers' /\ Allocated' /\ Wire' /\ Channels' /\ NoLeak' /\ NoCrossTalk'
  BY DEF Numbers, Drops, Allocated, Wire, Channels, NoLeak, NoCrossTalk, Waiting, Out
<1> QED
  BY <1>2, <1>4, <1>5, <1>6

\* The end of Recv drops an entry of s.workers; pending maps are untouched.
LEMMA RecvErrorStep ==
  ASSUME Inv, NEW k \in Conns,
         RecvError(k)
  PROVE  Inv'
<1> USE NoValuesAreNew DEF Inv, RecvError, connVars, callVars, Deleted
<1>1. TypeOK'
  BY DEF TypeOK, Messages, SyncPoints, CallPoints
<1>2. Allocated'
  BY DEF TypeOK, Allocated
<1>3. Numbers' /\ Drops' /\ Wire' /\ Channels' /\ NoLeak' /\ NoLostWakeup' /\
      NoCrossTalk'
  BY DEF Numbers, Drops, Wire, Channels, NoLeak, NoLostWakeup, NoCrossTalk, Waiting,
         Out
<1> QED
  BY <1>1, <1>2, <1>3

\* The call is new: it has nothing in its channel and no entry anywhere.
LEMMA GetWorkerStreamStep ==
  ASSUME Inv, NEW c \in Calls, NEW w \in Workers,
         GetWorkerStream(c, w)
  PROVE  Inv'
<1> USE NoValuesAreNew DEF Inv, GetWorkerStream, connVars
<1>1. TypeOK'
  BY DEF TypeOK, Messages, SyncPoints, CallPoints
<1>2. Numbers' /\ Drops'
  BY DEF TypeOK, Numbers, Drops, Waiting, Out
<1>3. Allocated'
  BY DEF TypeOK, Allocated
<1>4. Wire'
  BY DEF TypeOK, Wire, Out
<1>5. Channels'
  BY EmptyBeforeSend DEF TypeOK, Channels
<1>6. NoLeak'
  BY DEF TypeOK, NoLeak
<1>7. NoLostWakeup'
  BY DEF TypeOK, NoLostWakeup, Open
<1>8. NoCrossTalk'
  BY EmptyBeforeSend DEF TypeOK, NoCrossTalk
<1> QED
  BY <1>1, <1>2, <1>3, <1>4, <1>5, <1>6, <1>7, <1>8

\* The number drawn is larger than every number drawn before.
LEMMA NextSeqIDStep ==
  ASSUME Inv, NEW c \in Calls,
         NextSeqID(c)
  PROVE  Inv'
<1> USE NoValuesAreNew DEF Inv, NextSeqID, connVars
<1>1. TypeOK'
  BY DEF TypeOK, Messages, SyncPoints, CallPoints
<1>2. Numbers' /\ Drops'
  BY DEF TypeOK, Numbers, Drops, Waiting, Out
<1>3. Allocated'
  BY DEF TypeOK, Allocated
<1>4. Wire'
  BY DEF TypeOK, Wire, Out
<1>5. Channels'
  BY DEF TypeOK, Channels
<1>6. NoLeak'
  BY DEF TypeOK, NoLeak
<1>7. NoLostWakeup'
  BY DEF TypeOK, NoLostWakeup, Open
<1>8. NoCrossTalk'
  BY DEF NoCrossTalk
<1> QED
  BY <1>1, <1>2, <1>3, <1>4, <1>5, <1>6, <1>7, <1>8

\* No other call has an entry under this number, so none is overwritten.
LEMMA EnrollStep ==
  ASSUME Inv, NEW c \in Calls,
         Enroll(c)
  PROVE  Inv'
<1> USE NoValuesAreNew DEF Inv, Enroll, connVars, With, Without
<1>1. TypeOK'
  BY DEF TypeOK, Allocated, Messages, SyncPoints, CallPoints
<1>2. Numbers' /\ Drops'
  BY DEF TypeOK, Numbers, Drops, Waiting, Out
<1>3. Allocated'
  BY DEF TypeOK, Allocated
<1>4. Wire'
  BY DEF TypeOK, Wire, Out
<1>5. Channels'
  BY EmptyBeforeSend DEF TypeOK, Channels, Numbers, Allocated, NoLeak,
         Waiting
<1>6. NoLeak'
  BY DEF TypeOK, NoLeak
<1>7. NoLostWakeup'
  <2>1. c \notin missed
    BY DEF TypeOK, Drops, Out
  <2> QED
    BY <2>1, EmptyBeforeSend DEF TypeOK, NoLostWakeup, Open, Numbers, Allocated,
       NoLeak, Waiting
<1>8. NoCrossTalk'
  BY DEF NoCrossTalk
<1> QED
  BY <1>1, <1>2, <1>3, <1>4, <1>5, <1>6, <1>7, <1>8

\* The request carries the number the call enrolled under.
LEMMA TransmitStep ==
  ASSUME Inv, NEW c \in Calls,
         Transmit(c)
  PROVE  Inv'
<1> USE NoValuesAreNew DEF Inv, Transmit, connVars
<1>1. TypeOK'
  BY DEF TypeOK, Allocated, Messages, SyncPoints, CallPoints
<1>2. Numbers' /\ Drops'
  BY DEF TypeOK, Numbers, Drops, Waiting, Out
<1>3. Allocated'
  BY DEF TypeOK, Allocated
<1>4. Wire'
  BY DEF TypeOK, Wire, Numbers, Allocated, Out, Waiting
<1>5. Channels'
  BY DEF TypeOK, Channels
<1>6. NoLeak'
  BY DEF TypeOK, NoLeak
<1>7. NoLostWakeup'
  BY DEF TypeOK, NoLostWakeup, Open
<1>8. NoCrossTalk'
  BY DEF NoCrossTalk
<1> QED
  BY <1>1, <1>2, <1>3, <1>4, <1>5, <1>6, <1>7, <1>8

\* A Send that returns leaves the call enrolled and waiting.
LEMMA SendOkStep ==
  ASSUME Inv, NEW c \in Calls,
         SendOk(c)
  PROVE  Inv'
<1> USE NoValuesAreNew DEF Inv, SendOk, connVars
<1>1. TypeOK'
  BY DEF TypeOK, Messages, SyncPoints, CallPoints
<1>2. Numbers' /\ Drops'
  BY DEF TypeOK, Numbers, Drops, Waiting, Out
<1>3. Allocated'
  BY DEF TypeOK, Allocated
<1>4. Wire'
  BY DEF TypeOK, Wire, Out
<1>5. Channels'
  BY DEF TypeOK, Channels
<1>6. NoLeak'
  BY DEF TypeOK, NoLeak
<1>7. NoLostWakeup'
  BY DEF TypeOK, NoLostWakeup, Open
<1>8. NoCrossTalk'
  BY DEF NoCrossTalk
<1> QED
  BY <1>1, <1>2, <1>3, <1>4, <1>5, <1>6, <1>7, <1>8

\* A Send that fails leaves the entry for Retract to remove.
LEMMA SendErrStep ==
  ASSUME Inv, NEW c \in Calls,
         SendErr(c)
  PROVE  Inv'
<1> USE NoValuesAreNew DEF Inv, SendErr, connVars
<1>1. TypeOK'
  BY DEF TypeOK, Messages, SyncPoints, CallPoints
<1>2. Numbers' /\ Drops'
  BY DEF TypeOK, Numbers, Drops, Waiting, Out
<1>3. Allocated'
  BY DEF TypeOK, Allocated
<1>4. Wire'
  BY DEF TypeOK, Wire, Out
<1>5. Channels'
  BY DEF TypeOK, Channels
<1>6. NoLeak'
  BY DEF TypeOK, NoLeak
<1>7. NoLostWakeup'
  BY DEF TypeOK, NoLostWakeup, Open
<1>8. NoCrossTalk'
  BY DEF NoCrossTalk
<1> QED
  BY <1>1, <1>2, <1>3, <1>4, <1>5, <1>6, <1>7, <1>8

\* What the call takes from its channel answers its own request.
LEMMA ReceiveStep ==
  ASSUME Inv, NEW c \in Calls,
         Receive(c)
  PROVE  Inv'
<1> USE NoValuesAreNew DEF Inv, Receive, connVars
<1>1. TypeOK'
  BY DEF TypeOK, Messages, SyncPoints, CallPoints
<1>2. Numbers' /\ Drops'
  BY DEF TypeOK, Numbers, Drops, Waiting, Out
<1>3. Allocated'
  BY DEF TypeOK, Allocated
<1>4. Wire'
  BY DEF TypeOK, Wire, Out
<1>5. Channels'
  BY DEF TypeOK, Channels
<1>6. NoLeak'
  BY DEF TypeOK, NoLeak, Channels
<1>7. NoLostWakeup'
  BY DEF TypeOK, NoLostWakeup, Open
<1>8. NoCrossTalk'
  BY DEF TypeOK, NoCrossTalk, Channels
<1> QED
  BY <1>1, <1>2, <1>3, <1>4, <1>5, <1>6, <1>7, <1>8

\* A timer that fires leaves the entry for Retract to remove.
LEMMA TimeoutStep ==
  ASSUME Inv, NEW c \in Calls,
         Timeout(c)
  PROVE  Inv'
<1> USE NoValuesAreNew DEF Inv, Timeout, connVars
<1>1. TypeOK'
  BY DEF TypeOK, Messages, SyncPoints, CallPoints
<1>2. Numbers' /\ Drops'
  BY DEF TypeOK, Numbers, Drops, Waiting, Out
<1>3. Allocated'
  BY DEF TypeOK, Allocated
<1>4. Wire'
  BY DEF TypeOK, Wire, Out
<1>5. Channels'
  BY DEF TypeOK, Channels
<1>6. NoLeak'
  BY DEF TypeOK, NoLeak
<1>7. NoLostWakeup'
  BY DEF TypeOK, NoLostWakeup, Open
<1>8. NoCrossTalk'
  BY DEF NoCrossTalk
<1> QED
  BY <1>1, <1>2, <1>3, <1>4, <1>5, <1>6, <1>7, <1>8

\* Only the call's own entry is under its number.
LEMMA RetractStep ==
  ASSUME Inv, NEW c \in Calls,
         Retract(c)
  PROVE  Inv'
<1> USE NoValuesAreNew DEF Inv, Retract, connVars, Without
<1>1. TypeOK'
  BY DEF TypeOK, Messages, SyncPoints, CallPoints
<1>2. Numbers' /\ Drops'
  BY DEF TypeOK, Numbers, Drops, Waiting, Out
<1>3. Allocated'
  BY DEF TypeOK, Allocated
<1>4. Wire'
  BY DEF TypeOK, Wire, Out
<1>5. Channels'
  BY DEF TypeOK, Channels
<1>6. NoLeak'
  BY DEF TypeOK, NoLeak
<1>7. NoLostWakeup'
  BY DEF TypeOK, NoLostWakeup, Open, Numbers, Waiting
<1>8. NoCrossTalk'
  BY DEF NoCrossTalk
<1> QED
  BY <1>1, <1>2, <1>3, <1>4, <1>5, <1>6, <1>7, <1>8

\* A connection that ends changes nothing the invariant speaks of.
LEMMA BreakStep ==
  ASSUME Inv, NEW k \in Conns,
         Break(k)
  PROVE  Inv'
<1> USE NoValuesAreNew DEF Inv, Break, connVars, callVars
<1>1. TypeOK'
  BY DEF TypeOK, Messages, SyncPoints, CallPoints
<1>2. Numbers' /\ Drops' /\ Allocated' /\ Wire' /\ Channels' /\ NoLeak' /\
      NoLostWakeup' /\ NoCrossTalk'
  BY DEF Numbers, Drops, Allocated, Wire, Channels, NoLeak, NoLostWakeup,
         NoCrossTalk, Waiting, Out
<1> QED
  BY <1>1, <1>2

\* The worker echoes a request it was sent.
LEMMA AnswerStep ==
  ASSUME Inv, NEW k \in Conns,
         Answer(k)
  PROVE  Inv'
<1> USE NoValuesAreNew DEF Inv, Answer, connVars, callVars
<1>1. TypeOK'
  BY DEF TypeOK, Messages, SyncPoints, CallPoints
<1>2. Wire'
  BY DEF TypeOK, Wire, Out
<1>3. Channels'
  BY DEF TypeOK, Channels
<1>4. NoCrossTalk'
  BY DEF TypeOK, NoCrossTalk
<1>5. Numbers' /\ Drops' /\ Allocated' /\ NoLeak' /\ NoLostWakeup'
  BY DEF Numbers, Drops, Allocated, NoLeak, NoLostWakeup, Waiting
<1> QED
  BY <1>1, <1>2, <1>3, <1>4, <1>5

-----------------------------------------------------------------------------
(* The invariant and what follows from it.                                  *)

\* Every step of Sync, of sendRequest, of the network and of the worker
\* preserves the invariant.
LEMMA NextInv == Inv /\ [Next]_vars => Inv'
<1> SUFFICES ASSUME Inv, [Next]_vars PROVE Inv'
  OBVIOUS
<1>1. ASSUME NEW k \in Conns, SyncStep(k) PROVE Inv'
  BY <1>1, RecvRegisterStep, RecvKeepaliveStep, StoreStreamStep, SendAckStep,
     RecvResponseStep, RecvUnknownStep, RecvErrorStep DEF SyncStep
<1>2. ASSUME NEW k \in Conns, Break(k) \/ Answer(k) PROVE Inv'
  BY <1>2, BreakStep, AnswerStep
<1>3. ASSUME NEW c \in Calls, CallStep(c) PROVE Inv'
  BY <1>3, NextSeqIDStep, EnrollStep, TransmitStep, SendOkStep, SendErrStep,
     ReceiveStep, TimeoutStep, RetractStep DEF CallStep, OwnStep
<1>4. ASSUME NEW c \in Calls, NEW w \in Workers, GetWorkerStream(c, w)
      PROVE  Inv'
  BY <1>4, GetWorkerStreamStep
<1>5. CASE UNCHANGED vars
  BY <1>5 DEF vars, Inv, TypeOK, Numbers, Allocated, Wire, Channels, Drops,
     NoLeak, NoLostWakeup, NoCrossTalk
<1> QED
  BY <1>1, <1>2, <1>3, <1>4, <1>5 DEF Next

\* Inv holds throughout, for any number of calls, workers, connections and
\* registrations.
THEOREM Invariance == Spec => []Inv
<1> QED
  BY InitInv, NextInv, PTL DEF Spec

\* The state of Sync and sendRequest keeps its types.
THEOREM TypeCorrect == Spec => []TypeOK
<1>1. Inv => TypeOK
  BY DEF Inv
<1> QED
  BY <1>1, Invariance, PTL

\* sendRequest never returns the answer to another request.
THEOREM AnswersAreOwn == Spec => []NoCrossTalk
<1>1. Inv => NoCrossTalk
  BY DEF Inv
<1> QED
  BY <1>1, Invariance, PTL

\* A call that waits is in its pending map or has its answer; Sync drops the
\* answer to it only after the connection has registered again.
THEOREM WakeupsAreNotLost == Spec => []NoLostWakeup
<1>1. Inv => NoLostWakeup
  BY DEF Inv
<1> QED
  BY <1>1, Invariance, PTL

\* A call that has returned leaves nothing in any pending map.
THEOREM PendingDoesNotLeak == Spec => []NoLeak
<1>1. Inv => NoLeak
  BY DEF Inv
<1> QED
  BY <1>1, Invariance, PTL

\* The channel Sync sends to while it holds ws.mu has room.
THEOREM ReceiveLoopIsFree == Spec => []ReceiveLoopNeverBlocks
<1>1. Inv => ReceiveLoopNeverBlocks
  BY NoValuesAreNew DEF Inv, TypeOK, Channels, ReceiveLoopNeverBlocks
<1> QED
  BY <1>1, Invariance, PTL

-----------------------------------------------------------------------------
(* The refinement of RequestReply.                                          *)

\* The initial state of the channel is the initial state of the promise.
LEMMA InitRefines == Init => RR!Init
  BY DEF Init, RR!Init, absStatus, absHanded, absAnswered, absResult

\* A step that changes no call's point, no result and no message in transit
\* is a stutter of the promise.
LEMMA HiddenStep ==
  ASSUME UNCHANGED <<pc, result, requests, replies>>
  PROVE  UNCHANGED RR!vars
  BY DEF RR!vars, absStatus, absHanded, absAnswered, absResult

\* A call that moves between two of its running points is a stutter too.
LEMMA RunningStep ==
  ASSUME Inv, NEW c \in Calls, NEW p \in CallPoints \ {"idle", "done"},
         pc[c] \notin {"idle", "done"}, pc' = [pc EXCEPT ![c] = p],
         UNCHANGED <<result, requests, replies>>
  PROVE  UNCHANGED RR!vars
<1> USE DEF Inv, TypeOK, CallPoints
<1>1. absStatus' = absStatus
  BY DEF absStatus
<1>2. absResult' = absResult
  BY DEF absResult
<1>3. absHanded' = absHanded /\ absAnswered' = absAnswered
  BY DEF absHanded, absAnswered
<1> QED
  BY <1>1, <1>2, <1>3 DEF RR!vars

\* An unknown worker ends the call with an error, a known one begins it.
LEMMA GetWorkerStreamRefines ==
  ASSUME Inv, NEW c \in Calls, NEW w \in Workers, GetWorkerStream(c, w)
  PROVE  RR!Begin(c) \/ RR!ReturnError(c)
<1> USE DEF Inv, TypeOK, CallPoints, GetWorkerStream
<1>1. absHanded' = absHanded /\ absAnswered' = absAnswered
  BY DEF absHanded, absAnswered
<1>2. result[c] = NoReply
  BY EmptyBeforeSend
<1>3. CASE workers[w] = NoStream
  <2>1. absStatus' = [absStatus EXCEPT ![c] = "returned"]
    BY <1>3 DEF absStatus
  <2>2. absResult' = [absResult EXCEPT ![c] = "error"]
    BY <1>2, <1>3 DEF absResult
  <2> QED
    BY <1>1, <2>1, <2>2 DEF RR!ReturnError, absStatus
<1>4. CASE workers[w] # NoStream
  <2>1. absStatus' = [absStatus EXCEPT ![c] = "running"]
    BY <1>4 DEF absStatus
  <2>2. absResult' = absResult
    BY <1>4 DEF absResult
  <2> QED
    BY <1>1, <2>1, <2>2 DEF RR!Begin, absStatus
<1> QED
  BY <1>3, <1>4

\* Transmitting is handing over, and happens once.
LEMMA TransmitRefines ==
  ASSUME Inv, NEW c \in Calls, Transmit(c)
  PROVE  RR!HandOver(c)
<1> USE DEF Inv, TypeOK, CallPoints, Transmit
<1>1. absStatus' = absStatus /\ absResult' = absResult
  BY DEF absStatus, absResult
<1>2. absAnswered' = absAnswered
  BY DEF absAnswered
<1>3. c \notin absHanded
  BY DEF absHanded, Wire, Out
<1>4. absHanded' = absHanded \cup {c}
  <2> DEFINE k == connOf[target[c]]
             m == [seq |-> seqID[c], call |-> c]
  <2>1. k \in Conns
    BY DEF Allocated
  <2>2. requests' = [requests EXCEPT ![k] = @ \cup {m}]
    OBVIOUS
  <2>3. \A d \in Calls : d \in absHanded' <=> d \in absHanded \/ d = m.call
    <3> HIDE DEF m, k
    <3> QED
      BY <2>1, <2>2 DEF absHanded
  <2> QED
    BY <2>3 DEF absHanded
<1> QED
  BY <1>1, <1>2, <1>3, <1>4 DEF RR!HandOver, absStatus

\* What a call takes from its channel is an answer to it.
LEMMA ReceiveRefines ==
  ASSUME Inv, NEW c \in Calls, Receive(c)
  PROVE  RR!ReturnAnswer(c)
<1> USE DEF Inv, TypeOK, CallPoints, Receive, connVars
<1>1. absStatus' = [absStatus EXCEPT ![c] = "returned"]
  BY DEF absStatus
<1>2. resCh[c].call = c /\ resCh[c] \in replies[connOf[target[c]]]
  BY DEF Channels
<1>3. absResult' = [absResult EXCEPT ![c] = "answer"]
  BY <1>2 DEF absResult
<1>4. absHanded' = absHanded /\ absAnswered' = absAnswered
  BY DEF absHanded, absAnswered
<1>5. c \in absAnswered
  BY <1>2 DEF absAnswered, Allocated
<1> QED
  BY <1>1, <1>3, <1>4, <1>5 DEF RR!ReturnAnswer, absStatus

\* A call that retracts its entry has returned nothing before.
LEMMA RetractRefines ==
  ASSUME Inv, NEW c \in Calls, Retract(c)
  PROVE  RR!ReturnError(c)
<1> USE DEF Inv, TypeOK, CallPoints, Retract
<1>1. absStatus' = [absStatus EXCEPT ![c] = "returned"]
  BY DEF absStatus
<1>2. absResult' = [absResult EXCEPT ![c] = "error"]
  BY DEF absResult, Channels
<1>3. absHanded' = absHanded /\ absAnswered' = absAnswered
  BY DEF absHanded, absAnswered
<1> QED
  BY <1>1, <1>2, <1>3 DEF RR!ReturnError, absStatus

\* A worker answers a request it was handed.
LEMMA AnswerRefines ==
  ASSUME Inv, NEW k \in Conns, Answer(k)
  PROVE  \E c \in Calls : RR!Answer(c)
<1> USE DEF Inv, TypeOK, Messages, Answer, callVars
<1>1. PICK r \in requests[k] \ replies[k] :
         replies' = [replies EXCEPT ![k] = @ \cup {r}]
  OBVIOUS
<1>2. r.call \in Calls /\ r.call \in absHanded
  BY DEF absHanded
<1>3. absAnswered' = absAnswered \cup {r.call}
  BY <1>1 DEF absAnswered
<1>4. absStatus' = absStatus /\ absResult' = absResult /\ absHanded' = absHanded
  BY DEF absStatus, absResult, absHanded
<1> QED
  BY <1>2, <1>3, <1>4 DEF RR!Answer

\* Every step of the channel is a step of RequestReply or a stutter.
LEMMA NextRefines == Inv /\ [Next]_vars => [RR!Next]_RR!vars
<1> SUFFICES ASSUME Inv, [Next]_vars PROVE RR!Next \/ UNCHANGED RR!vars
  OBVIOUS
<1>1. ASSUME NEW k \in Conns, SyncStep(k) \/ Break(k) PROVE UNCHANGED RR!vars
  BY <1>1, HiddenStep DEF SyncStep, RecvRegister, RecvKeepalive, StoreStream,
     SendAck, RecvResponse, RecvUnknown, RecvError, Break, callVars
<1>2. ASSUME NEW k \in Conns, Answer(k) PROVE RR!Next
  BY <1>2, AnswerRefines DEF RR!Next
<1>3. ASSUME NEW c \in Calls, CallStep(c) PROVE RR!Next \/ UNCHANGED RR!vars
  <2>1. CASE NextSeqID(c) \/ Enroll(c) \/ SendOk(c) \/ SendErr(c) \/ Timeout(c)
    BY <2>1, RunningStep DEF NextSeqID, Enroll, SendOk, SendErr, Timeout,
       CallPoints
  <2>2. CASE Transmit(c)
    BY <2>2, TransmitRefines DEF RR!Next
  <2>3. CASE Receive(c)
    BY <2>3, ReceiveRefines DEF RR!Next
  <2>4. CASE Retract(c)
    BY <2>4, RetractRefines DEF RR!Next
  <2> QED
    BY <1>3, <2>1, <2>2, <2>3, <2>4 DEF CallStep, OwnStep
<1>4. ASSUME NEW c \in Calls, NEW w \in Workers, GetWorkerStream(c, w)
      PROVE  RR!Next
  BY <1>4, GetWorkerStreamRefines DEF RR!Next
<1>5. CASE UNCHANGED vars
  BY <1>5, HiddenStep DEF vars
<1> QED
  BY <1>1, <1>2, <1>3, <1>4, <1>5 DEF Next

\* Sync and sendRequest together implement RequestReply.
THEOREM Refinement == Spec => ImplementsRequestReply
<1> QED
  BY InitRefines, NextRefines, Invariance, PTL
     DEF Spec, RR!Spec, ImplementsRequestReply
=============================================================================
