-------------------------- MODULE RetryQueueProofs --------------------------
(***************************************************************************)
(* Proofs about RetryQueue for every set of calls and of services.         *)
(*                                                                         *)
(* That no request is lost and none is sent again after its success is not *)
(* inductive: a push is harmless only because the caller that pushes has   *)
(* nothing in the queue yet, and a pop only because what it takes is in    *)
(* the queue once.  Inv says which requests get into the queue, and that   *)
(* a request is with its caller, in the queue or with DealTimeoutReq and   *)
(* never with two of them.                                                 *)
(***************************************************************************)
EXTENDS RetryQueue, TLAPS

\* A request that a caller has handed over to DealTimeoutReq: it can be sent,
\* and was not acknowledged.
HandedOver(c) ==
    /\ pc[c] = "done" /\ c \notin acked
    /\ req[c].encodable /\ req[c].url # Malformed

\* A caller keeps its own request in hand, and has something left to do with it
\* only until it is acknowledged.
Callers ==
    /\ \A c \in Calls : hand[c] = c
    /\ \A c \in Calls : InHand(c) =>
        c \notin acked /\ req[c].encodable /\ req[c].url # Malformed
    /\ \A c \in acked : pc[c] = "done"

\* What is in the queue was handed over, and is there once.
Queued ==
    /\ \A i \in DOMAIN queue : HandedOver(queue[i])
    /\ \A i, j \in DOMAIN queue : queue[i] = queue[j] => i = j

\* What DealTimeoutReq sends again was handed over and has left the queue.
Resending ==
    InHand(Loop) =>
        /\ hand[Loop] \in Calls /\ HandedOver(hand[Loop])
        /\ req[hand[Loop]].url # Empty
        /\ \A i \in DOMAIN queue : queue[i] # hand[Loop]

\* A request whose answer is awaited was received.
Answered == \A s \in Senders : pc[s] = "reply" => hand[s] \in served

\* A request that can be sent is with its caller, acknowledged, queued, or with
\* DealTimeoutReq.
Kept ==
    \A c \in Calls : Deliverable(c) =>
        \/ InHand(c) \/ c \in acked
        \/ \E i \in DOMAIN queue : queue[i] = c
        \/ InHand(Loop) /\ hand[Loop] = c

Inv == TypeOK /\ Callers /\ Queued /\ Resending /\ Answered /\ Kept
       /\ SuccessMeansServed /\ LoopNeverPanics

-----------------------------------------------------------------------------
(* The queue                                                                *)

\* What a push does to the places of the queue.
LEMMA AppendPlaces ==
  ASSUME NEW q \in Seq(Calls), NEW c \in Calls
  PROVE  /\ Append(q, c) \in Seq(Calls)
         /\ DOMAIN Append(q, c) = DOMAIN q \cup {Len(q) + 1}
         /\ Len(q) + 1 \notin DOMAIN q
         /\ \A i \in DOMAIN q : Append(q, c)[i] = q[i]
         /\ Append(q, c)[Len(q) + 1] = c
  OBVIOUS

\* What a pop does to the places of the queue.
LEMMA TailPlaces ==
  ASSUME NEW q \in Seq(Calls), q # <<>>
  PROVE  /\ Head(q) \in Calls /\ Tail(q) \in Seq(Calls)
         /\ 1 \in DOMAIN q /\ Head(q) = q[1]
         /\ \A i \in DOMAIN Tail(q) :
              i + 1 \in DOMAIN q /\ i + 1 # 1 /\ Tail(q)[i] = q[i + 1]
         /\ \A i \in DOMAIN q : i # 1 =>
              i - 1 \in DOMAIN Tail(q) /\ Tail(q)[i - 1] = q[i]
         /\ \A i, j \in DOMAIN Tail(q) : i + 1 = j + 1 => i = j
  OBVIOUS

-----------------------------------------------------------------------------
(* Every action preserves Inv.                                              *)

\* The initial state: nothing is in the queue and no call was made.
LEMMA InitInv == Init => Inv
<1> SUFFICES ASSUME Init PROVE Inv
  OBVIOUS
<1> USE RetryQueueAssumption DEF Init, Senders, InHand, At
<1>1. TypeOK
  BY DEF TypeOK, Points
<1>2. Callers /\ Resending /\ Answered
  BY DEF Callers, Resending, Answered
<1>3. Queued
  BY DEF Queued
<1>4. Kept /\ SuccessMeansServed /\ LoopNeverPanics
  BY DEF Kept, Deliverable, SuccessMeansServed, LoopNeverPanics
<1> QED
  BY <1>1, <1>2, <1>3, <1>4 DEF Inv

\* A new call's request is nowhere before.
LEMMA ExecuteRequestStep ==
  ASSUME Inv, NEW c \in Calls, NEW r \in Request, ExecuteRequest(c, r)
  PROVE  Inv'
<1> USE RetryQueueAssumption
    DEF Inv, ExecuteRequest, SendPost, Sent, Goto, Rest, At, Senders, InHand
<1>1. TypeOK'
  BY DEF TypeOK, Points, Callers
<1>2. c \notin acked /\ (\A i \in DOMAIN queue : queue[i] # c) /\ hand[c] = c
  BY DEF Callers, Queued, HandedOver, TypeOK
<1>3. \A d \in Calls \cup {Loop} : d # c => pc'[d] = pc[d]
  BY DEF TypeOK
<1>4. \A d \in Calls : d # c => req'[d] = req[d] /\ (d \in acked' <=> d \in acked)
  BY <1>2 DEF TypeOK
<1>5. req'[c] = r /\ pc'[c] \in {"done", "panic", "do"}
  BY DEF TypeOK
<1>6. Callers'
  BY <1>2, <1>3, <1>4, <1>5 DEF Callers, TypeOK
<1>7. Queued'
  BY <1>2, <1>3, <1>4 DEF Queued, HandedOver, TypeOK
<1>8. Resending'
  BY <1>2, <1>3, <1>4 DEF Resending, HandedOver, TypeOK
<1>9. Answered'
  BY <1>3, <1>5 DEF Answered
<1>10. Kept'
  BY <1>2, <1>3, <1>4, <1>5 DEF Kept, Deliverable, TypeOK, Request
<1>11. SuccessMeansServed' /\ LoopNeverPanics'
  BY <1>2, <1>3, <1>4, <1>5 DEF SuccessMeansServed, Deliverable, LoopNeverPanics,
     TypeOK
<1> QED
  BY <1>1, <1>6, <1>7, <1>8, <1>9, <1>10, <1>11

\* A service receives a request: its sender awaits the answer.
LEMMA ReceiveStep ==
  ASSUME Inv, NEW s \in Senders, Receive(s)
  PROVE  Inv'
<1> USE RetryQueueAssumption
    DEF Inv, Receive, Goto, At, Senders, InHand
<1>1. TypeOK' /\ Callers' /\ Queued'
  BY DEF TypeOK, Points, Callers, Resending, Queued, HandedOver
<1>2. Resending' /\ Answered' /\ Kept'
  BY DEF TypeOK, Resending, HandedOver, Answered, Kept, Deliverable
<1>3. SuccessMeansServed' /\ LoopNeverPanics'
  BY DEF TypeOK, SuccessMeansServed, LoopNeverPanics, Deliverable, Callers
<1> QED
  BY <1>1, <1>2, <1>3

\* A request in hand is its holder's alone: who fails keeps it.
LEMMA FailStep ==
  ASSUME Inv, NEW s \in Senders, Fail(s) \/ FailUnsent(s)
  PROVE  Inv'
<1> USE RetryQueueAssumption
    DEF Inv, Fail, FailUnsent, Goto, At, Senders, InHand, aux
<1>1. TypeOK' /\ Callers' /\ Queued'
  BY DEF TypeOK, Points, Callers, Queued, HandedOver
<1>2. Resending' /\ Answered' /\ Kept'
  BY DEF TypeOK, Resending, HandedOver, Answered, Kept, Deliverable
<1>3. SuccessMeansServed' /\ LoopNeverPanics'
  BY DEF TypeOK, SuccessMeansServed, LoopNeverPanics, Deliverable, Callers
<1> QED
  BY <1>1, <1>2, <1>3

\* An acknowledged request is off the hands of the one sender that had it.
LEMMA ReplyStep ==
  ASSUME Inv, NEW s \in Senders, Reply(s)
  PROVE  Inv'
<1> USE RetryQueueAssumption
    DEF Inv, Reply, Sent, Rest, Goto, At, Senders, InHand
<1>1. hand[s] \in Calls /\ hand[s] \in served /\ hand[s] \notin acked
  BY DEF TypeOK, Callers, Resending, HandedOver, Answered
<1>2. \A i \in DOMAIN queue : queue[i] # hand[s]
  BY DEF Queued, Resending, Callers, HandedOver
<1>3. TypeOK' /\ Answered' /\ LoopNeverPanics'
  BY <1>1 DEF TypeOK, Points, Answered, LoopNeverPanics
<1>4. Callers'
  BY <1>1 DEF TypeOK, Callers, Resending, HandedOver
<1>5. Queued'
  BY <1>2 DEF TypeOK, Queued, HandedOver
<1>6. Resending'
  BY <1>1 DEF TypeOK, Resending, HandedOver, Callers
<1>7. Kept'
  BY <1>1 DEF TypeOK, Kept, Deliverable, Callers
<1>8. SuccessMeansServed'
  BY <1>1 DEF TypeOK, SuccessMeansServed, Deliverable, Callers
<1> QED
  BY <1>3, <1>4, <1>5, <1>6, <1>7, <1>8

\* What is pushed was in its sender's hand and is not in the queue yet.
LEMMA PushRequestStep ==
  ASSUME Inv, NEW s \in Senders, PushRequest(s)
  PROVE  Inv'
<1> USE RetryQueueAssumption
    DEF Inv, PushRequest, Rest, Goto, At, Senders, InHand, aux
<1>1. hand[s] \in Calls /\ hand[s] \notin acked
      /\ req[hand[s]].encodable /\ req[hand[s]].url # Malformed
  BY DEF TypeOK, Callers, Resending, HandedOver
<1>2. \A i \in DOMAIN queue : queue[i] # hand[s]
  BY DEF Queued, Resending, Callers, HandedOver
<1>3. queue \in Seq(Calls)
  BY DEF TypeOK
<1>4. /\ queue' \in Seq(Calls)
      /\ DOMAIN queue' = DOMAIN queue \cup {Len(queue) + 1}
      /\ Len(queue) + 1 \notin DOMAIN queue
      /\ \A i \in DOMAIN queue : queue'[i] = queue[i]
      /\ queue'[Len(queue) + 1] = hand[s]
  BY <1>1, <1>3, AppendPlaces
<1>5. pc'[hand[s]] = "done"
  BY DEF TypeOK, Callers, Resending, HandedOver
<1>6. TypeOK' /\ Answered' /\ LoopNeverPanics'
  BY <1>4 DEF TypeOK, Points, Answered, LoopNeverPanics
<1>7. Callers'
  BY DEF TypeOK, Callers
<1>8. Queued'
  BY <1>1, <1>2, <1>4, <1>5 DEF TypeOK, Queued, HandedOver
<1>9. Resending'
  BY <1>1, <1>4 DEF TypeOK, Resending, HandedOver, Callers
<1>10. Kept'
  BY <1>4 DEF TypeOK, Kept, Deliverable, Callers
<1>11. SuccessMeansServed'
  BY DEF TypeOK, SuccessMeansServed, Deliverable, Callers
<1> QED
  BY <1>6, <1>7, <1>8, <1>9, <1>10, <1>11

\* What is popped was in the queue once; what is dropped has an empty url.
LEMMA PopRequestStep ==
  ASSUME Inv, PopRequest
  PROVE  Inv'
<1> USE RetryQueueAssumption
    DEF Inv, PopRequest, Goto, At, Senders, InHand, aux
<1>1. \A c \in Calls : pc'[c] = pc[c] /\ hand'[c] = hand[c]
  BY DEF TypeOK
<1>2. Callers' /\ Answered' /\ LoopNeverPanics' /\ SuccessMeansServed'
  BY <1>1 DEF TypeOK, Callers, Answered, LoopNeverPanics, SuccessMeansServed,
     Deliverable
<1>3. CASE queue = <<>>
  BY <1>1, <1>2, <1>3 DEF TypeOK, Points, Queued, HandedOver, Resending, Kept,
     Deliverable
<1>4. CASE queue # <<>>
  <2>1. queue \in Seq(Calls)
    BY DEF TypeOK
  <2>2. /\ Head(queue) \in Calls /\ queue' \in Seq(Calls)
        /\ 1 \in DOMAIN queue /\ Head(queue) = queue[1]
        /\ \A i \in DOMAIN queue' :
             i + 1 \in DOMAIN queue /\ i + 1 # 1 /\ queue'[i] = queue[i + 1]
        /\ \A i \in DOMAIN queue : i # 1 =>
             i - 1 \in DOMAIN queue' /\ queue'[i - 1] = queue[i]
        /\ \A i, j \in DOMAIN queue' : i + 1 = j + 1 => i = j
    <3>1. queue' = Tail(queue)
      BY <1>4 DEF Remaining
    <3> HIDE DEF PopRequest
    <3> QED
      BY <1>4, <2>1, <3>1, TailPlaces
  <2>3. hand'[Loop] = queue[1] /\ HandedOver(queue[1])
        /\ \A i \in DOMAIN queue' : queue'[i] # queue[1]
    BY <1>4, <2>2 DEF TypeOK, Queued
  <2>4. TypeOK'
    BY <1>4, <2>2 DEF TypeOK, Points
  <2>5. Queued'
    BY <1>1, <2>2 DEF Queued, HandedOver, TypeOK
  <2>6. Resending'
    BY <1>1, <1>4, <2>2, <2>3 DEF Resending, HandedOver, TypeOK
  <2>7. Kept'
    <3> SUFFICES ASSUME NEW c \in Calls, Deliverable(c)', ~InHand(c), c \notin acked
                 PROVE  \/ \E i \in DOMAIN queue' : queue'[i] = c
                        \/ InHand(Loop)' /\ hand'[Loop] = c
      BY <1>1 DEF Kept
    <3>1. Deliverable(c)
      BY <1>1 DEF Deliverable
    <3>2. ~InHand(Loop)
      OBVIOUS
    <3>3. PICK i \in DOMAIN queue : queue[i] = c
      BY <3>1, <3>2 DEF Kept
    <3>4. CASE i = 1
      BY <1>4, <2>2, <2>3, <3>1, <3>3, <3>4 DEF Deliverable, TypeOK
    <3>5. CASE i # 1
      BY <2>2, <3>3, <3>5
    <3> QED
      BY <3>4, <3>5
  <2> QED
    BY <1>2, <2>4, <2>5, <2>6, <2>7
<1> QED
  BY <1>3, <1>4

\* DealTimeoutReq sends what can be sent: neither the panic nor the success of
\* data that cannot be marshalled happens to it.
LEMMA ResendStep ==
  ASSUME Inv, Resend
  PROVE  Inv'
<1> USE RetryQueueAssumption
    DEF Inv, Resend, Goto, At, Senders, InHand
<1>1. pc' = [pc EXCEPT ![Loop] = "do"] /\ UNCHANGED acked
  BY DEF SendPost, Resending, HandedOver
<1>2. TypeOK' /\ Callers' /\ Queued'
  BY <1>1 DEF TypeOK, Points, Callers, Queued, HandedOver
<1>3. Resending' /\ Answered' /\ Kept'
  BY <1>1 DEF TypeOK, Resending, HandedOver, Answered, Kept, Deliverable
<1>4. SuccessMeansServed' /\ LoopNeverPanics'
  BY <1>1 DEF TypeOK, SuccessMeansServed, LoopNeverPanics, Deliverable
<1> QED
  BY <1>2, <1>3, <1>4

\* DealTimeoutReq has nothing in hand when it wakes.
LEMMA WakeStep ==
  ASSUME Inv, Wake
  PROVE  Inv'
<1> USE RetryQueueAssumption
    DEF Inv, Wake, Goto, At, Senders, InHand, aux
<1>1. TypeOK' /\ Callers' /\ Queued'
  BY DEF TypeOK, Points, Callers, Queued, HandedOver
<1>2. Resending' /\ Answered' /\ Kept'
  BY DEF TypeOK, Resending, HandedOver, Answered, Kept, Deliverable
<1>3. SuccessMeansServed' /\ LoopNeverPanics'
  BY DEF TypeOK, SuccessMeansServed, LoopNeverPanics, Deliverable
<1> QED
  BY <1>1, <1>2, <1>3

-----------------------------------------------------------------------------
(* The theorems                                                             *)

\* Inv holds in every reachable state.
THEOREM Invariance == Spec => []Inv
<1>1. Inv /\ [Next]_vars => Inv'
  <2> SUFFICES ASSUME Inv, [Next]_vars PROVE Inv'
    OBVIOUS
  <2>1. CASE UNCHANGED vars
    BY <2>1 DEF vars, aux, Inv, TypeOK, Callers, Queued, HandedOver, Resending,
       Answered, Kept, SuccessMeansServed, LoopNeverPanics, InHand, Deliverable,
       At
  <2>2. CASE Next
    BY <2>2, ExecuteRequestStep, ReceiveStep, FailStep, ReplyStep,
       PushRequestStep, PopRequestStep, ResendStep, WakeStep DEF Next
  <2> QED
    BY <2>1, <2>2
<1> QED
  BY InitInv, <1>1, PTL DEF Spec

\* The queue, the senders' points and the requests in hand keep their types.
THEOREM TypeCorrect == Spec => []TypeOK
<1>1. Inv => TypeOK
  BY DEF Inv
<1> QED
  BY <1>1, Invariance, PTL

\* Where a request can be at all: of Inv, what the properties say of Places.
LEMMA InvKeeps == Inv => NothingIsLost
<1> SUFFICES ASSUME Inv, NEW c \in Calls, Deliverable(c), c \notin acked
             PROVE  Places(c) # {}
  BY DEF NothingIsLost
<1>1. CASE InHand(c)
  BY <1>1 DEF Inv, Callers, Places, Senders
<1>2. CASE \E i \in DOMAIN queue : queue[i] = c
  BY <1>2 DEF Places
<1>3. CASE InHand(Loop) /\ hand[Loop] = c
  BY <1>3 DEF Places, Senders
<1> QED
  BY <1>1, <1>2, <1>3 DEF Inv, Kept

LEMMA InvKeepsOne == Inv => NotRepeatedAfterSuccess
<1> SUFFICES ASSUME Inv, NEW c \in Calls
             PROVE  /\ c \in acked => Places(c) = {}
                    /\ \A p, q \in Places(c) : p = q
  BY DEF NotRepeatedAfterSuccess
<1>1. \A i, j \in DOMAIN queue : queue[i] = c /\ queue[j] = c => i = j
  BY DEF Inv, Queued
<1>2. \A s, t \in Senders :
         InHand(s) /\ hand[s] = c /\ InHand(t) /\ hand[t] = c => s = t
  BY DEF Inv, Callers, Resending, HandedOver, Senders, InHand
<1>3. \A i \in DOMAIN queue : \A s \in Senders :
         ~(queue[i] = c /\ InHand(s) /\ hand[s] = c)
  BY DEF Inv, Queued, Callers, Resending, HandedOver, Senders, InHand
<1>4. c \in acked => /\ \A i \in DOMAIN queue : queue[i] # c
                     /\ \A s \in Senders : ~(InHand(s) /\ hand[s] = c)
  BY DEF Inv, Queued, Callers, Resending, HandedOver, Senders, InHand
<1> QED
  BY <1>1, <1>2, <1>3, <1>4 DEF Places

\* Whatever callers and DealTimeoutReq push and pop, and however services fail,
\* a request that can be sent is in the queue or with a sender until it is
\* acknowledged.
THEOREM NeverLost == Spec => []NothingIsLost
  BY InvKeeps, Invariance, PTL

\* A request is in one place at most, and in none once it is acknowledged: it
\* is not sent again after a 200, and its retries do not multiply.
THEOREM NeverRepeated == Spec => []NotRepeatedAfterSuccess
  BY InvKeepsOne, Invariance, PTL

\* A 200 is reported for a request that its service has received.
THEOREM ReportedWasServed == Spec => []SuccessMeansServed
<1>1. Inv => SuccessMeansServed
  BY DEF Inv
<1> QED
  BY <1>1, Invariance, PTL

\* No request that cannot be built reaches DealTimeoutReq.
THEOREM LoopSurvives == Spec => []LoopNeverPanics
<1>1. Inv => LoopNeverPanics
  BY DEF Inv
<1> QED
  BY <1>1, Invariance, PTL

-----------------------------------------------------------------------------
(* RetryQueue implements CallbackDelivery.                                  *)

\* With Inv no call is lost or repeated, and where it stands is seen from the
\* acknowledgements and the awaited answers alone.
Seen(c) ==
    IF At(c, "idle") THEN "idle"
    ELSE IF ~Deliverable(c) THEN "refused"
    ELSE IF c \in acked THEN "acked"
    ELSE IF Awaited(c) THEN "delivered" ELSE "pending"

seenStatus == [c \in Calls |-> Seen(c)]

StatusIsSeen == absStatus = seenStatus

LEMMA StandingIsSeen == Inv => StatusIsSeen
<1> SUFFICES ASSUME Inv, NEW c \in Calls PROVE Standing(c) = Seen(c)
  BY DEF StatusIsSeen, absStatus, seenStatus
<1>1. Deliverable(c) /\ c \notin acked => Places(c) # {}
  BY InvKeeps DEF NothingIsLost
<1>2. (c \in acked => Places(c) = {}) /\ \A p, q \in Places(c) : p = q
  BY InvKeepsOne DEF NotRepeatedAfterSuccess
<1> QED
  BY <1>1, <1>2 DEF Standing, Seen

\* The same before and after a step.
LEMMA SeenInStep == Inv /\ Inv' => absStatus = seenStatus /\ absStatus' = seenStatus'
<1>1. Inv' => StatusIsSeen'
  BY StandingIsSeen, PTL
<1> QED
  BY <1>1, StandingIsSeen DEF StatusIsSeen

\* A request in hand is its holder's alone, and not acknowledged.
LEMMA HeldAlone ==
  ASSUME Inv, NEW s \in Senders, InHand(s)
  PROVE  /\ hand[s] \in Calls /\ hand[s] \notin acked /\ ~At(hand[s], "idle")
         /\ \A t \in Senders : InHand(t) /\ hand[t] = hand[s] => t = s
<1> USE RetryQueueAssumption DEF Inv, Senders, InHand, At
<1>1. CASE s = Loop
  <2>1. hand[s] \in Calls /\ HandedOver(hand[s])
    BY <1>1 DEF Resending
  <2> QED
    BY <1>1, <2>1 DEF HandedOver, Callers
<1>2. CASE s \in Calls
  BY <1>2 DEF Callers, Resending, HandedOver
<1> QED
  BY <1>1, <1>2

\* A sender that goes on with what it has in hand moves that call alone.
LEMMA SenderMoves ==
  ASSUME Inv, NEW s \in Senders, InHand(s), NEW p \in Points \ {"idle"},
         pc' = [pc EXCEPT ![s] = p], UNCHANGED <<hand, req>>,
         acked' = acked \/ acked' = acked \cup {hand[s]}
  PROVE  LET h == hand[s] IN
         /\ h \in Calls
         /\ seenStatus' = [seenStatus EXCEPT ![h] =
                IF ~Deliverable(h) THEN "refused" ELSE IF h \in acked' THEN "acked"
                ELSE IF p = "reply" THEN "delivered" ELSE "pending"]
         /\ seenStatus[h] = IF ~Deliverable(h) THEN "refused"
                            ELSE IF pc[s] = "reply" THEN "delivered" ELSE "pending"
<1> DEFINE h == hand[s]
<1>1. /\ h \in Calls /\ h \notin acked /\ ~At(h, "idle")
      /\ \A t \in Senders : InHand(t) /\ hand[t] = h => t = s
  BY HeldAlone
<1>2. \A t \in Senders : pc'[t] = IF t = s THEN p ELSE pc[t]
  BY DEF Inv, TypeOK
<1>3. \A d \in Calls : At(d, "idle")' <=> At(d, "idle")
  BY <1>2 DEF At, Senders, InHand
<1>4. \A d \in Calls : Deliverable(d)' <=> Deliverable(d)
  BY <1>3 DEF Deliverable
<1>5. \A d \in Calls : d # h => (Awaited(d)' <=> Awaited(d))
  BY <1>2 DEF Awaited, At
<1>6. Awaited(h) <=> pc[s] = "reply"
  BY <1>1 DEF Awaited, At, InHand
<1>7. Awaited(h)' <=> p = "reply"
  BY <1>1, <1>2 DEF Awaited, At, InHand
<1> HIDE DEF h
<1>8. \A d \in Calls : d # h => Seen(d)' = Seen(d)
  BY <1>3, <1>4, <1>5 DEF Seen, h
<1>9. Seen(h)' = IF ~Deliverable(h) THEN "refused" ELSE IF h \in acked' THEN "acked"
                 ELSE IF p = "reply" THEN "delivered" ELSE "pending"
  BY <1>1, <1>3, <1>4, <1>7 DEF Seen, h
<1>10. Seen(h) = IF ~Deliverable(h) THEN "refused"
                 ELSE IF pc[s] = "reply" THEN "delivered" ELSE "pending"
  BY <1>1, <1>6 DEF Seen
<1> QED
  BY <1>1, <1>8, <1>9, <1>10 DEF seenStatus, h

\* A step of DealTimeoutReq from or to its rest is not seen.
LEMMA LoopMoves ==
  ASSUME Inv, NEW p \in Points \ {"reply"}, pc[Loop] # "reply",
         pc' = [pc EXCEPT ![Loop] = p], UNCHANGED <<req, acked>>,
         \A c \in Calls : hand'[c] = hand[c]
  PROVE  seenStatus' = seenStatus
<1>1. \A c \in Calls : pc'[c] = pc[c]
  BY RetryQueueAssumption DEF Inv, TypeOK, Senders
<1>2. pc'[Loop] = p
  BY DEF Inv, TypeOK, Senders
<1>3. \A c \in Calls : Awaited(c)' <=> Awaited(c)
  BY <1>1, <1>2 DEF Awaited, At, Senders
<1>4. \A c \in Calls : Seen(c)' = Seen(c)
  BY <1>1, <1>3 DEF Seen, Deliverable, At
<1> QED
  BY <1>4 DEF seenStatus

\* A new call is accepted or refused.
LEMMA ExecuteRequestRefines ==
  ASSUME Inv, NEW c \in Calls, NEW r \in Request, ExecuteRequest(c, r)
  PROVE  /\ seenStatus[c] = "idle"
         /\ \E to \in {"pending", "refused"} : seenStatus' = [seenStatus EXCEPT ![c] = to]
         /\ UNCHANGED served
<1> USE RetryQueueAssumption
    DEF Inv, ExecuteRequest, SendPost, Sent, Goto, Rest, At, Senders
<1>1. seenStatus[c] = "idle" /\ UNCHANGED served
  BY DEF Seen, seenStatus
<1>2. c \notin acked /\ hand[c] = c /\ ~Awaited(c)
  BY DEF Callers, Resending, HandedOver, Awaited, InHand, TypeOK
<1>3. /\ \A d \in Calls \cup {Loop} : d # c => pc'[d] = pc[d]
      /\ \A d \in Calls : d # c => req'[d] = req[d] /\ (d \in acked' <=> d \in acked)
  BY <1>2 DEF TypeOK
<1>4. req'[c] = r /\ pc'[c] \in {"done", "panic", "do"} /\ hand' = hand
  BY DEF TypeOK
<1>5. \A d \in Calls : Awaited(d)' <=> Awaited(d)
  BY <1>3, <1>4 DEF Awaited
<1>6. \A d \in Calls : d # c => Seen(d)' = Seen(d)
  BY <1>3, <1>5 DEF Seen, Deliverable
<1>7. Seen(c)' \in {"pending", "refused"}
  <2>1. pc'[c] # "idle" /\ ~Awaited(c)'
    BY <1>2, <1>4, <1>5
  <2>2. Deliverable(c)' => c \notin acked'
    BY <1>2, <1>4 DEF Deliverable, Request
  <2> QED
    BY <2>1, <2>2 DEF Seen
<1> QED
  BY <1>1, <1>6, <1>7 DEF seenStatus

\* Of the steps of a sender, that its service receives the request is Deliver,
\* the 200 is Acknowledge, a failure that follows is Retry.
LEMMA SenderRefines ==
  ASSUME Inv, Inv', NEW s \in Senders,
         Receive(s) \/ Reply(s) \/ Fail(s) \/ FailUnsent(s) \/ PushRequest(s)
  PROVE  Delivery!Next \/ UNCHANGED Delivery!vars
<1>1. absStatus = seenStatus /\ absStatus' = seenStatus'
  BY SeenInStep
<1>2. InHand(s) /\ hand[s] \in Calls /\ hand[s] \notin acked
  BY HeldAlone DEF InHand, Receive, Reply, Fail, FailUnsent, PushRequest, At
<1>3. DOMAIN seenStatus = Calls
  BY DEF seenStatus
<1>4. InHand(s) /\ pc[s] # "send" /\ Target(s) \in Services => Deliverable(hand[s])
  BY <1>2, HeldAlone DEF Target, InHand, Deliverable, At, Inv, Callers, Resending, HandedOver,
     Senders
<1>5. CASE Receive(s)
  <2>1. Deliverable(hand[s])
    BY <1>2, <1>4, <1>5 DEF Receive, At
  <2>2. Delivery!Deliver(hand[s])
    BY <1>1, <1>2, <1>5, <2>1, SenderMoves
       DEF Receive, Goto, At, Points, Delivery!Deliver, Delivery!Move
  <2> QED
    BY <1>2, <2>2 DEF Delivery!Next
<1>6. CASE Reply(s)
  <2>1. /\ Rest(s) \in Points \ {"idle"} /\ pc' = [pc EXCEPT ![s] = Rest(s)]
        /\ UNCHANGED <<hand, req, served>> /\ acked' = acked \cup {hand[s]}
    BY <1>6 DEF Reply, Sent, Goto, Rest, Points
  <2>2. /\ seenStatus' = [seenStatus EXCEPT ![hand[s]] =
                IF ~Deliverable(hand[s]) THEN "refused" ELSE "acked"]
        /\ seenStatus[hand[s]] = IF ~Deliverable(hand[s]) THEN "refused" ELSE "delivered"
    BY <1>2, <1>6, <2>1, SenderMoves DEF Reply, At
  <2>3. CASE Deliverable(hand[s])
    <3>1. Delivery!Acknowledge(hand[s])
      BY <1>1, <2>1, <2>2, <2>3 DEF Delivery!Acknowledge, Delivery!Move
    <3> QED
      BY <1>2, <3>1 DEF Delivery!Next
  <2>4. CASE ~Deliverable(hand[s])
    BY <1>1, <1>3, <2>1, <2>2, <2>4 DEF seenStatus, Delivery!vars
  <2> QED
    BY <2>3, <2>4
<1>7. CASE Fail(s)
  <2>1. Deliverable(hand[s])
    BY <1>2, <1>4, <1>7 DEF Fail
  <2>2. /\ seenStatus' = [seenStatus EXCEPT ![hand[s]] = "pending"] /\ UNCHANGED served
        /\ seenStatus[hand[s]] = IF pc[s] = "reply" THEN "delivered" ELSE "pending"
    <3>1. PICK p \in Points \ {"idle", "reply"} :
            pc' = [pc EXCEPT ![s] = p] /\ UNCHANGED <<hand, req, acked, served>>
      BY <1>7 DEF Fail, Goto, Points, aux
    <3> QED
      BY <1>2, <2>1, <3>1, SenderMoves
  <2>3. CASE pc[s] = "reply"
    <3>1. Delivery!Retry(hand[s])
      BY <1>1, <2>2, <2>3 DEF Delivery!Retry, Delivery!Move
    <3> QED
      BY <1>2, <3>1 DEF Delivery!Next
  <2>4. CASE pc[s] # "reply"
    BY <1>1, <1>3, <2>2, <2>4 DEF seenStatus, Delivery!vars
  <2> QED
    BY <2>3, <2>4
<1>8. CASE FailUnsent(s) \/ PushRequest(s)
  <2>1. PICK p \in Points \ {"idle", "reply"} :
          pc' = [pc EXCEPT ![s] = p] /\ UNCHANGED <<hand, req, acked, served>>
    BY <1>8 DEF FailUnsent, PushRequest, Goto, Rest, Points, aux
  <2>2. seenStatus' = [seenStatus EXCEPT ![hand[s]] = seenStatus[hand[s]]]
    BY <1>2, <1>8, <2>1, SenderMoves DEF FailUnsent, PushRequest, At
  <2> QED
    BY <1>1, <1>3, <2>1, <2>2 DEF seenStatus, Delivery!vars
<1> QED
  BY <1>5, <1>6, <1>7, <1>8

\* What DealTimeoutReq does between two deliveries is not seen: the request it
\* has taken from the queue is pending as it was before.
LEMMA LoopRefines ==
  ASSUME Inv, Inv', PopRequest \/ Resend \/ Wake
  PROVE  UNCHANGED Delivery!vars
<1>1. absStatus = seenStatus /\ absStatus' = seenStatus'
  BY SeenInStep
<1>2. CASE PopRequest
  <2>1. PICK p \in Points \ {"reply"} : pc' = [pc EXCEPT ![Loop] = p]
    BY <1>2 DEF PopRequest, Goto, Points
  <2>2. \A c \in Calls : hand'[c] = hand[c]
    BY <1>2, RetryQueueAssumption DEF PopRequest, Inv, TypeOK, Senders
  <2> QED
    BY <1>1, <1>2, <2>1, <2>2, LoopMoves DEF PopRequest, At, aux, Delivery!vars
<1>3. CASE Resend
  <2>1. req[hand[Loop]].encodable /\ req[hand[Loop]].url # Malformed
    BY <1>3 DEF Resend, At, Inv, Resending, InHand, HandedOver
  <2>2. pc' = [pc EXCEPT ![Loop] = "do"] /\ UNCHANGED <<hand, req, acked, served>>
    BY <1>3, <2>1 DEF Resend, SendPost, Goto
  <2> QED
    BY <1>1, <1>3, <2>2, LoopMoves DEF Resend, At, Points, Delivery!vars
<1>4. CASE Wake
  BY <1>1, <1>4, LoopMoves DEF Wake, Goto, At, Points, aux, Delivery!vars
<1> QED
  BY <1>2, <1>3, <1>4

\* The queue of failed requests and its senders deliver every callback at least
\* once and none after a 200, for any number of calls and services.
THEOREM DeliveryIsAtLeastOnce == Spec => DeliversAtLeastOnce
<1>1. Init => Delivery!Init
  <2> SUFFICES ASSUME Init PROVE Delivery!Init
    OBVIOUS
  <2>1. \A c \in Calls : Standing(c) = "idle"
    BY RetryQueueAssumption DEF Init, Standing, At, Senders
  <2> QED
    BY <2>1 DEF Init, Delivery!Init, absStatus
<1>2. Inv /\ Inv' /\ [Next]_vars => [Delivery!Next]_Delivery!vars
  <2> SUFFICES ASSUME Inv, Inv', [Next]_vars
               PROVE  Delivery!Next \/ UNCHANGED Delivery!vars
    OBVIOUS
  <2>1. absStatus = seenStatus /\ absStatus' = seenStatus'
    BY SeenInStep
  <2>2. CASE UNCHANGED vars
    BY <2>1, <2>2 DEF vars, aux, seenStatus, Seen, Deliverable, Awaited, At, Delivery!vars
  <2>3. ASSUME NEW c \in Calls, NEW r \in Request, ExecuteRequest(c, r)
        PROVE  Delivery!Next
    <3>1. Delivery!Accept(c) \/ Delivery!Refuse(c)
      BY <2>1, <2>3, ExecuteRequestRefines
         DEF Delivery!Accept, Delivery!Refuse, Delivery!Move
    <3> QED
      BY <3>1 DEF Delivery!Next
  <2>4. ASSUME NEW s \in Senders,
               Receive(s) \/ Reply(s) \/ Fail(s) \/ FailUnsent(s) \/ PushRequest(s)
        PROVE  Delivery!Next \/ UNCHANGED Delivery!vars
    BY <2>4, SenderRefines
  <2>5. CASE PopRequest \/ Resend \/ Wake
    BY <2>5, LoopRefines
  <2> QED
    BY <2>2, <2>3, <2>4, <2>5 DEF Next
<1> QED
  BY <1>1, <1>2, Invariance, PTL DEF Spec, DeliversAtLeastOnce, Delivery!Spec
=============================================================================
