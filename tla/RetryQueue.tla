----------------------------- MODULE RetryQueue -----------------------------
(***************************************************************************)
(* The callbacks to other services: ReqQueue of httpReqQueue.go over the   *)
(* HTTP client of httpClient.go.                                           *)
(*                                                                         *)
(* A caller of ExecuteRequest sends once, on its own goroutine, and puts   *)
(* what has failed in a queue; the goroutine of DealTimeoutReq sends the   *)
(* head of the queue until it is accepted, and puts what fails again at    *)
(* the end.  The mutex makes each push and each pop one step.  The client  *)
(* has no timeout: a service that holds a request holds its sender too.    *)
(*                                                                         *)
(* ExecuteRequest has no caller yet.  A panic in it is taken to be         *)
(* recovered by whoever calls it, as a gin handler is by Recovery: it ends *)
(* that call and not the process.  Nobody recovers one in DealTimeoutReq.  *)
(***************************************************************************)
EXTENDS Naturals, Sequences

CONSTANTS
    Calls,      \* calls of ExecuteRequest; bounds how many there are
    Services,   \* urls of services
    Reliable,   \* the services that answer, in the end, what they are asked
    Empty,      \* the url of length zero
    Malformed,  \* a url that http.NewRequest refuses
    Loop,       \* the goroutine of DealTimeoutReq
    NoCall

ASSUME RetryQueueAssumption ==
    /\ Reliable \subseteq Services
    /\ Empty \notin Services /\ Malformed \notin Services /\ Empty # Malformed
    /\ Loop \notin Calls /\ NoCall \notin Calls

VARIABLES
    queue,      \* the requests that have failed, as the calls they come from
    pc,         \* the point each sender is at
    hand,       \* the request each sender has in hand
    req,        \* the url of each call, and whether its data can be marshalled
    \* for the properties alone:
    served,     \* what its service has received
    acked       \* what sendPost has returned 0 for

aux == <<served, acked>>
vars == <<queue, pc, hand, req, aux>>

Senders == Calls \cup {Loop}
Urls == Services \cup {Empty, Malformed}
Request == [url : Urls, encodable : BOOLEAN]
Points == {"idle", "pop", "sleep", "send", "do", "reply", "push", "done", "panic"}

TypeOK ==
    /\ queue \in Seq(Calls)
    /\ pc \in [Senders -> Points]
    /\ hand \in [Senders -> Calls \cup {NoCall}]
    /\ req \in [Calls -> Request \cup {NoCall}]
    /\ \A c \in Calls : pc[c] # "idle" => req[c] \in Request
    /\ served \subseteq Calls /\ acked \subseteq Calls

\* NewReqQueue
Init ==
    /\ queue = <<>>
    /\ pc = [s \in Senders |-> IF s = Loop THEN "pop" ELSE "idle"]
    /\ hand = [s \in Senders |-> IF s = Loop THEN NoCall ELSE s]
    /\ req = [c \in Calls |-> NoCall]
    /\ served = {} /\ acked = {}

-----------------------------------------------------------------------------
At(s, p) == pc[s] = p
Goto(s, p) == pc' = [pc EXCEPT ![s] = p]

\* where a sender goes with a request that is off its hands
Rest(s) == IF s = Loop THEN "sleep" ELSE "done"

\* sendPost returns 0.
Sent(s) ==
    /\ acked' = acked \cup {hand[s]}
    /\ Goto(s, Rest(s))

\* The beginning of sendPost: data that cannot be marshalled counts as sent; a
\* request that cannot be built is nil, and used before its error is looked at.
SendPost(s, r) ==
    \/ ~r.encodable /\ Sent(s)
    \/ r.encodable /\ r.url = Malformed /\ Goto(s, "panic") /\ UNCHANGED acked
    \/ r.encodable /\ r.url # Malformed /\ Goto(s, "do") /\ UNCHANGED acked

\* Mutant: the request is put in the queue first, not to lose it.
ExecuteRequestQueuesFirst(c, r) ==
    /\ At(c, "idle")
    /\ req' = [req EXCEPT ![c] = r]
    /\ queue' = Append(queue, c)
    /\ SendPost(c, r)
    /\ UNCHANGED <<hand, served>>

ExecuteRequest(c, r) ==
    /\ At(c, "idle")
    /\ req' = [req EXCEPT ![c] = r]
    /\ SendPost(c, r)
    /\ UNCHANGED <<queue, hand, served>>

-----------------------------------------------------------------------------
(* client.Do and what follows it                                            *)

Target(s) == req[hand[s]].url

\* The request has reached its service.
Receive(s) ==
    /\ At(s, "do") /\ Target(s) \in Services
    /\ served' = served \cup {hand[s]}
    /\ Goto(s, "reply")
    /\ UNCHANGED <<queue, hand, req, acked>>

\* status 200, with its body
Reply(s) ==
    /\ At(s, "reply")
    /\ Sent(s)
    /\ UNCHANGED <<queue, hand, req, served>>

\* Mutant: every error ends with the 0 that resCode begins with.
FailReturnsZero(s) ==
    /\ pc[s] \in {"do", "reply"} /\ Target(s) \in Services
    /\ Sent(s)
    /\ UNCHANGED <<queue, hand, req, served>>

\* No connection, or it is lost before the answer or within the body, or the
\* status is another: the request may have been served all the same.
Fail(s) ==
    /\ pc[s] \in {"do", "reply"} /\ Target(s) \in Services
    /\ Goto(s, "push")
    /\ UNCHANGED <<queue, hand, req, aux>>

\* An empty url has no scheme: Do refuses it at once.
FailUnsent(s) ==
    /\ At(s, "do") /\ Target(s) = Empty
    /\ Goto(s, "push")
    /\ UNCHANGED <<queue, hand, req, aux>>

-----------------------------------------------------------------------------
\* Mutant: what has failed comes first again.
PushRequestInFront(s) ==
    /\ At(s, "push")
    /\ queue' = <<hand[s]>> \o queue
    /\ Goto(s, Rest(s))
    /\ UNCHANGED <<hand, req, aux>>

PushRequest(s) ==
    /\ At(s, "push")
    /\ queue' = Append(queue, hand[s])
    /\ Goto(s, Rest(s))
    /\ UNCHANGED <<hand, req, aux>>

\* Mutant: the first request is copied, the last one removed.
RemainingButLast(q) == SubSeq(q, 1, Len(q) - 1)

\* Mutant: the first request is copied and none removed.
RemainingAll(q) == q

Remaining(q) == Tail(q)

\* PopRequest and the test of the url: a request with an empty one is dropped,
\* as the empty request is that an empty queue yields.
PopRequest ==
    /\ At(Loop, "pop")
    /\ \/ /\ queue = <<>>
          /\ hand' = [hand EXCEPT ![Loop] = NoCall]
          /\ Goto(Loop, "sleep")
          /\ UNCHANGED queue
       \/ /\ queue # <<>>
          /\ queue' = Remaining(queue)
          /\ hand' = [hand EXCEPT ![Loop] = Head(queue)]
          /\ Goto(Loop, IF req[Head(queue)].url = Empty THEN "sleep" ELSE "send")
    /\ UNCHANGED <<req, aux>>

\* sendPost of DealTimeoutReq
Resend ==
    /\ At(Loop, "send")
    /\ SendPost(Loop, req[hand[Loop]])
    /\ UNCHANGED <<queue, hand, req, served>>

Wake ==
    /\ At(Loop, "sleep")
    /\ Goto(Loop, "pop")
    /\ UNCHANGED <<queue, hand, req, aux>>

-----------------------------------------------------------------------------
Next ==
    \/ \E c \in Calls, r \in Request : ExecuteRequest(c, r)
    \/ \E s \in Senders :
        Receive(s) \/ Reply(s) \/ Fail(s) \/ FailUnsent(s) \/ PushRequest(s)
    \/ PopRequest \/ Resend \/ Wake

Spec == Init /\ [][Next]_vars

\* The goroutines run, and a reliable service ends what was begun with it.  Of
\* the requests it gets again and again it accepts one in the end.  No other
\* service need answer, or refuse, anything.
AskingReliable(s) == pc[s] \in {"do", "reply"} /\ Target(s) \in Reliable
Ends(s) == AskingReliable(s) /\ (Receive(s) \/ Reply(s) \/ Fail(s))
RunsOn(s) == FailUnsent(s) \/ PushRequest(s) \/ Ends(s)

Fairness ==
    /\ WF_vars(\E c \in Calls : RunsOn(c))
    /\ WF_vars(PopRequest \/ Resend \/ Wake \/ RunsOn(Loop))
    /\ SF_vars(AskingReliable(Loop) /\ Receive(Loop))
    /\ SF_vars(AskingReliable(Loop) /\ Reply(Loop))

FairSpec == Spec /\ Fairness

-----------------------------------------------------------------------------
\* Requests that can be sent at all.
Deliverable(c) == ~At(c, "idle") /\ req[c].encodable /\ req[c].url \in Services

\* Where a request is that is being sent or will be sent again.
InHand(s) == pc[s] \in {"send", "do", "reply", "push"}
Places(c) ==
    {<<"queue", i>> : i \in {j \in DOMAIN queue : queue[j] = c}}
    \cup {<<"sender", s>> : s \in {t \in Senders : InHand(t) /\ hand[t] = c}}

\* A request that could be sent and was not acknowledged with status 200 is in
\* the queue or with a sender, whatever callers and DealTimeoutReq push and
\* pop in the meantime: no failure of a service loses it.
NothingIsLost ==
    \A c \in Calls : Deliverable(c) /\ c \notin acked => Places(c) # {}

\* A request that was acknowledged is nowhere any more, and one that was not is
\* in one place: a service that has said 200 is not asked again, and the
\* retries of a request do not multiply however often it fails.
NotRepeatedAfterSuccess ==
    \A c \in Calls :
        /\ c \in acked => Places(c) = {}
        /\ \A p, q \in Places(c) : p = q

\* What sendPost reports as sent was received by its service, unless its data
\* could not be marshalled, however many attempts have failed before.
SuccessMeansServed ==
    \A c \in acked : Deliverable(c) => c \in served

\* The request that makes sendPost panic is its caller's alone: none gets into
\* the queue, where it would end the goroutine of DealTimeoutReq, and with it
\* the process.
LoopNeverPanics == ~At(Loop, "panic")

\* A request to a reliable service is acknowledged in the end, although the
\* requests to other services fail for ever and share the queue with it, unless
\* one of those is never answered and holds up DealTimeoutReq for good.  That a
\* caller's panic on a malformed url is recovered is assumed: otherwise it would
\* end the process, and the queue with it.
EventuallyDelivered ==
    \A c \in Calls :
        \/ (Deliverable(c) /\ req[c].url \in Reliable) ~> (c \in acked)
        \/ <>[](pc[Loop] \in {"do", "reply"} /\ Target(Loop) \notin Reliable)

-----------------------------------------------------------------------------
\* Where a call stands in the terms of CallbackDelivery, which knows neither
\* "lost" nor "repeated".
Awaited(c) == \E s \in Senders : At(s, "reply") /\ hand[s] = c

Standing(c) ==
    IF At(c, "idle") THEN "idle"
    ELSE IF ~Deliverable(c) THEN "refused"
    ELSE IF Places(c) = {} THEN (IF c \in acked THEN "acked" ELSE "lost")
    ELSE IF c \in acked \/ \E p, q \in Places(c) : p # q THEN "repeated"
    ELSE IF Awaited(c) THEN "delivered" ELSE "pending"

absStatus == [c \in Calls |-> Standing(c)]

Delivery == INSTANCE CallbackDelivery WITH status <- absStatus

\* The queue and its senders deliver at least once: a request that failed,
\* served or not, is pending again until one delivery of it is answered with
\* 200, no two deliveries of it overlap, and after the 200 there is none.  This
\* is as the senders see it: a service may still be at work on a delivery whose
\* connection was lost when the next one reaches it.
DeliversAtLeastOnce == Delivery!Spec
=============================================================================
