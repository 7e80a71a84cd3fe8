-------------------------- MODULE MediaRouterProofs --------------------------
(***************************************************************************)
(* Proofs about MediaRouter for every set of users and producers.          *)
(*                                                                         *)
(* None of the three properties is inductive.  Base says what a handler    *)
(* has in hand at each of its points and to whom a producer belongs; on    *)
(* top of it Mesh says, for two producers of one kind, whose handler is    *)
(* still to come to the other, Numbered keeps the mids in hand apart from  *)
(* those handed out, and Unique and Followed trace a consumer from the     *)
(* list it is in to the notification of its user.                          *)
(***************************************************************************)
EXTENDS MediaRouter, TLAPS, WellFoundedInduction, NaturalsInduction

\* The points at which a handler makes a consumer, those of Produce, and those
\* of CloseProducer before and after removeProducer.
Making == {"scanPush", "scanPull", "reset", "load", "store", "mid", "consume",
           "tell"}
Producing == Making \cup {"create", "push", "pull", "pullItems"}
Closing == {"close", "remove"}
Removed == {"unconsume", "notify"}
Listed == {"mid", "consume", "tell"}
Iterating == Making \cup Removed \cup {"push", "pull", "pullItems"}

\* The two parts of Produce after the worker was asked.
InPush(u) == pc[u] = "push" \/ (pc[u] \in Making /\ item[u] = cur[u])
InPull(u) == pc[u] \in {"pull", "pullItems"} \/ (pc[u] \in Making /\ item[u] # cur[u])

\* A producer is in the list of one user, from its Produce to its
\* CloseProducer.
Owned ==
    /\ \A u, v \in Users : u # v => producers[u] \cap producers[v] = {}
    /\ \A u \in Users : producers[u] \subseteq started \ closed
    /\ asMember \cup finished \cup closed \subseteq started

\* The producer a handler is about is in its user's list until removeProducer,
\* and then in none.
About(u) ==
    /\ pc[u] \in Producing => cur[u] \in producers[u] \ finished
    /\ pc[u] \in Closing => cur[u] \in producers[u]
    /\ pc[u] \in Removed =>
        /\ cur[u] \in started \ closed
        /\ \A v \in Users : cur[u] \notin producers[v]

\* It is that handler's alone.
Handled ==
    /\ \A u \in Users : About(u)
    /\ \A u, v \in Users : u # v /\ pc[u] # "idle" /\ pc[v] # "idle" => cur[u] # cur[v]

\* What a handler makes consumers for, and whose it is not.
Holds(u) ==
    /\ pc[u] \in Making =>
        /\ item[u] \in started
        /\ item[u] = cur[u] => peer[u] \in Users /\ peer[u] # u
        /\ item[u] # cur[u] => item[u] \notin producers[u]
    /\ pc[u] = "scanPush" => item[u] = cur[u]
    /\ pc[u] = "scanPull" => item[u] # cur[u]
    /\ pull[u] \subseteq started \ producers[u]
    /\ pull[u] # {} => pc[u] = "pullItems" \/ (pc[u] \in Making /\ item[u] # cur[u])
    /\ pc[u] \in Iterating => u \in seen[u]
InHand == \A u \in Users : Holds(u)

\* Who has been told of a producer is not its owner; who has left does not
\* come back.
Outside ==
    /\ \A v \in Users : \A e \in told[v] :
        e.consumer.producer \in started \ producers[v]
    /\ users \cap left = {}
    /\ \A u \in Users : producers[u] \cap asMember # {} => u \in users \cup left

Base == TypeOK /\ Owned /\ Handled /\ InHand /\ Outside

-----------------------------------------------------------------------------
\* The user has been told of the producer.
Has(v, p) == \E e \in told[v] : e.consumer.producer = p

\* A consumer of the producer is in the user's list, and its handler is about
\* to tell the user.
Telling(v, p) == \E h \in Users : pc[h] \in Listed /\ ListOf(h) = v /\ item[h] = p
Known(v, p) == Has(v, p) \/ Telling(v, p)

\* What is in a list, or in a list that was loaded, has been told of or will be.
Pending ==
    /\ \A v \in Users : \A i \in DOMAIN consumers[v] :
        Known(v, consumers[v][i].producer)
    /\ \A h \in Users : pc[h] = "store" => \A i \in DOMAIN snap[h] :
        Known(ListOf(h), snap[h][i].producer)

\* The push of p by u will come to v; the pull by v will come to p of u.
WillPush(u, p, v) ==
    /\ cur[u] = p
    /\ \/ pc[u] = "create"
       \/ InPush(u) /\ (v \in todo[u] \/ (pc[u] \in Making /\ peer[u] = v))
WillPull(v, q, u, p) ==
    /\ cur[v] = q
    /\ \/ pc[v] = "create" \/ InPush(v)
       \/ InPull(v) /\ (u \in todo[v] \/ p \in pull[v] \/ (pc[v] \in Making /\ item[v] = p))

Mesh ==
    \A u, v \in users : \A p \in producers[u], q \in producers[v] :
        u # v /\ KindOf[p] = KindOf[q] /\ {p, q} \subseteq asMember =>
            \/ Has(v, p) \/ <<v, p>> \in missed
            \/ WillPush(u, p, v) \/ WillPull(v, q, u, p)

-----------------------------------------------------------------------------
\* The handlers that have the mid of a consumer of v in hand.
Holders(v) == {h \in Users : pc[h] \in {"consume", "tell"} /\ ListOf(h) = v}

\* Of a user whose list only one goroutine at a time has worked on: what was
\* loaded is still the list, one that is about to be made is not there yet, mids
\* are places of it, and the one that is about to be read is new.
Apart(v) ==
    /\ \A h, k \in AddersTo(v) : h = k
    /\ \A h \in AddersTo(v) : pc[h] = "store" => snap[h] = consumers[v]
    /\ \A h \in AddersTo(v) : pc[h] = "reset" => consumers[v] = <<>>
    /\ \A e \in told[v] : e.mid <= Len(consumers[v])
    /\ \A h \in Holders(v) :
        /\ mid[h] <= Len(consumers[v])
        /\ \A e \in told[v] : e.mid # mid[h]
        /\ \A k \in Holders(v) : mid[k] = mid[h] => k = h
    /\ \A h \in AddersTo(v) : pc[h] = "mid" =>
        /\ \A e \in told[v] : e.mid < Len(consumers[v])
        /\ \A k \in Holders(v) : mid[k] < Len(consumers[v])
    /\ \A d, e \in told[v] : d.mid = e.mid => d = e
Numbered == \A v \in Users \ raced : Apart(v)

-----------------------------------------------------------------------------
In(v, c) == \E i \in DOMAIN consumers[v] : consumers[v][i] = c

\* The close of the producer has come to the list of v.
Passed(v, p) ==
    \/ p \in closed
    \/ \E h \in Users : cur[h] = p
        /\ (pc[h] = "notify" \/ (pc[h] = "unconsume" /\ v \in seen[h]))

\* A list that only one goroutine at a time has worked on has one consumer of a
\* producer, the one its user was told of or will be.
Sole(v) ==
    /\ \A h \in AddersTo(v) : pc[h] \in {"load", "store"} => ~Exists(v, item[h])
    /\ \A i, j \in DOMAIN consumers[v] :
        consumers[v][i].producer = consumers[v][j].producer =>
            consumers[v][i] = consumers[v][j]
    /\ \A e \in told[v] : In(v, e.consumer) \/ Passed(v, e.consumer.producer)
    /\ \A h \in Users : pc[h] \in Listed /\ ListOf(h) = v =>
        In(v, ConsumerOf(h)) \/ Passed(v, item[h])
Unique == \A v \in Users \ raced : Sole(v)

\* A consumer that is due is one its user was told of; the handler that closes
\* it has yet to come to its user, has it in hand, or has sent it.
Pursued(d) ==
    /\ d[1] \in users \cup left
    /\ \E e \in told[d[1]] : e.consumer = d[2]
    /\ \A h \in Users :
        cur[h] = d[2].producer /\ d[1] \in users \ raced =>
            /\ pc[h] = "unconsume" => d[1] \in todo[h] \/ d \in gone[h]
            /\ pc[h] = "notify" => d \in gone[h] \/ d[2] \in toldClosed[d[1]]
    /\ d[2].producer \in closed /\ d[1] \in users \ raced =>
        d[2] \in toldClosed[d[1]]
Followed == \A d \in due : Pursued(d)

-----------------------------------------------------------------------------
(* Base                                                                     *)

\* What a step of u leaves alone in the handlers of the others.
OthersWait(u) ==
    \A v \in Users : v # u =>
        /\ pc'[v] = pc[v] /\ cur'[v] = cur[v] /\ item'[v] = item[v]
        /\ peer'[v] = peer[v] /\ pull'[v] = pull[v]
        /\ todo'[v] = todo[v] /\ seen'[v] = seen[v]
        /\ snap'[v] = snap[v] /\ mid'[v] = mid[v] /\ gone'[v] = gone[v]

\* The initial state: nobody is in the room.
LEMMA InitBase == Init => Base
<1> SUFFICES ASSUME Init PROVE Base
  OBVIOUS
<1> USE MediaAssumption DEF Init
<1>1. TypeOK
  BY DEF TypeOK, Points
<1>2. Owned /\ Handled /\ Outside
  BY DEF Owned, Handled, About, Outside, Producing, Making, Closing, Removed
<1>3. InHand
  BY DEF InHand, Holds, Making, Removed, Iterating
<1> QED
  BY <1>1, <1>2, <1>3 DEF Base

\* Joining and leaving.
LEMMA MembersBase ==
  ASSUME Base, NEW u \in Users, AddUser(u) \/ DeleteUser(u)
  PROVE  Base'
<1> USE DEF AddUser, DeleteUser, At, iteration, making, sent, aux, Base
<1>1. TypeOK'
  BY DEF TypeOK
<1>2. Owned' /\ Handled' /\ InHand' /\ Outside'
  BY DEF TypeOK, Owned, Handled, About, InHand, Holds, Outside
<1> QED
  BY <1>1, <1>2

\* A new producer has no owner, and no handler is about it.
LEMMA ProduceBase ==
  ASSUME Base, NEW u \in Users, NEW p \in Producers, Produce(u, p)
  PROVE  Base' /\ OthersWait(u)
<1> USE DEF Produce, At, Goto, iteration, making, sent, Base
<1>1. TypeOK'
  BY DEF TypeOK, Points
<1>2. Owned'
  BY DEF TypeOK, Owned
<1>3. \A v \in Users : v # u => pc'[v] = pc[v] /\ cur'[v] = cur[v]
                                /\ producers'[v] = producers[v]
  BY DEF TypeOK
<1>4. pc'[u] = "create" /\ cur'[u] = p /\ producers'[u] = producers[u] \cup {p}
      /\ p \notin started
  BY DEF TypeOK
<1>5. \A v \in Users : pc[v] # "idle" => cur[v] \in started
  BY DEF TypeOK, Points, Handled, About, Owned, Producing, Making, Closing, Removed
<1>6. Handled'
  <2>1. ASSUME NEW v \in Users PROVE About(v)'
    BY <1>3, <1>4, <1>5 DEF TypeOK, Handled, About, Owned, Producing, Making, Closing,
       Removed
  <2> QED
    BY <1>3, <1>4, <1>5, <2>1 DEF Handled
<1>7. ASSUME NEW v \in Users PROVE Holds(v)'
  <2>1. CASE v = u
    BY <1>4, <2>1 DEF InHand, Holds, Making, Removed, Iterating, TypeOK
  <2>2. CASE v # u
    BY <1>3, <2>2 DEF InHand, Holds, TypeOK
  <2> QED
    BY <2>1, <2>2
<1>8. Outside'
  BY <1>3, <1>4 DEF Outside, Owned, TypeOK
<1>9. OthersWait(u)
  BY <1>3 DEF OthersWait
<1> QED
  BY <1>1, <1>2, <1>6, <1>7, <1>8, <1>9 DEF InHand

\* A handler that goes on with its producer changes nothing for the others.
LEMMA HandlerBase ==
  ASSUME Base, TypeOK', NEW u \in Users, OthersWait(u),
         UNCHANGED <<users, left, producers, started, asMember, closed, finished>>,
         pc[u] # "idle" /\ cur'[u] = cur[u],
         About(u)', Holds(u)',
         \A v \in Users : \A e \in told'[v] :
            e \in told[v] \/ e.consumer.producer \in started \ producers[v]
  PROVE  Base'
<1> USE DEF Base
<1>1. Owned' /\ Outside'
  BY DEF Owned, Outside
<1>2. Handled'
  BY DEF Handled, About, OthersWait
<1>3. InHand'
  BY DEF InHand, Holds, OthersWait
<1> QED
  BY <1>1, <1>2, <1>3

\* The iterations begin, go on and end.
LEMMA RangeBase ==
  ASSUME Base, NEW u \in Users,
         CreateProducer(u) \/ PushNext(u) \/ PushEnds(u) \/ PullNext(u)
         \/ PullItem(u) \/ PullMisses(u) \/ PullItemsEnd(u)
  PROVE  Base' /\ OthersWait(u)
<1> USE DEF Base, At, Goto, StartRange, ComeTo, tables, iteration, making, sent, aux
<1> DEFINE Kept == /\ UNCHANGED <<users, left, producers, started, asMember, closed,
                                  finished, told>>
                   /\ pc[u] \in Producing /\ pc'[u] \in Producing /\ cur' = cur
<1> SUFFICES TypeOK' /\ OthersWait(u) /\ Kept /\ Holds(u)'
  <2>1. ASSUME Kept PROVE About(u)' /\ pc[u] # "idle" /\ cur'[u] = cur[u]
    BY <2>1 DEF Handled, About, Producing, Making, Closing, Removed
  <2> QED
    BY <2>1, HandlerBase
<1>1. Holds(u) /\ (pc[u] \in Producing => cur[u] \in producers[u])
  BY DEF InHand, Handled, About
<1>2. CASE CreateProducer(u)
  <2>1. TypeOK' /\ OthersWait(u) /\ Kept
    BY <1>2 DEF CreateProducer, TypeOK, Points, OthersWait, Producing, Making
  <2>2. Holds(u)'
    BY <1>1, <1>2 DEF CreateProducer, Holds, TypeOK, Making, Removed, Iterating
  <2> QED
    BY <2>1, <2>2
<1>3. CASE PushNext(u)
  <2>1. TypeOK'
    BY <1>3 DEF PushNext, TypeOK, Points
  <2>2. OthersWait(u) /\ Kept
    BY <1>3 DEF PushNext, TypeOK, OthersWait, Producing, Making
  <2>3. Holds(u)'
    BY <1>1, <1>3, <2>2 DEF PushNext, Holds, TypeOK, Making, Removed, Iterating, Owned
  <2> QED
    BY <2>1, <2>2, <2>3
<1>4. CASE PushEnds(u)
  <2>1. TypeOK' /\ OthersWait(u) /\ Kept
    BY <1>4 DEF PushEnds, TypeOK, Points, OthersWait, Producing, Making
  <2>2. Holds(u)'
    BY <1>1, <1>4 DEF PushEnds, Holds, TypeOK, Making, Removed, Iterating
  <2> QED
    BY <2>1, <2>2
<1>5. CASE PullNext(u)
  <2>1. TypeOK' /\ OthersWait(u) /\ Kept
    BY <1>5 DEF PullNext, TypeOK, Points, OthersWait, Producing, Making
  <2>2. Holds(u)'
    <3>1. PICK v \in users : v \notin seen[u] /\ pull'[u] \subseteq producers[v]
      BY <1>5 DEF PullNext, TypeOK
    <3>2. v # u /\ v \in Users
      BY <1>1, <1>5, <3>1 DEF PullNext, Holds, Iterating, TypeOK
    <3>3. pull'[u] \subseteq started' \ producers'[u]
      BY <2>1, <3>1, <3>2 DEF Owned
    <3>4. pc'[u] = "pullItems" /\ u \in seen'[u]
      BY <1>1, <1>5 DEF PullNext, Holds, Iterating, TypeOK
    <3> QED
      BY <3>3, <3>4 DEF Holds, Making
  <2> QED
    BY <2>1, <2>2
<1>6. CASE PullItem(u)
  <2>1. TypeOK'
    <3>1. PICK p \in pull[u] : pull' = [pull EXCEPT ![u] = @ \ {p}]
                                /\ item' = [item EXCEPT ![u] = p]
      BY <1>6 DEF PullItem
    <3>2. raced' \subseteq Users /\ p \in Producers
      BY <1>6 DEF PullItem, TypeOK
    <3> QED
      BY <1>6, <3>1, <3>2 DEF PullItem, TypeOK, Points
  <2>2. OthersWait(u) /\ Kept
    BY <1>6 DEF PullItem, TypeOK, OthersWait, Producing, Making
  <2>3. Holds(u)'
    BY <1>1, <1>6, <2>2 DEF PullItem, Holds, TypeOK, Making, Removed, Iterating, Owned
  <2> QED
    BY <2>1, <2>2, <2>3
<1>7. CASE PullMisses(u)
  <2>1. PICK p \in pull[u] : pull' = [pull EXCEPT ![u] = @ \ {p}]
                              /\ missed' = missed \cup {<<u, p>>}
    BY <1>7 DEF PullMisses
  <2>2. missed' \subseteq Users \X Producers
    BY <2>1 DEF TypeOK
  <2>3. TypeOK' /\ OthersWait(u) /\ Kept
    BY <1>7, <2>1, <2>2 DEF PullMisses, TypeOK, OthersWait, Producing, Making
  <2>4. Holds(u)'
    BY <1>1, <1>7, <2>1 DEF PullMisses, Holds, TypeOK, Making, Removed, Iterating
  <2> QED
    BY <2>3, <2>4
<1>8. CASE PullItemsEnd(u)
  <2>1. TypeOK' /\ OthersWait(u) /\ Kept
    BY <1>8 DEF PullItemsEnd, TypeOK, Points, OthersWait, Producing, Making
  <2>2. Holds(u)'
    BY <1>1, <1>8 DEF PullItemsEnd, Holds, TypeOK, Making, Removed, Iterating
  <2> QED
    BY <2>1, <2>2
<1> QED
  BY <1>2, <1>3, <1>4, <1>5, <1>6, <1>7, <1>8

\* What a handler makes a consumer for is a producer, and the user it is for is
\* not the producer's owner.
LEMMA MakingIsTyped ==
  ASSUME Base, NEW u \in Users, pc[u] \in Making
  PROVE  /\ item[u] \in Producers /\ cur[u] \in producers[u]
         /\ ListOf(u) \in Users /\ ConsumerOf(u) \in Consumers
         /\ ConsumerOf(u).producer = item[u]
         /\ item[u] \in started \ producers[ListOf(u)]
<1>1. cur[u] \in producers[u] /\ item[u] \in started
  BY DEF Base, Handled, About, InHand, Holds, Producing
<1>2. item[u] \in Producers
  BY <1>1 DEF Base, TypeOK
<1>3. ListOf(u) \in Users /\ item[u] \notin producers[ListOf(u)]
  BY <1>1 DEF Base, InHand, Holds, ListOf, Owned
<1>4. ConsumerOf(u) \in Consumers /\ ConsumerOf(u).producer = item[u]
  BY <1>2 DEF ConsumerOf, Consumers
<1> QED
  BY <1>1, <1>2, <1>3, <1>4

\* A consumer is made.
LEMMA ConsumerBase ==
  ASSUME Base, NEW u \in Users,
         AddConsumerScan(u) \/ AddConsumerReset(u) \/ AddConsumerLoad(u)
         \/ AddConsumerStore(u)
         \/ ResetMid(u) \/ CreateConsumer(u) \/ RequestNewConsumer(u)
  PROVE  Base' /\ OthersWait(u)
<1> USE DEF At, Goto, tables, iteration, making, sent, aux
<1>0. pc[u] \in Making
  BY DEF Making, AddConsumerScan, AddConsumerReset, AddConsumerLoad, AddConsumerStore,
     ResetMid, CreateConsumer, RequestNewConsumer
<1>1. item[u] \in Producers /\ cur[u] \in producers[u] /\ ListOf(u) \in Users
      /\ ConsumerOf(u) \in Consumers /\ ConsumerOf(u).producer = item[u]
      /\ item[u] \in started \ producers[ListOf(u)]
  BY <1>0, MakingIsTyped
<1>2. Holds(u) /\ TypeOK
  BY DEF Base, InHand
<1> DEFINE Kept == /\ UNCHANGED <<users, left, producers, started, asMember, closed,
                                  finished>>
                   /\ pc'[u] \in Producing /\ cur' = cur
           Entry == [consumer |-> ConsumerOf(u), mid |-> mid[u]]
           Tells == \/ UNCHANGED told
                    \/ told' = [told EXCEPT ![ListOf(u)] = @ \cup {Entry}]
<1> SUFFICES TypeOK' /\ OthersWait(u) /\ Kept /\ Holds(u)' /\ Tells
  <2>1. ASSUME Kept PROVE About(u)' /\ pc[u] # "idle" /\ cur'[u] = cur[u]
    BY <1>0, <2>1 DEF Base, Handled, About, Producing, Making, Closing, Removed
  <2>2. ASSUME Tells, NEW v \in Users, NEW e \in told'[v]
        PROVE  e \in told[v] \/ e.consumer.producer \in started \ producers[v]
    <3>1. told'[v] \subseteq told[v] \cup {Entry} /\ (v # ListOf(u) => told'[v] = told[v])
      <4>1. CASE UNCHANGED told
        BY <4>1
      <4>2. CASE told' = [told EXCEPT ![ListOf(u)] = @ \cup {Entry}]
        BY <1>1, <1>2, <4>2 DEF TypeOK
      <4> QED
        BY <2>2, <4>1, <4>2
    <3>2. Entry.consumer.producer = item[u]
      BY <1>1
    <3> QED
      BY <1>1, <2>2, <3>1, <3>2
  <2> QED
    BY <2>1, <2>2, HandlerBase
<1>3. CASE AddConsumerScan(u)
  <2>1. pc[u] = "scanPush" => peer[u] \in Users
    BY <1>0, <1>2 DEF Holds
  <2>2. /\ raced' \in {raced, raced \cup {peer[u]}} /\ (pc[u] # "scanPush" => raced' = raced)
        /\ item' \in {item, [item EXCEPT ![u] = NoProducer]}
        /\ \E q \in {"reset", "load", "pullItems", "mid"} : pc' = [pc EXCEPT ![u] = q]
    BY <1>3 DEF AddConsumerScan
  <2>6. raced' \subseteq Users
    BY <1>2, <2>1, <2>2 DEF TypeOK
  <2>7. pc' \in [Users -> Points] /\ item' \in [Users -> Producers \cup {NoProducer}]
    <3>1. item' \in [Users -> Producers \cup {NoProducer}]
      BY <1>2, <2>2 DEF TypeOK
    <3>2. pc' \in [Users -> Points]
      BY <1>2, <2>2 DEF TypeOK, Points
    <3> QED
      BY <3>1, <3>2
  <2>8. UNCHANGED <<tables, cur, iteration, snap, mid, gone, sent, started,
                    asMember, finished, closed, due, missed>>
    BY <1>3 DEF AddConsumerScan
  <2>3. TypeOK'
    BY <1>2, <2>6, <2>7, <2>8 DEF TypeOK
  <2>4. OthersWait(u) /\ Kept /\ Tells
    BY <1>2, <1>3 DEF AddConsumerScan, TypeOK, OthersWait, Producing, Making
  <2>5. Holds(u)'
    BY <1>1, <1>2, <1>3 DEF AddConsumerScan, Holds, TypeOK, Making, Removed, Iterating
  <2> QED
    BY <2>3, <2>4, <2>5
<1>4. CASE AddConsumerLoad(u)
  <2>1. TypeOK' /\ OthersWait(u) /\ Kept /\ Tells
    BY <1>1, <1>2, <1>4 DEF AddConsumerLoad, TypeOK, Points, OthersWait, Producing, Making
  <2>2. Holds(u)'
    BY <1>0, <1>1, <1>2, <1>4 DEF AddConsumerLoad, Holds, TypeOK, Making, Removed, Iterating
  <2> QED
    BY <2>1, <2>2
<1>8. CASE AddConsumerReset(u)
  <2>1. <<>> \in Seq(Consumers)
    OBVIOUS
  <2>2. TypeOK' /\ OthersWait(u) /\ Kept /\ Tells
    BY <1>1, <1>2, <1>8, <2>1 DEF AddConsumerReset, TypeOK, Points, OthersWait,
       Producing, Making
  <2>3. Holds(u)'
    BY <1>0, <1>1, <1>2, <1>8 DEF AddConsumerReset, Holds, TypeOK, Making, Removed,
       Iterating
  <2> QED
    BY <2>2, <2>3
<1>5. CASE AddConsumerStore(u)
  <2>1. Append(snap[u], ConsumerOf(u)) \in Seq(Consumers)
    BY <1>1, <1>2 DEF TypeOK
  <2>2. TypeOK' /\ OthersWait(u) /\ Kept /\ Tells
    BY <1>1, <1>2, <1>5, <2>1 DEF AddConsumerStore, TypeOK, Points, OthersWait,
       Producing, Making
  <2>3. Holds(u)'
    BY <1>0, <1>1, <1>2, <1>5 DEF AddConsumerStore, Holds, TypeOK, Making, Removed, Iterating
  <2> QED
    BY <2>2, <2>3
<1>6. CASE ResetMid(u) \/ CreateConsumer(u)
  <2>1. Len(consumers[ListOf(u)]) \in Nat
    BY <1>1, <1>2 DEF TypeOK
  <2>2. mid' \in [Users -> Nat] /\ pc' \in [Users -> Points]
        /\ UNCHANGED <<tables, cur, iteration, item, snap, gone, sent, aux>>
    <3>1. CASE ResetMid(u)
      BY <1>2, <2>1, <3>1 DEF ResetMid, TypeOK, Points
    <3>2. CASE CreateConsumer(u)
      BY <1>2, <3>2 DEF CreateConsumer, TypeOK, Points
    <3> QED
      BY <1>6, <3>1, <3>2
  <2>4. TypeOK'
    BY <1>2, <2>2 DEF TypeOK
  <2>5. OthersWait(u) /\ Kept /\ Tells
    BY <1>2, <1>6 DEF ResetMid, CreateConsumer, TypeOK, OthersWait, Producing, Making
  <2>3. Holds(u)'
    BY <1>0, <1>1, <1>2, <1>6 DEF ResetMid, CreateConsumer, Holds, TypeOK, Making,
       Removed, Iterating
  <2> QED
    BY <2>3, <2>4, <2>5
<1>7. CASE RequestNewConsumer(u)
  <2>1. Entry \in [consumer : Consumers, mid : Nat]
    BY <1>1, <1>2 DEF TypeOK
  <2>2. TypeOK' /\ OthersWait(u) /\ Kept /\ Tells
    BY <1>1, <1>2, <1>7, <2>1 DEF RequestNewConsumer, TypeOK, Points, OthersWait,
       Producing, Making
  <2>3. Holds(u)'
    BY <1>0, <1>1, <1>2, <1>7 DEF RequestNewConsumer, Holds, TypeOK, Making, Removed,
       Iterating
  <2> QED
    BY <2>2, <2>3
<1> QED
  BY <1>3, <1>4, <1>5, <1>6, <1>7, <1>8

\* The place of a list that removeConsumerByProducerId finds.
LEMMA FirstForFinds ==
  ASSUME TypeOK, NEW v \in Users, NEW p, Exists(v, p)
  PROVE  FirstFor(v, p) \in DOMAIN consumers[v]
         /\ consumers[v][FirstFor(v, p)].producer = p
<1> DEFINE T == {i \in DOMAIN consumers[v] : consumers[v][i].producer = p}
<1>1. T \subseteq Nat /\ T # {}
  BY DEF TypeOK, Exists
<1>2. PICK i \in T : \A j \in T : <<j, i>> \notin OpToRel(<, Nat)
  BY <1>1, NatLessThanWellFounded, WFMin
<1>3. ASSUME NEW j \in 1..(i - 1) PROVE consumers[v][j].producer # p
  <2>1. j \in DOMAIN consumers[v] /\ j < i /\ j \in Nat /\ i \in Nat
    BY <1>1, <1>3 DEF TypeOK
  <2>2. <<j, i>> \in OpToRel(<, Nat)
    BY <2>1 DEF OpToRel
  <2> QED
    BY <1>2, <2>1, <2>2
<1> QED
  BY <1>2, <1>3 DEF FirstFor

\* What moving the rest of a list down does to it.
LEMMA MoveDownPlaces ==
  ASSUME NEW s \in Seq(Consumers), NEW i \in DOMAIN s
  PROVE  /\ MoveDown(s, i) \in Seq(Consumers)
         /\ Len(MoveDown(s, i)) = Len(s)
         /\ \A j \in DOMAIN MoveDown(s, i) :
              \E k \in DOMAIN s : MoveDown(s, i)[j] = s[k]
         /\ \A k \in DOMAIN s : k # i =>
              \E j \in DOMAIN MoveDown(s, i) : MoveDown(s, i)[j] = s[k]
<1> DEFINE t == MoveDown(s, i)
<1>1. DOMAIN s = 1..Len(s) /\ Len(s) \in Nat /\ i \in 1..Len(s)
  OBVIOUS
<1>2. \A j \in 1..Len(s) : t[j] = IF j \in i..(Len(s) - 1) THEN s[j + 1] ELSE s[j]
  BY DEF MoveDown
<1>3. \A j \in 1..Len(s) : t[j] \in Consumers /\ \E k \in DOMAIN s : t[j] = s[k]
  BY <1>1, <1>2
<1>4. t \in [1..Len(s) -> Consumers]
  BY <1>3 DEF MoveDown
<1>5. t \in Seq(Consumers) /\ Len(t) = Len(s)
  BY <1>1, <1>4
<1>6. ASSUME NEW k \in DOMAIN s, k # i PROVE \E j \in DOMAIN t : t[j] = s[k]
  <2> HIDE DEF t
  <2>1. CASE k < i
    BY <1>1, <1>2, <1>5, <2>1
  <2>2. CASE k > i
    <3>1. k - 1 \in i..(Len(s) - 1) /\ k - 1 \in DOMAIN t /\ (k - 1) + 1 = k
      BY <1>1, <1>5, <2>2
    <3>2. k - 1 \in 1..Len(s)
      BY <1>1, <2>2
    <3>3. t[k - 1] = s[(k - 1) + 1]
      BY <1>2, <3>1, <3>2
    <3> QED
      BY <3>1, <3>3
  <2> QED
    BY <1>1, <1>6, <2>1, <2>2
<1>7. \A j \in DOMAIN t : \E k \in DOMAIN s : t[j] = s[k]
  <2> HIDE DEF t
  <2> QED
    BY <1>1, <1>3, <1>5
<1> QED
  BY <1>5, <1>6, <1>7

\* The handler of a close of p begins: no other is about p.
LEMMA CloseProducerBase ==
  ASSUME Base, NEW u \in Users, NEW p \in Producers, CloseProducer(u, p)
  PROVE  Base' /\ OthersWait(u)
<1> USE DEF Base, CloseProducer, At, Goto, tables, iteration, making, sent
<1>1. due' \subseteq Users \X Consumers
  <2>1. ASSUME NEW v \in users, NEW e \in told[v]
        PROVE  <<v, e.consumer>> \in Users \X Consumers
    BY DEF TypeOK
  <2> QED
    BY <2>1 DEF TypeOK
<1>2. TypeOK'
  BY <1>1 DEF TypeOK, Points
<1>3. pc'[u] = "close" /\ cur'[u] = p /\ OthersWait(u)
  BY DEF TypeOK, OthersWait
<1>4. Owned' /\ Outside'
  BY DEF Owned, Outside
<1>5. ASSUME NEW v \in Users, v # u, pc[v] # "idle" PROVE cur[v] # p
  <2>1. pc[v] \in Producing \/ pc[v] \in Closing \/ pc[v] \in Removed
    BY <1>5 DEF TypeOK, Points, Producing, Making, Closing, Removed
  <2>2. About(v)
    BY DEF Handled
  <2> QED
    BY <1>5, <2>1, <2>2 DEF About, Owned
<1>6. ASSUME NEW v \in Users PROVE About(v)'
  BY <1>3 DEF Handled, About, OthersWait, Producing, Making, Closing, Removed
<1>7. Handled'
  BY <1>3, <1>5, <1>6 DEF Handled, OthersWait
<1>8. ASSUME NEW v \in Users PROVE Holds(v)'
  BY <1>3 DEF InHand, Holds, OthersWait, Making, Removed, Iterating
<1> QED
  BY <1>2, <1>3, <1>4, <1>7, <1>8 DEF InHand

\* removeProducer takes a producer from its owner's list.
LEMMA RemoveProducerBase ==
  ASSUME Base, NEW u \in Users, RemoveProducer(u)
  PROVE  Base' /\ OthersWait(u)
<1> USE DEF Base, RemoveProducer, At, Goto, StartRange, making, sent, aux
<1>1. TypeOK'
  BY DEF TypeOK, Points
<1>2. pc'[u] = "unconsume" /\ OthersWait(u) /\ cur' = cur /\ pull' = pull /\ seen'[u] = {u}
  BY DEF TypeOK, OthersWait
<1>3. producers'[u] = producers[u] \ {cur[u]} /\ cur[u] \in producers[u]
  BY DEF TypeOK, Handled, About, Closing
<1>4. \A v \in Users : v # u => producers'[v] = producers[v]
  BY DEF TypeOK
<1>5. Owned' /\ Outside'
  BY <1>3, <1>4 DEF Owned, Outside
<1>6. ASSUME NEW v \in Users PROVE About(v)'
  <2>1. CASE v = u
    BY <1>2, <1>3, <1>4, <2>1 DEF About, Owned, Producing, Making, Closing, Removed
  <2>2. CASE v # u
    BY <1>2, <1>3, <1>4, <2>2 DEF Handled, About, OthersWait
  <2> QED
    BY <2>1, <2>2
<1>7. Handled'
  BY <1>2, <1>6 DEF Handled, OthersWait
<1>8. ASSUME NEW v \in Users PROVE Holds(v)'
  <2>1. CASE v = u
    BY <1>2, <1>3, <2>1 DEF InHand, Holds, Making, Removed, Iterating
  <2>2. CASE v # u
    BY <1>2, <1>4, <2>2 DEF InHand, Holds, OthersWait
  <2> QED
    BY <2>1, <2>2
<1> QED
  BY <1>1, <1>2, <1>5, <1>7, <1>8 DEF InHand

\* removeConsumerByProducerId comes to a list: the consumer it finds there.
LEMMA RemovalFinds ==
  ASSUME TypeOK, NEW u \in Users, RemoveConsumer(u)
  PROVE  \E v \in Users :
          /\ ComeTo(u, v)
          /\ raced' = IF AddersTo(v) # {} THEN raced \cup {v} ELSE raced
          /\ \/ /\ ~Exists(v, cur[u]) /\ UNCHANGED <<gone, consumers>>
             \/ \E i \in DOMAIN consumers[v] :
                  /\ consumers[v][i].producer = cur[u]
                  /\ gone' = [gone EXCEPT ![u] = @ \cup {<<v, consumers[v][i]>>}]
                  /\ consumers' = [consumers EXCEPT ![v] = MoveDown(@, i)]
<1>1. PICK v \in {v \in Users : consumers[v] # <<>>} :
        LET i == FirstFor(v, cur[u]) IN
        /\ ComeTo(u, v)
        /\ raced' = IF AddersTo(v) # {} THEN raced \cup {v} ELSE raced
        /\ IF Exists(v, cur[u])
           THEN /\ gone' = [gone EXCEPT ![u] = @ \cup {<<v, consumers[v][i]>>}]
                /\ consumers' = [consumers EXCEPT ![v] = MoveDown(@, i)]
           ELSE UNCHANGED <<gone, consumers>>
  BY DEF RemoveConsumer
<1>2. CASE Exists(v, cur[u])
  <2>1. FirstFor(v, cur[u]) \in DOMAIN consumers[v]
        /\ consumers[v][FirstFor(v, cur[u])].producer = cur[u]
    BY <1>2, FirstForFinds
  <2> QED
    BY <1>1, <1>2, <2>1
<1>3. CASE ~Exists(v, cur[u])
  BY <1>1, <1>3
<1> QED
  BY <1>2, <1>3

\* What it does to the lists, and has in hand afterwards.
LEMMA RemovalLists ==
  ASSUME TypeOK, NEW u \in Users, RemoveConsumer(u)
  PROVE  \E v \in Users :
          /\ ComeTo(u, v)
          /\ raced' = IF AddersTo(v) # {} THEN raced \cup {v} ELSE raced
          /\ \A w \in Users : w # v => consumers'[w] = consumers[w]
          /\ Len(consumers'[v]) = Len(consumers[v])
          /\ \A j \in DOMAIN consumers'[v] : \E k \in DOMAIN consumers[v] :
                consumers'[v][j] = consumers[v][k]
          /\ \A k \in DOMAIN consumers[v] : consumers[v][k].producer # cur[u] =>
                \E j \in DOMAIN consumers'[v] : consumers'[v][j] = consumers[v][k]
          /\ gone[u] \subseteq gone'[u]
          /\ Exists(v, cur[u]) => \E k \in DOMAIN consumers[v] :
                /\ consumers[v][k].producer = cur[u]
                /\ <<v, consumers[v][k]>> \in gone'[u]
<1>1. PICK v \in Users :
          /\ ComeTo(u, v)
          /\ raced' = IF AddersTo(v) # {} THEN raced \cup {v} ELSE raced
          /\ \/ /\ ~Exists(v, cur[u]) /\ UNCHANGED <<gone, consumers>>
             \/ \E i \in DOMAIN consumers[v] :
                  /\ consumers[v][i].producer = cur[u]
                  /\ gone' = [gone EXCEPT ![u] = @ \cup {<<v, consumers[v][i]>>}]
                  /\ consumers' = [consumers EXCEPT ![v] = MoveDown(@, i)]
  BY RemovalFinds
<1>2. CASE ~Exists(v, cur[u]) /\ UNCHANGED <<gone, consumers>>
  BY <1>1, <1>2
<1>3. ASSUME NEW i \in DOMAIN consumers[v],
             consumers[v][i].producer = cur[u],
             gone' = [gone EXCEPT ![u] = @ \cup {<<v, consumers[v][i]>>}],
             consumers' = [consumers EXCEPT ![v] = MoveDown(@, i)]
      PROVE  /\ \A w \in Users : w # v => consumers'[w] = consumers[w]
             /\ Len(consumers'[v]) = Len(consumers[v])
             /\ \A j \in DOMAIN consumers'[v] : \E k \in DOMAIN consumers[v] :
                   consumers'[v][j] = consumers[v][k]
             /\ \A k \in DOMAIN consumers[v] : consumers[v][k].producer # cur[u] =>
                   \E j \in DOMAIN consumers'[v] : consumers'[v][j] = consumers[v][k]
             /\ gone[u] \subseteq gone'[u] /\ <<v, consumers[v][i]>> \in gone'[u]
  <2>1. consumers'[v] = MoveDown(consumers[v], i)
        /\ \A w \in Users : w # v => consumers'[w] = consumers[w]
    BY <1>3 DEF TypeOK
  <2>2. consumers[v] \in Seq(Consumers)
    BY DEF TypeOK
  <2>3. /\ Len(consumers'[v]) = Len(consumers[v])
        /\ \A j \in DOMAIN consumers'[v] : \E k \in DOMAIN consumers[v] :
                   consumers'[v][j] = consumers[v][k]
        /\ \A k \in DOMAIN consumers[v] : k # i =>
                   \E j \in DOMAIN consumers'[v] : consumers'[v][j] = consumers[v][k]
    <3> DEFINE m == MoveDown(consumers[v], i)
    <3>1. /\ Len(m) = Len(consumers[v])
          /\ \A j \in DOMAIN m : \E k \in DOMAIN consumers[v] : m[j] = consumers[v][k]
          /\ \A k \in DOMAIN consumers[v] : k # i =>
                   \E j \in DOMAIN m : m[j] = consumers[v][k]
      BY <2>2, MoveDownPlaces
    <3>2. consumers'[v] = m
      BY <2>1
    <3> HIDE DEF m
    <3> QED
      BY <3>1, <3>2
  <2>4. gone[u] \subseteq gone'[u] /\ <<v, consumers[v][i]>> \in gone'[u]
    BY <1>3 DEF TypeOK
  <2> QED
    BY <1>3, <2>1, <2>3, <2>4
<1> QED
  BY <1>1, <1>2, <1>3

\* The iteration of a close comes to a list, and its notifications are sent.
LEMMA CloseRangeBase ==
  ASSUME Base, NEW u \in Users,
         CloseProducerOnWorker(u) \/ RemoveConsumer(u) \/ RemoveConsumersEnd(u)
         \/ NotifyConsumerClosed(u)
  PROVE  Base' /\ OthersWait(u)
<1> USE DEF Base, At, Goto, tables, iteration, making, sent, aux
<1> DEFINE Kept == /\ UNCHANGED <<users, left, producers, started, asMember, closed,
                                  finished, told>>
                   /\ OthersWait(u)
                   /\ \/ pc[u] \in Closing /\ pc'[u] \in Closing
                      \/ pc[u] \in Removed /\ pc'[u] \in Removed /\ seen[u] \subseteq seen'[u]
                   /\ cur' = cur /\ pull' = pull
<1> SUFFICES TypeOK' /\ Kept
  <2>1. ASSUME Kept PROVE About(u)' /\ pc[u] # "idle" /\ cur'[u] = cur[u]
    BY <2>1 DEF Handled, About, Producing, Making, Closing, Removed
  <2>2. ASSUME Kept PROVE Holds(u)'
    BY <2>2 DEF InHand, Holds, Making, Closing, Removed, Iterating
  <2> QED
    BY <2>1, <2>2, HandlerBase
<1>1. CASE CloseProducerOnWorker(u)
  BY <1>1 DEF CloseProducerOnWorker, TypeOK, Points, OthersWait, Closing
<1>2. CASE RemoveConsumersEnd(u)
  BY <1>2 DEF RemoveConsumersEnd, TypeOK, Points, OthersWait, Removed
<1>3. CASE NotifyConsumerClosed(u)
  <2>1. PICK g \in gone[u] :
            /\ gone' = [gone EXCEPT ![u] = @ \ {g}]
            /\ toldClosed' = IF g[1] \in users
                             THEN [toldClosed EXCEPT ![g[1]] = @ \cup {g[2]}]
                             ELSE toldClosed
    BY <1>3 DEF NotifyConsumerClosed
  <2>2. g[1] \in Users /\ g[2] \in Consumers
    BY <2>1 DEF TypeOK
  <2>3. gone' \in [Users -> SUBSET (Users \X Consumers)]
        /\ toldClosed' \in [Users -> SUBSET Consumers]
    BY <2>1, <2>2 DEF TypeOK
  <2> QED
    BY <1>3, <2>3 DEF NotifyConsumerClosed, TypeOK, OthersWait, Removed
<1>4. CASE RemoveConsumer(u)
  <2>1. PICK v \in Users :
          /\ ComeTo(u, v)
          /\ raced' = IF AddersTo(v) # {} THEN raced \cup {v} ELSE raced
          /\ \/ /\ ~Exists(v, cur[u]) /\ UNCHANGED <<gone, consumers>>
             \/ \E i \in DOMAIN consumers[v] :
                  /\ consumers[v][i].producer = cur[u]
                  /\ gone' = [gone EXCEPT ![u] = @ \cup {<<v, consumers[v][i]>>}]
                  /\ consumers' = [consumers EXCEPT ![v] = MoveDown(@, i)]
    BY <1>4, RemovalFinds
  <2>2. consumers' \in [Users -> Seq(Consumers)]
        /\ gone' \in [Users -> SUBSET (Users \X Consumers)]
    <3>1. CASE UNCHANGED <<gone, consumers>>
      BY <3>1 DEF TypeOK
    <3>2. CASE ~UNCHANGED <<gone, consumers>>
      <4>1. PICK i \in DOMAIN consumers[v] :
                  /\ gone' = [gone EXCEPT ![u] = @ \cup {<<v, consumers[v][i]>>}]
                  /\ consumers' = [consumers EXCEPT ![v] = MoveDown(@, i)]
        BY <2>1, <3>2
      <4>2. consumers[v] \in Seq(Consumers) /\ consumers[v][i] \in Consumers
        BY DEF TypeOK
      <4>3. MoveDown(consumers[v], i) \in Seq(Consumers)
        BY <4>2, MoveDownPlaces
      <4> QED
        BY <4>1, <4>2, <4>3 DEF TypeOK
    <3> QED
      BY <3>1, <3>2
  <2>3. raced' \subseteq Users
    BY <2>1 DEF TypeOK
  <2>4. TypeOK'
    <3>1. /\ ComeTo(u, v)
          /\ UNCHANGED <<users, left, producers, pc, cur, base, pull, making, sent,
                         started, asMember, finished, closed, due, missed>>
      BY <1>4, <2>1 DEF RemoveConsumer
    <3>2. todo' \in [Users -> SUBSET Users] /\ seen' \in [Users -> SUBSET Users]
          /\ peer' \in [Users -> Users \cup {NoUser}]
      BY <3>1 DEF ComeTo, TypeOK
    <3> QED
      BY <2>2, <2>3, <3>1, <3>2 DEF TypeOK
  <2>5. Kept
    BY <1>4, <2>1 DEF RemoveConsumer, ComeTo, TypeOK, OthersWait, Removed
  <2> QED
    BY <2>4, <2>5
<1> QED
  BY <1>1, <1>2, <1>3, <1>4

\* A handler returns: its producer is finished, or closed.
LEMMA ReturnsBase ==
  ASSUME Base, NEW u \in Users, PullEnds(u) \/ CloseEnds(u)
  PROVE  Base' /\ OthersWait(u)
<1> USE DEF Base, At, Goto, Returns, tables, making, sent
<1>1. TypeOK'
  <2>1. cur[u] \in Producers
    BY DEF PullEnds, CloseEnds, Handled, About, Producing, Removed, TypeOK
  <2>2. CASE PullEnds(u)
    BY <2>1, <2>2 DEF PullEnds, TypeOK, Points
  <2>3. CASE CloseEnds(u)
    BY <2>1, <2>3 DEF CloseEnds, TypeOK, Points
  <2> QED
    BY <2>2, <2>3
<1>2. pc[u] # "idle" /\ pc'[u] = "idle" /\ OthersWait(u) /\ pull' = pull /\ pull[u] = {}
      /\ UNCHANGED <<users, left, producers, told, started, asMember>>
  <2>1. pull[u] = {}
    BY DEF PullEnds, CloseEnds, InHand, Holds, Making
  <2> QED
    BY <2>1 DEF PullEnds, CloseEnds, TypeOK, OthersWait
<1>3. /\ finished' \subseteq finished \cup {cur[u]} /\ closed' \subseteq closed \cup {cur[u]}
      /\ cur[u] \in started
      /\ cur[u] \notin finished' => \A v \in Users : cur[u] \notin producers[v]
      /\ closed' # closed => \A v \in Users : cur[u] \notin producers[v]
  BY DEF PullEnds, CloseEnds, Handled, About, Producing, Removed, Owned
<1>4. Owned' /\ Outside'
  BY <1>2, <1>3 DEF Owned, Outside
<1>5. ASSUME NEW v \in Users PROVE About(v)'
  <2>1. CASE v = u
    BY <1>2, <2>1 DEF About, Producing, Making, Closing, Removed
  <2>2. CASE v # u
    <3>1. About(v) /\ pc'[v] = pc[v] /\ cur'[v] = cur[v]
      BY <1>2, <2>2 DEF Handled, OthersWait
    <3>2. pc[v] # "idle" => cur[v] # cur[u]
      BY <1>2, <2>2 DEF Handled
    <3>3. CASE pc[v] = "idle"
      BY <3>1, <3>3 DEF About, Producing, Making, Closing, Removed
    <3>4. CASE pc[v] # "idle"
      BY <1>2, <1>3, <3>1, <3>2, <3>4 DEF About
    <3> QED
      BY <3>3, <3>4
  <2> QED
    BY <2>1, <2>2
<1>6. Handled'
  BY <1>2, <1>5 DEF Handled, OthersWait
<1>7. ASSUME NEW v \in Users PROVE Holds(v)'
  BY <1>2 DEF InHand, Holds, OthersWait, Making, Removed, Iterating
<1> QED
  BY <1>1, <1>2, <1>4, <1>6, <1>7 DEF InHand

\* Base holds in every state.
THEOREM BaseInvariance == Spec => []Base
<1>1. Base /\ [Next]_vars => Base'
  <2> SUFFICES ASSUME Base, [Next]_vars PROVE Base'
    OBVIOUS
  <2>1. CASE UNCHANGED vars
    BY <2>1 DEF vars, tables, iteration, making, sent, aux, Base, TypeOK, Owned,
       Handled, About, InHand, Holds, Outside
  <2>2. CASE Next
    BY <2>2, MembersBase, ProduceBase, RangeBase, ConsumerBase, ReturnsBase,
       CloseProducerBase, CloseRangeBase, RemoveProducerBase
       DEF Next, ProduceStep, CloseStep
  <2> QED
    BY <2>1, <2>2
<1> QED
  BY InitBase, <1>1, PTL DEF Spec

-----------------------------------------------------------------------------
(* Who will be told of what                                                 *)

\* A handler that does not leave its consumer untold keeps what is known.
LEMMA KnownStays ==
  ASSUME Base, NEW u \in Users, OthersWait(u),
         \A w \in Users : told[w] \subseteq told'[w],
         \/ pc[u] \notin Listed
         \/ pc'[u] \in Listed /\ item'[u] = item[u] /\ cur'[u] = cur[u] /\ peer'[u] = peer[u]
         \/ \E e \in told'[ListOf(u)] : e.consumer.producer = item[u],
         NEW v \in Users, NEW p, Known(v, p)
  PROVE  Known(v, p)'
<1>1. CASE Has(v, p)
  BY <1>1 DEF Has, Known
<1>2. CASE Telling(v, p)
  <2>1. PICK h \in Users : pc[h] \in Listed /\ ListOf(h) = v /\ item[h] = p
    BY <1>2 DEF Telling
  <2>2. CASE h # u
    BY <2>1, <2>2 DEF Known, Telling, OthersWait, ListOf
  <2>3. CASE h = u
    BY <2>1, <2>3 DEF Known, Telling, Has, ListOf
  <2> QED
    BY <2>2, <2>3
<1> QED
  BY <1>1, <1>2 DEF Known

\* Told is told: no step takes anything back.
LEMMA ToldGrows ==
  ASSUME Base, NEW u \in Users, ProduceStep(u) \/ CloseStep(u)
  PROVE  \A w \in Users : told[w] \subseteq told'[w]
<1>1. CASE RequestNewConsumer(u)
  BY <1>1 DEF RequestNewConsumer, Base, TypeOK
<1>2. CASE ~RequestNewConsumer(u)
  <2>1. UNCHANGED told
    BY <1>2 DEF ProduceStep, CloseStep, Produce, CreateProducer, PushNext, PushEnds,
       PullNext, PullItem, PullMisses, PullItemsEnd, PullEnds, AddConsumerScan,
       AddConsumerReset, AddConsumerLoad, AddConsumerStore, ResetMid, CreateConsumer,
       CloseProducer, CloseProducerOnWorker, RemoveProducer, RemoveConsumer,
       RemoveConsumersEnd, NotifyConsumerClosed, CloseEnds, sent
  <2> QED
    BY <2>1
<1> QED
  BY <1>1, <1>2

\* What is known stays known.
LEMMA KnownStep ==
  ASSUME Base, NEW u \in Users, OthersWait(u), ProduceStep(u) \/ CloseStep(u)
  PROVE  \A v \in Users : \A p : Known(v, p) => Known(v, p)'
<1>1. \A w \in Users : told[w] \subseteq told'[w]
  BY ToldGrows
<1>2. CASE pc[u] \notin Listed
  BY <1>1, <1>2, KnownStays
<1>3. CASE pc[u] \in Listed
  <2>1. ResetMid(u) \/ CreateConsumer(u) \/ RequestNewConsumer(u)
    BY <1>3 DEF Listed, At, ProduceStep, CloseStep, Produce, CreateProducer, PushNext,
       PushEnds, PullNext, PullItem, PullMisses, PullItemsEnd, PullEnds,
       AddConsumerScan, AddConsumerReset, AddConsumerLoad, AddConsumerStore,
       CloseProducer, CloseProducerOnWorker, RemoveProducer, RemoveConsumer,
       RemoveConsumersEnd, NotifyConsumerClosed, CloseEnds
  <2>2. CASE ResetMid(u) \/ CreateConsumer(u)
    <3>1. pc'[u] \in Listed /\ item' = item /\ cur' = cur /\ peer' = peer
      BY <2>2 DEF ResetMid, CreateConsumer, Goto, iteration, making, Listed, Base, TypeOK
    <3> QED
      BY <1>1, <3>1, KnownStays
  <2>3. CASE RequestNewConsumer(u)
    <3>1. ListOf(u) \in Users /\ ConsumerOf(u).producer = item[u]
      BY <1>3, MakingIsTyped DEF Listed, Making
    <3>2. [consumer |-> ConsumerOf(u), mid |-> mid[u]] \in told'[ListOf(u)]
      BY <2>3, <3>1 DEF RequestNewConsumer, Base, TypeOK
    <3>3. \E e \in told'[ListOf(u)] : e.consumer.producer = item[u]
      BY <3>1, <3>2
    <3> QED
      BY <1>1, <3>3, KnownStays
  <2> QED
    BY <2>1, <2>2, <2>3
<1> QED
  BY <1>2, <1>3

\* Lists and loaded lists.
LEMMA PendingStep ==
  ASSUME Base, Base', Pending, NEW u \in Users, OthersWait(u),
         ProduceStep(u) \/ CloseStep(u)
  PROVE  Pending'
<1>1. \A v \in Users : \A p : Known(v, p) => Known(v, p)'
  BY KnownStep
<1>2. \A h \in Users : h # u => ListOf(h)' = ListOf(h)
  BY DEF OthersWait, ListOf
<1>3. \A h \in Users : h # u => (pc[h] = "store" => ListOf(h) \in Users)
  BY MakingIsTyped DEF Making
<1> DEFINE P1 == \A v \in Users : \A i \in DOMAIN consumers[v] :
                    Known(v, consumers[v][i].producer)
           P2(h) == pc[h] = "store" => \A i \in DOMAIN snap[h] :
                    Known(ListOf(h), snap[h][i].producer)
<1>4. ASSUME NEW h \in Users, h # u PROVE P2(h)'
  BY <1>1, <1>2, <1>3, <1>4 DEF Pending, OthersWait
<1>5. CASE AddConsumerLoad(u)
  <2>1. ListOf(u)' = ListOf(u) /\ snap'[u] = consumers[ListOf(u)] /\ consumers' = consumers
    BY <1>5 DEF AddConsumerLoad, iteration, tables, ListOf, Base, TypeOK
  <2>2. ListOf(u) \in Users
    BY <1>5, MakingIsTyped DEF AddConsumerLoad, At, Making
  <2>3. P2(u)'
    BY <1>1, <2>1, <2>2 DEF Pending
  <2>4. P1'
    BY <1>1, <2>1 DEF Pending
  <2> QED
    BY <1>4, <2>3, <2>4 DEF Pending
<1>6. CASE AddConsumerStore(u)
  <2>1. pc[u] \in Making /\ pc[u] = "store"
    BY <1>6 DEF AddConsumerStore, At, Making
  <2>2. ListOf(u) \in Users /\ ConsumerOf(u) \in Consumers
        /\ ConsumerOf(u).producer = item[u]
    BY <2>1, MakingIsTyped
  <2>3. ListOf(u)' = ListOf(u) /\ item' = item /\ pc'[u] = "mid"
    BY <1>6 DEF AddConsumerStore, iteration, ListOf, Goto, Base, TypeOK
  <2>4. consumers'[ListOf(u)] = Append(snap[u], ConsumerOf(u))
        /\ \A v \in Users : v # ListOf(u) => consumers'[v] = consumers[v]
    BY <1>6, <2>2 DEF AddConsumerStore, Base, TypeOK
  <2>5. Known(ListOf(u), item[u])'
    BY <2>2, <2>3 DEF Known, Telling, Listed
  <2>6. snap[u] \in Seq(Consumers)
    BY DEF Base, TypeOK
  <2>7. ASSUME NEW i \in DOMAIN consumers'[ListOf(u)]
        PROVE  Known(ListOf(u), consumers[ListOf(u)][i].producer)'
    <3>1. i \in DOMAIN snap[u] => consumers'[ListOf(u)][i] = snap[u][i]
      BY <2>2, <2>4, <2>6
    <3>2. i \notin DOMAIN snap[u] => consumers'[ListOf(u)][i] = ConsumerOf(u)
      BY <2>2, <2>4, <2>6, <2>7
    <3>3. CASE i \in DOMAIN snap[u]
      BY <1>1, <2>1, <2>2, <2>3, <3>1, <3>3 DEF Pending
    <3>4. CASE i \notin DOMAIN snap[u]
      BY <2>2, <2>3, <2>5, <3>2, <3>4
    <3> QED
      BY <3>3, <3>4
  <2>8. P1'
    BY <1>1, <2>2, <2>3, <2>4, <2>7 DEF Pending
  <2>9. P2(u)'
    BY <2>3
  <2> QED
    BY <1>4, <2>8, <2>9 DEF Pending
<1>9. CASE AddConsumerReset(u)
  <2>1. \A v \in Users : consumers'[v] = consumers[v] \/ consumers'[v] = <<>>
    BY <1>9 DEF AddConsumerReset, Base, TypeOK
  <2>2. P1'
    BY <1>1, <2>1 DEF Pending
  <2>3. pc'[u] = "load"
    BY <1>9 DEF AddConsumerReset, Goto, Base, TypeOK
  <2>4. P2(u)'
    BY <2>3
  <2> QED
    BY <1>4, <2>2, <2>4 DEF Pending
<1>7. CASE RemoveConsumer(u)
  <2>1. TypeOK
    BY DEF Base
  <2>2. ASSUME NEW w \in Users, NEW i \in DOMAIN consumers'[w]
        PROVE  \E k \in DOMAIN consumers[w] : consumers'[w][i] = consumers[w][k]
    BY <1>7, <2>1, <2>2, RemovalLists
  <2>3. P1'
    BY <1>1, <2>2 DEF Pending
  <2>4. pc'[u] = "unconsume"
    BY <1>7 DEF RemoveConsumer, At
  <2>5. P2(u)'
    BY <2>4
  <2> QED
    BY <1>4, <2>3, <2>5 DEF Pending
<1>8. CASE ~(AddConsumerReset(u) \/ AddConsumerLoad(u) \/ AddConsumerStore(u)
             \/ RemoveConsumer(u))
  <2> USE DEF tables, Goto, At, Returns, Base, TypeOK
  <2>1. consumers' = consumers /\ pc'[u] # "store"
    <3>1. CASE CloseStep(u)
      BY <1>8, <3>1 DEF CloseStep, CloseProducer, CloseProducerOnWorker, RemoveProducer,
         RemoveConsumersEnd, NotifyConsumerClosed, CloseEnds
    <3>2. CASE AddConsumerScan(u) \/ ResetMid(u) \/ CreateConsumer(u)
               \/ RequestNewConsumer(u)
      BY <3>2 DEF AddConsumerScan, ResetMid, CreateConsumer, RequestNewConsumer
    <3>3. CASE CreateProducer(u) \/ PushNext(u) \/ PushEnds(u) \/ PullNext(u)
               \/ \E p \in Producers : Produce(u, p)
      BY <3>3 DEF Produce, CreateProducer, PushNext, PushEnds, PullNext
    <3>4. CASE PullItem(u) \/ PullMisses(u) \/ PullItemsEnd(u) \/ PullEnds(u)
      BY <3>4 DEF PullItem, PullMisses, PullItemsEnd, PullEnds
    <3> QED
      BY <1>8, <3>1, <3>2, <3>3, <3>4 DEF ProduceStep
  <2>2. P1' /\ P2(u)'
    BY <1>1, <2>1 DEF Pending
  <2> QED
    BY <1>4, <2>2 DEF Pending
<1> QED
  BY <1>5, <1>6, <1>7, <1>8, <1>9

\* Two producers of one kind whose owners are members, and have been since they
\* produced.
Pair(u, v, p, q) ==
    /\ u \in users /\ v \in users /\ u # v
    /\ p \in producers[u] /\ q \in producers[v] /\ KindOf[p] = KindOf[q]
    /\ {p, q} \subseteq asMember

\* What a step of a handler must leave of its own push and pull.
PushGoesOn(a) ==
    \A v \in Users, p, q \in Producers : Pair(a, v, p, q) /\ WillPush(a, p, v) =>
        WillPush(a, p, v)' \/ Has(v, p)'
PullGoesOn(a) ==
    \A u \in Users, p, q \in Producers : Pair(u, a, p, q) /\ WillPull(a, q, u, p) =>
        \/ WillPull(a, q, u, p)' \/ Has(a, p)' \/ (<<a, p>> \in missed)'
        \/ WillPush(u, p, a)'

\* Nothing else of Mesh rests on the handler.
LEMMA MeshGoesOn ==
  ASSUME Base, Base', Mesh, NEW a \in Users, OthersWait(a), PushGoesOn(a), PullGoesOn(a),
         \A w \in Users : told[w] \subseteq told'[w],
         missed \subseteq missed',
         \A u, v \in Users, p, q \in Producers : Pair(u, v, p, q)' => Pair(u, v, p, q)
  PROVE  Mesh'
<1> SUFFICES ASSUME NEW u \in Users, NEW v \in Users, NEW p \in Producers, NEW q \in Producers,
                    Pair(u, v, p, q)'
             PROVE  \/ Has(v, p)' \/ (<<v, p>> \in missed)'
                    \/ WillPush(u, p, v)' \/ WillPull(v, q, u, p)'
  BY DEF Mesh, Pair, Base, TypeOK
<1>1. Pair(u, v, p, q) /\ u # v
  BY DEF Pair
<1>2. Has(v, p) \/ <<v, p>> \in missed \/ WillPush(u, p, v) \/ WillPull(v, q, u, p)
  BY <1>1 DEF Mesh, Pair
<1>3. CASE Has(v, p) \/ <<v, p>> \in missed
  BY <1>3 DEF Has
<1>4. CASE WillPush(u, p, v)
  <2>1. CASE u = a
    BY <1>1, <1>4, <2>1 DEF PushGoesOn
  <2>2. CASE u # a
    BY <1>4, <2>2 DEF OthersWait, WillPush, InPush
  <2> QED
    BY <2>1, <2>2
<1>5. CASE WillPull(v, q, u, p)
  <2>1. CASE v = a
    BY <1>1, <1>5, <2>1 DEF PullGoesOn
  <2>2. CASE v # a
    BY <1>5, <2>2 DEF OthersWait, WillPull, InPush, InPull
  <2> QED
    BY <2>1, <2>2
<1> QED
  BY <1>2, <1>3, <1>4, <1>5

\* Who joins has no producer that was made by a member.
LEMMA MembersMesh ==
  ASSUME Base, Base', Mesh, NEW u \in Users, AddUser(u) \/ DeleteUser(u)
  PROVE  Mesh'
<1>1. UNCHANGED <<producers, pc, cur, iteration, making, sent, aux>>
  BY DEF AddUser, DeleteUser
<1>2. ASSUME NEW w \in users', producers[w] \cap asMember # {} PROVE w \in users
  BY <1>2 DEF AddUser, DeleteUser, Base, Outside, TypeOK
<1>3. \A w, v \in Users, p, q \in Producers : Pair(w, v, p, q)' => Pair(w, v, p, q)
  BY <1>1, <1>2 DEF Pair, aux
<1> SUFFICES ASSUME NEW w \in Users, NEW v \in Users, NEW p \in Producers,
                    NEW q \in Producers, Pair(w, v, p, q)'
             PROVE  \/ Has(v, p)' \/ (<<v, p>> \in missed)'
                    \/ WillPush(w, p, v)' \/ WillPull(v, q, w, p)'
  BY DEF Mesh, Pair, Base, TypeOK
<1>4. Has(v, p) \/ <<v, p>> \in missed \/ WillPush(w, p, v) \/ WillPull(v, q, w, p)
  BY <1>3 DEF Mesh, Pair
<1> QED
  BY <1>1, <1>4 DEF Has, WillPush, WillPull, InPush, InPull, iteration, making, sent, aux

\* A new producer: its push and its pull are to come.
LEMMA ProduceMesh ==
  ASSUME Base, Base', Mesh, NEW a \in Users, OthersWait(a), NEW r \in Producers,
         Produce(a, r)
  PROVE  Mesh'
<1>1. /\ UNCHANGED <<users, told, missed>> /\ r \notin started
      /\ asMember' \subseteq asMember \cup {r}
      /\ pc[a] = "idle" /\ pc'[a] = "create" /\ cur'[a] = r
      /\ producers'[a] = producers[a] \cup {r}
      /\ \A v \in Users : v # a => producers'[v] = producers[v]
  BY DEF Produce, At, Goto, sent, Base, TypeOK
<1> SUFFICES ASSUME NEW u \in Users, NEW v \in Users, NEW p \in Producers,
                    NEW q \in Producers, Pair(u, v, p, q)'
             PROVE  \/ Has(v, p)' \/ (<<v, p>> \in missed)'
                    \/ WillPush(u, p, v)' \/ WillPull(v, q, u, p)'
  BY DEF Mesh, Pair, Base, TypeOK
<1>2. CASE p = r
  <2>1. u = a
    BY <1>1, <1>2 DEF Pair, Base, Owned
  <2> QED
    BY <1>1, <1>2, <2>1 DEF WillPush
<1>3. CASE q = r
  <2>1. v = a
    BY <1>1, <1>3 DEF Pair, Base, Owned
  <2> QED
    BY <1>1, <1>3, <2>1 DEF WillPull
<1>4. CASE p # r /\ q # r
  <2>1. Pair(u, v, p, q)
    BY <1>1, <1>4 DEF Pair
  <2>2. Has(v, p) \/ <<v, p>> \in missed \/ WillPush(u, p, v) \/ WillPull(v, q, u, p)
    BY <2>1 DEF Mesh, Pair
  <2>3. ~WillPush(a, p, v) /\ ~WillPull(a, q, u, p)
    BY <1>1 DEF WillPush, WillPull, InPush, InPull, Making
  <2> QED
    BY <1>1, <2>2, <2>3 DEF Has, OthersWait, WillPush, WillPull, InPush, InPull
<1> QED
  BY <1>2, <1>3, <1>4

\* A handler that is not one of Produce has no push and no pull.
LEMMA CloseMesh ==
  ASSUME Base, Base', Mesh, NEW a \in Users, OthersWait(a), CloseStep(a)
  PROVE  Mesh'
<1>1. \A w \in Users : told[w] \subseteq told'[w]
  BY ToldGrows
<1>2. /\ UNCHANGED <<users, missed, asMember>>
      /\ \A v \in Users : producers'[v] \subseteq producers[v]
      /\ pc[a] \notin Producing
  <2> USE DEF tables, aux, At, Producing, Making
  <2>1. CASE RemoveProducer(a)
    BY <2>1 DEF RemoveProducer, Base, TypeOK
  <2>2. CASE ~RemoveProducer(a)
    BY <2>2 DEF CloseStep, CloseProducer, CloseProducerOnWorker, RemoveConsumer,
       RemoveConsumersEnd, NotifyConsumerClosed, CloseEnds
  <2> QED
    BY <2>1, <2>2
<1>3. \A u, v \in Users, p, q \in Producers : Pair(u, v, p, q)' => Pair(u, v, p, q)
  BY <1>2 DEF Pair
<1>4. PushGoesOn(a) /\ PullGoesOn(a)
  BY <1>2 DEF PushGoesOn, PullGoesOn, WillPush, WillPull, InPush, InPull, Producing
<1> QED
  BY <1>1, <1>2, <1>3, <1>4, MeshGoesOn

\* The iterations of Produce: the push comes to every member before the pull
\* begins, and the pull to every producer of a member that is there.
LEMMA RangeMesh ==
  ASSUME Base, Base', Mesh, NEW a \in Users, OthersWait(a),
         CreateProducer(a) \/ PushNext(a) \/ PushEnds(a) \/ PullNext(a)
         \/ PullItem(a) \/ PullMisses(a) \/ PullItemsEnd(a) \/ PullEnds(a)
  PROVE  Mesh'
<1> USE DEF At, Goto, StartRange, ComeTo, tables, making, sent, aux
<1>1. /\ UNCHANGED <<users, asMember, producers, told>>
      /\ missed \subseteq missed'
  BY DEF CreateProducer, PushNext, PushEnds, PullNext, PullItem, PullMisses,
     PullItemsEnd, PullEnds
<1> SUFFICES PushGoesOn(a) /\ PullGoesOn(a)
  <2>1. \A u, v \in Users, p, q \in Producers : Pair(u, v, p, q)' => Pair(u, v, p, q)
    BY <1>1 DEF Pair
  <2> QED
    BY <1>1, <2>1, MeshGoesOn
<1>2. TypeOK /\ Holds(a) /\ (pc[a] \in Producing => cur[a] \in producers[a])
  BY DEF Base, InHand, Handled, About
<1>3. CASE CreateProducer(a)
  <2>1. pc'[a] = "push" /\ cur'[a] = cur[a] /\ todo'[a] = users \ {a} /\ pc[a] = "create"
    BY <1>2, <1>3 DEF CreateProducer, TypeOK
  <2> QED
    BY <2>1 DEF PushGoesOn, PullGoesOn, Pair, WillPush, WillPull, InPush, InPull, Making
<1>4. CASE PushNext(a)
  <2>1. PICK w \in users : todo'[a] = todo[a] \ {w} /\ peer'[a] = w
    BY <1>2, <1>4 DEF PushNext, TypeOK
  <2>2. pc[a] = "push" /\ pc'[a] = "scanPush" /\ cur'[a] = cur[a] /\ item'[a] = cur[a]
    BY <1>2, <1>4 DEF PushNext, TypeOK
  <2> QED
    BY <2>1, <2>2 DEF PushGoesOn, PullGoesOn, WillPush, WillPull, InPush, InPull, Making
<1>5. CASE PushEnds(a)
  <2>1. pc[a] = "push" /\ pc'[a] = "pull" /\ cur'[a] = cur[a] /\ todo[a] \cap users = {}
        /\ todo'[a] = users \ {a}
    BY <1>2, <1>5 DEF PushEnds, TypeOK
  <2> QED
    BY <2>1 DEF PushGoesOn, PullGoesOn, Pair, WillPush, WillPull, InPush, InPull, Making
<1>6. CASE PullNext(a)
  <2>1. PICK w \in users : /\ todo'[a] = todo[a] \ {w}
                           /\ pull'[a] = {p \in producers[w] : KindOf[p] = KindOf[cur[a]]}
    BY <1>2, <1>6 DEF PullNext, TypeOK
  <2>2. pc[a] = "pull" /\ pc'[a] = "pullItems" /\ cur'[a] = cur[a] /\ pull[a] = {}
    BY <1>2, <1>6 DEF PullNext, TypeOK, Holds, Making
  <2> QED
    BY <2>1, <2>2 DEF PushGoesOn, PullGoesOn, Pair, WillPush, WillPull, InPush, InPull,
       Making
<1>7. CASE PullItem(a)
  <2>1. PICK r \in pull[a] : pull'[a] = pull[a] \ {r} /\ item'[a] = r
    BY <1>2, <1>7 DEF PullItem, TypeOK
  <2>2. pc[a] = "pullItems" /\ pc'[a] = "scanPull" /\ cur'[a] = cur[a]
        /\ todo'[a] = todo[a]
    BY <1>2, <1>7 DEF PullItem, TypeOK
  <2>3. r # cur[a]
    BY <1>2, <2>1, <2>2 DEF Holds, Producing
  <2> QED
    BY <2>1, <2>2, <2>3 DEF PushGoesOn, PullGoesOn, WillPush, WillPull, InPush, InPull,
       Making
<1>8. CASE PullMisses(a)
  <2>1. PICK r \in pull[a] : pull'[a] = pull[a] \ {r} /\ missed' = missed \cup {<<a, r>>}
    BY <1>2, <1>8 DEF PullMisses, TypeOK
  <2>2. pc[a] = "pullItems" /\ pc'[a] = "pullItems" /\ cur'[a] = cur[a]
        /\ todo'[a] = todo[a]
    BY <1>2, <1>8 DEF PullMisses, TypeOK
  <2> QED
    BY <2>1, <2>2 DEF PushGoesOn, PullGoesOn, WillPush, WillPull, InPush, InPull, Making
<1>9. CASE PullItemsEnd(a)
  <2>1. pc[a] = "pullItems" /\ pc'[a] = "pull" /\ cur'[a] = cur[a]
        /\ todo'[a] = todo[a] /\ pull[a] = {}
    BY <1>2, <1>9 DEF PullItemsEnd, TypeOK
  <2> QED
    BY <2>1 DEF PushGoesOn, PullGoesOn, WillPush, WillPull, InPush, InPull, Making
<1>10. CASE PullEnds(a)
  <2>1. pc[a] = "pull" /\ todo[a] \cap users = {} /\ pull[a] = {}
    BY <1>2, <1>10 DEF PullEnds, Holds, Making
  <2> QED
    BY <2>1 DEF PushGoesOn, PullGoesOn, Pair, WillPush, WillPull, InPush, InPull, Making
<1> QED
  BY <1>3, <1>4, <1>5, <1>6, <1>7, <1>8, <1>9, <1>10

\* A consumer is made: its user is told, or has been told by the push.
LEMMA ConsumerMesh ==
  ASSUME Base, Base', Pending, Mesh, NEW a \in Users, OthersWait(a),
         AddConsumerScan(a) \/ AddConsumerReset(a) \/ AddConsumerLoad(a)
         \/ AddConsumerStore(a)
         \/ ResetMid(a) \/ CreateConsumer(a) \/ RequestNewConsumer(a)
  PROVE  Mesh'
<1> USE DEF At, Goto, tables, iteration, making, sent, aux
<1>1. UNCHANGED <<users, asMember, producers, missed, cur, peer, todo, pull>>
  BY DEF AddConsumerScan, AddConsumerReset, AddConsumerLoad, AddConsumerStore,
     ResetMid, CreateConsumer, RequestNewConsumer
<1>2. \A w \in Users : told[w] \subseteq told'[w]
  BY ToldGrows DEF ProduceStep
<1> SUFFICES PushGoesOn(a) /\ PullGoesOn(a)
  <2>1. \A u, v \in Users, p, q \in Producers : Pair(u, v, p, q)' => Pair(u, v, p, q)
    BY <1>1 DEF Pair
  <2> QED
    BY <1>1, <1>2, <2>1, MeshGoesOn
<1>3. TypeOK /\ pc[a] \in Making
  BY DEF Base, Making, AddConsumerScan, AddConsumerReset, AddConsumerLoad,
     AddConsumerStore, ResetMid, CreateConsumer, RequestNewConsumer
<1>4. ListOf(a) \in Users /\ ConsumerOf(a).producer = item[a]
  BY <1>3, MakingIsTyped
<1>5. CASE pc'[a] \in Making /\ item'[a] = item[a]
  <2>1. pc[a] \notin {"create", "push", "pull", "pullItems"}
    BY <1>3 DEF Making
  <2> QED
    BY <1>1, <1>3, <1>5, <2>1 DEF PushGoesOn, PullGoesOn, WillPush, WillPull, InPush,
       InPull
<1>6. CASE RequestNewConsumer(a)
  <2>1. [consumer |-> ConsumerOf(a), mid |-> mid[a]] \in told'[ListOf(a)]
    BY <1>3, <1>4, <1>6 DEF RequestNewConsumer, TypeOK
  <2>2. \E e \in told'[ListOf(a)] : e.consumer.producer = item[a]
    BY <1>4, <2>1
  <2>3. pc'[a] = IF item[a] = cur[a] THEN "push" ELSE "pullItems"
    BY <1>3, <1>6 DEF RequestNewConsumer, TypeOK
  <2>4. CASE item[a] = cur[a]
    <3>1. pc'[a] = "push" /\ \E e \in told'[peer[a]] : e.consumer.producer = cur[a]
      BY <2>2, <2>3, <2>4 DEF ListOf
    <3> QED
      BY <1>1, <1>3, <2>4, <3>1 DEF PushGoesOn, PullGoesOn, WillPush, WillPull, InPush,
         InPull, Has, Making
  <2>5. CASE item[a] # cur[a]
    <3>1. pc'[a] = "pullItems" /\ \E e \in told'[a] : e.consumer.producer = item[a]
      BY <2>2, <2>3, <2>5 DEF ListOf
    <3> QED
      BY <1>1, <1>3, <2>5, <3>1 DEF PushGoesOn, PullGoesOn, WillPush, WillPull, InPush,
         InPull, Has, Making
  <2> QED
    BY <2>4, <2>5
<1>7. CASE pc[a] = "scanPull" /\ pc'[a] = "pullItems" /\ Exists(a, item[a])
  <2>1. item[a] # cur[a]
    BY <1>7 DEF Base, InHand, Holds
  <2>2. Known(a, item[a])
    BY <1>7 DEF Exists, Pending
  <2>3. ASSUME NEW u \in Users, u # a, item[a] \in producers[u], Telling(a, item[a])
        PROVE  WillPush(u, item[a], a)
    <3>1. PICK h \in Users : pc[h] \in Listed /\ ListOf(h) = a /\ item[h] = item[a]
      BY <2>3 DEF Telling
    <3>2. h # a /\ item[h] = cur[h] /\ peer[h] = a /\ pc[h] \in Making
      BY <1>7, <3>1 DEF ListOf, Listed, Making
    <3>3. h = u
      BY <2>3, <3>1, <3>2, MakingIsTyped DEF Base, Owned
    <3> QED
      BY <3>1, <3>2, <3>3 DEF WillPush, InPush
  <2>4. ASSUME NEW u \in Users, u # a, NEW p \in producers[u], p = item[a]
        PROVE  Has(a, p)' \/ WillPush(u, p, a)'
    <3>1. Has(a, p) => Has(a, p)'
      BY <1>2 DEF Has
    <3>2. WillPush(u, p, a) => WillPush(u, p, a)'
      BY <2>4 DEF OthersWait, WillPush, InPush
    <3> QED
      BY <2>2, <2>3, <2>4, <3>1, <3>2 DEF Known
  <2>5. PushGoesOn(a)
    BY <1>7, <2>1 DEF PushGoesOn, WillPush, InPush, Making
  <2>6. PullGoesOn(a)
    BY <1>1, <1>7, <2>1, <2>4 DEF PullGoesOn, Pair, WillPull, InPush, InPull, Making
  <2> QED
    BY <2>5, <2>6
<1>8. \/ pc'[a] \in Making /\ item'[a] = item[a]
      \/ RequestNewConsumer(a)
      \/ pc[a] = "scanPull" /\ pc'[a] = "pullItems" /\ Exists(a, item[a])
  <2>1. CASE AddConsumerScan(a)
    BY <1>3, <2>1 DEF AddConsumerScan, Making, TypeOK
  <2>2. CASE AddConsumerReset(a) \/ AddConsumerLoad(a) \/ AddConsumerStore(a)
             \/ ResetMid(a) \/ CreateConsumer(a)
    BY <1>3, <2>2 DEF AddConsumerReset, AddConsumerLoad, AddConsumerStore, ResetMid,
       CreateConsumer, Making, TypeOK
  <2> QED
    BY <2>1, <2>2
<1> QED
  BY <1>5, <1>6, <1>7, <1>8

\* What is told, will be told, or is still to come to, in every state.
LEMMA MeshInvariance == Spec => [](Pending /\ Mesh)
<1>1. Init => Pending /\ Mesh
  BY DEF Init, Pending, Mesh
<1>2. Base /\ Base' /\ Pending /\ Mesh /\ [Next]_vars => (Pending /\ Mesh)'
  <2> SUFFICES ASSUME Base, Base', Pending, Mesh, [Next]_vars PROVE Pending' /\ Mesh'
    OBVIOUS
  <2>1. CASE UNCHANGED vars
    BY <2>1 DEF vars, tables, iteration, making, sent, aux, Pending, Known, Has, Telling,
       ListOf, Mesh, WillPush, WillPull, InPush, InPull
  <2>2. ASSUME NEW u \in Users, AddUser(u) \/ DeleteUser(u) PROVE Pending' /\ Mesh'
    <3>1. UNCHANGED <<producers, consumers, pc, cur, iteration, making, sent, aux>>
      BY <2>2 DEF AddUser, DeleteUser
    <3>2. Pending'
      BY <3>1 DEF iteration, making, sent, Pending, Known, Has, Telling, ListOf
    <3> QED
      BY <2>2, <3>2, MembersMesh
  <2>3. ASSUME NEW u \in Users, ProduceStep(u) \/ CloseStep(u) PROVE Pending' /\ Mesh'
    <3>1. OthersWait(u)
      BY <2>3, ProduceBase, RangeBase, ConsumerBase, ReturnsBase, CloseProducerBase,
         CloseRangeBase, RemoveProducerBase DEF ProduceStep, CloseStep
    <3>2. Pending'
      BY <2>3, <3>1, PendingStep
    <3>3. Mesh'
      BY <2>3, <3>1, ProduceMesh, RangeMesh, ConsumerMesh, CloseMesh DEF ProduceStep
    <3> QED
      BY <3>2, <3>3
  <2> QED
    BY <2>1, <2>2, <2>3 DEF Next
<1> QED
  BY <1>1, <1>2, BaseInvariance, PTL DEF Spec

\* Two members who have finished producing media of one kind know of each
\* other's, for any number of users producing at once.
THEOREM MembersHearEachOther == Spec => []FullMesh
<1>1. Base /\ Mesh => FullMesh
  <2> SUFFICES ASSUME Base, Mesh, NEW u \in users, NEW v \in users,
                      NEW p \in producers[u], NEW q \in producers[v],
                      u # v, KindOf[p] = KindOf[q], {p, q} \subseteq finished \cap asMember,
                      <<v, p>> \notin missed
               PROVE  Has(v, p)
    BY DEF FullMesh, Has
  <2>1. u \in Users /\ v \in Users
    BY DEF Base, TypeOK
  <2>2. ~WillPush(u, p, v) /\ ~WillPull(v, q, u, p)
    BY <2>1 DEF WillPush, WillPull, InPush, InPull, Base, Handled, About, Producing
  <2> QED
    BY <2>2 DEF Mesh
<1> QED
  BY <1>1, BaseInvariance, MeshInvariance, PTL

-----------------------------------------------------------------------------
(* The mids                                                                 *)

\* The handlers of the others add what they added before.
LEMMA OthersAdd ==
  ASSUME NEW a \in Users, OthersWait(a), NEW v \in Users
  PROVE  \A h \in Users : h # a =>
           /\ h \in AddersTo(v)' <=> h \in AddersTo(v)
           /\ h \in Holders(v)' <=> h \in Holders(v)
           /\ pc'[h] = pc[h] /\ mid'[h] = mid[h] /\ snap'[h] = snap[h]
  BY DEF AddersTo, Holders, ListOf, OthersWait

\* A handler that makes no consumer for v, before or after.
LEMMA ApartStays ==
  ASSUME Base, NEW a \in Users, OthersWait(a), NEW v \in Users, Apart(v),
         told'[v] = told[v], consumers'[v] = consumers[v],
         a \notin AddersTo(v) \cup Holders(v),
         a \notin AddersTo(v)' \cup Holders(v)'
  PROVE  Apart(v)'
<1>1. \A h \in Users : h # a =>
           /\ h \in AddersTo(v)' <=> h \in AddersTo(v)
           /\ h \in Holders(v)' <=> h \in Holders(v)
           /\ pc'[h] = pc[h] /\ mid'[h] = mid[h] /\ snap'[h] = snap[h]
  BY OthersAdd
<1>2. AddersTo(v)' = AddersTo(v) /\ Holders(v)' = Holders(v)
      /\ \A h \in AddersTo(v) \cup Holders(v) :
            pc'[h] = pc[h] /\ mid'[h] = mid[h] /\ snap'[h] = snap[h]
  BY <1>1 DEF AddersTo, Holders
<1> QED
  BY <1>2 DEF Apart

\* A handler turns to the list of a user: nobody else is at it.
LEMMA BeginApart ==
  ASSUME Base, Base', Numbered, NEW a \in Users, OthersWait(a), PushNext(a) \/ PullItem(a)
  PROVE  Numbered'
<1>1. /\ UNCHANGED <<told, consumers>> /\ raced \subseteq raced'
      /\ pc[a] \in {"push", "pullItems"} /\ pc'[a] \in {"scanPush", "scanPull"}
      /\ AddersTo(ListOf(a)') # {} => ListOf(a)' \in raced'
  <2> USE DEF At, Goto, ComeTo, tables, sent
  <2>1. CASE PushNext(a)
    <3>1. PICK v \in users :
            /\ peer' = [peer EXCEPT ![a] = v]
            /\ raced' = IF AddersTo(v) # {} THEN raced \cup {v} ELSE raced
      BY <2>1 DEF PushNext
    <3>2. item'[a] = cur'[a] /\ peer'[a] = v
      BY <2>1, <3>1 DEF PushNext, Base, TypeOK
    <3> QED
      BY <2>1, <3>1, <3>2 DEF PushNext, ListOf, Base, TypeOK
  <2>2. CASE PullItem(a)
    <3>1. pc'[a] = "scanPull"
      BY <2>2 DEF PullItem, Base, TypeOK
    <3>2. item'[a] # cur'[a]
      BY <3>1 DEF Base, InHand, Holds
    <3> QED
      BY <2>2, <3>1, <3>2 DEF PullItem, ListOf
  <2> QED
    BY <2>1, <2>2
<1> SUFFICES ASSUME NEW v \in Users \ raced', Apart(v) PROVE Apart(v)'
  BY <1>1 DEF Numbered
<1>2. a \notin AddersTo(v) \cup Holders(v) /\ a \notin Holders(v)'
  BY <1>1 DEF AddersTo, Holders, Adding
<1>3. CASE a \notin AddersTo(v)'
  BY <1>1, <1>2, <1>3, ApartStays
<1>4. CASE a \in AddersTo(v)'
  <2>1. AddersTo(v) = {}
    BY <1>1, <1>4 DEF AddersTo
  <2>2. \A h \in Users : h # a =>
           /\ h \in AddersTo(v)' <=> h \in AddersTo(v)
           /\ h \in Holders(v)' <=> h \in Holders(v)
           /\ pc'[h] = pc[h] /\ mid'[h] = mid[h] /\ snap'[h] = snap[h]
    BY OthersAdd
  <2>3. AddersTo(v)' = {a} /\ Holders(v)' = Holders(v)
        /\ \A h \in Holders(v) : mid'[h] = mid[h]
    BY <1>2, <1>4, <2>1, <2>2 DEF AddersTo, Holders
  <2> QED
    BY <1>1, <2>3 DEF Apart
<1> QED
  BY <1>3, <1>4

\* A consumer of v is put in the list of v and numbered.
LEMMA ConsumerApart ==
  ASSUME Base, Base', Numbered, NEW a \in Users, OthersWait(a),
         AddConsumerScan(a) \/ AddConsumerReset(a) \/ AddConsumerLoad(a)
         \/ AddConsumerStore(a)
         \/ ResetMid(a) \/ CreateConsumer(a) \/ RequestNewConsumer(a)
  PROVE  Numbered'
<1> USE DEF At, Goto, tables, iteration, making, sent, aux
<1>1. TypeOK /\ pc[a] \in Making
  BY DEF Base, Making, AddConsumerScan, AddConsumerReset, AddConsumerLoad,
     AddConsumerStore, ResetMid, CreateConsumer, RequestNewConsumer
<1>2. ListOf(a) \in Users /\ ConsumerOf(a) \in Consumers
  BY <1>1, MakingIsTyped
<1>3. raced \subseteq raced'
  BY DEF AddConsumerScan, AddConsumerReset, AddConsumerLoad, AddConsumerStore,
     ResetMid, CreateConsumer, RequestNewConsumer
<1>4. pc'[a] \in Making => ListOf(a)' = ListOf(a)
  <2>1. CASE RequestNewConsumer(a)
    BY <1>1, <2>1 DEF RequestNewConsumer, Making, TypeOK
  <2>2. CASE AddConsumerScan(a)
    BY <1>1, <2>2 DEF AddConsumerScan, Making, TypeOK, ListOf
  <2>3. CASE ~RequestNewConsumer(a) /\ ~AddConsumerScan(a)
    <3>1. UNCHANGED <<item, cur, peer>>
      BY <2>3 DEF AddConsumerReset, AddConsumerLoad, AddConsumerStore, ResetMid,
         CreateConsumer
    <3> QED
      BY <3>1 DEF ListOf
  <2> QED
    BY <2>1, <2>2, <2>3
<1> SUFFICES ASSUME NEW v \in Users \ raced', Apart(v) PROVE Apart(v)'
  BY <1>3 DEF Numbered
<1>5. CASE v # ListOf(a)
  <2>1. a \notin AddersTo(v) \cup Holders(v)
    BY <1>5 DEF AddersTo, Holders
  <2>2. a \notin AddersTo(v)' \cup Holders(v)'
    BY <1>4, <1>5 DEF AddersTo, Holders, Adding, Making
  <2>3. told'[v] = told[v]
    BY <1>1, <1>5 DEF TypeOK, AddConsumerScan, AddConsumerReset, AddConsumerLoad,
       AddConsumerStore, ResetMid, CreateConsumer, RequestNewConsumer
  <2>4. consumers'[v] = consumers[v]
    BY <1>1, <1>5 DEF TypeOK, AddConsumerScan, AddConsumerReset, AddConsumerLoad,
       AddConsumerStore, ResetMid, CreateConsumer, RequestNewConsumer
  <2> QED
    BY <2>1, <2>2, <2>3, <2>4, ApartStays
<1>6. CASE v = ListOf(a)
  <2>1. \A h \in Users : h # a =>
           /\ h \in AddersTo(v)' <=> h \in AddersTo(v)
           /\ h \in Holders(v)' <=> h \in Holders(v)
           /\ pc'[h] = pc[h] /\ mid'[h] = mid[h] /\ snap'[h] = snap[h]
    BY OthersAdd
  <2>2. pc[a] \in Adding <=> a \in AddersTo(v)
    BY <1>6 DEF AddersTo
  <2>3. pc[a] \in {"consume", "tell"} <=> a \in Holders(v)
    BY <1>6 DEF Holders
  <2>4. /\ AddersTo(v) \subseteq Users /\ Holders(v) \subseteq Users
        /\ AddersTo(v)' \subseteq Users /\ Holders(v)' \subseteq Users
    BY DEF AddersTo, Holders
  <2>5. /\ a \in AddersTo(v)' => pc'[a] \in Adding
        /\ a \in Holders(v)' => pc'[a] \in {"consume", "tell"}
    BY DEF AddersTo, Holders
  <2>6. consumers[v] \in Seq(Consumers) /\ Len(consumers[v]) \in Nat
        /\ mid \in [Users -> Nat] /\ \A e \in told[v] : e.mid \in Nat
    BY <1>1 DEF TypeOK
  <2>7. CASE AddConsumerScan(a)
    <3>1. /\ UNCHANGED <<told, consumers, mid, snap>> /\ pc[a] \in {"scanPush", "scanPull"}
          /\ pc'[a] \in {"reset", "load", "pullItems"}
      BY <1>1, <1>2, <1>6, <2>7 DEF AddConsumerScan, TypeOK, Base, InHand, Holds, ListOf
    <3>3. pc'[a] = "reset" => consumers[v] = <<>>
      BY <1>1, <1>6, <2>7 DEF AddConsumerScan, HasEntry, TypeOK
    <3>2. a \in AddersTo(v) /\ a \notin Holders(v) /\ a \notin Holders(v)'
      BY <2>2, <2>3, <2>5, <3>1 DEF Adding
    <3> QED
      BY <2>1, <2>4, <3>1, <3>2, <3>3 DEF Apart
  <2>13. CASE AddConsumerReset(a)
    <3>1. UNCHANGED <<told, mid, snap>> /\ pc[a] = "reset" /\ pc'[a] = "load"
          /\ consumers'[v] = <<>>
      BY <1>1, <1>2, <1>6, <2>13 DEF AddConsumerReset, TypeOK
    <3>2. a \in AddersTo(v) /\ a \notin Holders(v) /\ a \notin Holders(v)'
      BY <2>2, <2>3, <2>5, <3>1 DEF Adding
    <3>3. consumers'[v] = consumers[v]
      BY <3>1, <3>2 DEF Apart
    <3> QED
      BY <2>1, <2>4, <3>1, <3>2, <3>3 DEF Apart
  <2>8. CASE AddConsumerLoad(a)
    <3>1. /\ UNCHANGED <<told, consumers, mid>> /\ pc[a] = "load" /\ pc'[a] = "store"
          /\ snap'[a] = consumers[v]
      BY <1>1, <1>6, <2>8 DEF AddConsumerLoad, TypeOK
    <3>2. a \in AddersTo(v) /\ a \notin Holders(v) /\ a \notin Holders(v)'
      BY <2>2, <2>3, <2>5, <3>1 DEF Adding
    <3> QED
      BY <2>1, <2>4, <3>1, <3>2 DEF Apart
  <2>9. CASE AddConsumerStore(a)
    <3>1. /\ UNCHANGED <<told, mid>> /\ pc[a] = "store" /\ pc'[a] = "mid"
          /\ consumers'[v] = Append(snap[a], ConsumerOf(a))
      BY <1>1, <1>2, <1>6, <2>9 DEF AddConsumerStore, TypeOK
    <3>2. a \in AddersTo(v) /\ a \notin Holders(v) /\ a \notin Holders(v)'
      BY <2>2, <2>3, <2>5, <3>1 DEF Adding
    <3>3. snap[a] = consumers[v]
      BY <3>1, <3>2 DEF Apart
    <3>4. Len(consumers'[v]) = Len(consumers[v]) + 1
      BY <1>2, <2>6, <3>1, <3>3
    <3>5. AddersTo(v)' \subseteq {a} /\ Holders(v)' = Holders(v)
      <4>1. \A h \in AddersTo(v) : h = a
        BY <3>2 DEF Apart
      <4> QED
        BY <2>1, <2>4, <3>2, <4>1
    <3>6. /\ \A e \in told[v] : e.mid < Len(consumers'[v])
          /\ \A k \in Holders(v) : mid[k] < Len(consumers'[v])
      BY <2>4, <2>6, <3>4 DEF Apart
    <3> QED
      BY <2>4, <2>6, <3>1, <3>4, <3>5, <3>6 DEF Apart
  <2>10. CASE ResetMid(a)
    <3>1. /\ UNCHANGED <<told, consumers, snap>> /\ pc[a] = "mid" /\ pc'[a] = "consume"
          /\ mid'[a] = Len(consumers[v])
      BY <1>1, <1>6, <2>10 DEF ResetMid, TypeOK
    <3>2. a \in AddersTo(v) /\ a \notin Holders(v) /\ a \notin AddersTo(v)'
      BY <2>2, <2>3, <2>5, <3>1 DEF Adding
    <3>3. AddersTo(v)' = {} /\ Holders(v)' \subseteq Holders(v) \cup {a}
      BY <2>1, <2>4, <3>2 DEF Apart
    <3>4. /\ \A e \in told[v] : e.mid < Len(consumers[v])
          /\ \A k \in Holders(v) : mid[k] < Len(consumers[v])
      BY <3>1, <3>2 DEF Apart
    <3>5. \A k \in Holders(v) : k # a /\ mid'[k] = mid[k]
      BY <2>1, <2>4, <3>2
    <3> QED
      BY <2>4, <2>6, <3>1, <3>3, <3>4, <3>5 DEF Apart
  <2>11. CASE CreateConsumer(a)
    <3>1. /\ UNCHANGED <<told, consumers, mid, snap>> /\ pc[a] = "consume"
          /\ pc'[a] = "tell"
      BY <1>1, <2>11 DEF CreateConsumer, TypeOK
    <3>2. a \notin AddersTo(v) /\ a \in Holders(v) /\ a \notin AddersTo(v)'
      BY <2>2, <2>3, <2>5, <3>1 DEF Adding
    <3> QED
      BY <2>1, <2>4, <3>1, <3>2 DEF Apart
  <2>12. CASE RequestNewConsumer(a)
    <3> DEFINE entry == [consumer |-> ConsumerOf(a), mid |-> mid[a]]
    <3>1. /\ UNCHANGED <<consumers, snap>> /\ pc[a] = "tell"
          /\ pc'[a] \in {"push", "pullItems"}
          /\ told'[v] = told[v] \cup {entry}
      BY <1>1, <1>6, <2>12 DEF RequestNewConsumer, TypeOK
    <3>2. a \notin AddersTo(v) /\ a \in Holders(v) /\ a \notin AddersTo(v)'
          /\ a \notin Holders(v)'
      BY <2>2, <2>3, <2>5, <3>1 DEF Adding
    <3>3. /\ AddersTo(v)' = AddersTo(v) /\ Holders(v)' = Holders(v) \ {a}
          /\ \A h \in AddersTo(v) : pc'[h] = pc[h] /\ snap'[h] = snap[h]
          /\ \A h \in Holders(v)' : mid'[h] = mid[h]
      BY <2>1, <2>4, <3>2
    <3>4. entry.mid = mid[a]
      OBVIOUS
    <3> HIDE DEF entry
    <3>5. /\ mid[a] <= Len(consumers[v]) /\ \A e \in told[v] : e.mid # mid[a]
          /\ \A k \in Holders(v) : k # a => mid[k] # mid[a]
          /\ \A h \in AddersTo(v) : pc[h] = "mid" => mid[a] < Len(consumers[v])
      BY <3>2 DEF Apart
    <3>6. \A d, e \in told'[v] : d.mid = e.mid => d = e
      BY <3>1, <3>4, <3>5 DEF Apart
    <3>7. \A e \in told'[v] : e.mid <= Len(consumers'[v])
      BY <3>1, <3>4, <3>5 DEF Apart
    <3>8. \A h \in Holders(v)' :
            /\ mid'[h] <= Len(consumers'[v])
            /\ \A e \in told'[v] : e.mid # mid'[h]
            /\ \A k \in Holders(v)' : mid'[k] = mid'[h] => k = h
      BY <3>1, <3>3, <3>4, <3>5 DEF Apart
    <3>9. \A h \in AddersTo(v)' : pc'[h] = "mid" =>
            /\ \A e \in told'[v] : e.mid < Len(consumers'[v])
            /\ \A k \in Holders(v)' : mid'[k] < Len(consumers'[v])
      BY <3>1, <3>3, <3>4, <3>5 DEF Apart
    <3> QED
      BY <3>1, <3>3, <3>6, <3>7, <3>8, <3>9 DEF Apart
  <2> QED
    BY <2>7, <2>8, <2>9, <2>10, <2>11, <2>12, <2>13
<1> QED
  BY <1>5, <1>6

\* A close keeps the length of a list.
LEMMA RemovalApart ==
  ASSUME Base, Base', Numbered, NEW a \in Users, OthersWait(a), RemoveConsumer(a)
  PROVE  Numbered'
<1>1. PICK w \in Users :
          /\ raced' = IF AddersTo(w) # {} THEN raced \cup {w} ELSE raced
          /\ \A x \in Users : x # w => consumers'[x] = consumers[x]
          /\ Len(consumers'[w]) = Len(consumers[w])
  BY RemovalLists DEF Base
<1>2. UNCHANGED <<told, pc>> /\ pc[a] = "unconsume"
  BY DEF RemoveConsumer, sent, At
<1> SUFFICES ASSUME NEW v \in Users \ raced', Apart(v) PROVE Apart(v)'
  BY <1>1 DEF Numbered
<1>3. a \notin AddersTo(v) \cup Holders(v) /\ a \notin AddersTo(v)' \cup Holders(v)'
  BY <1>2 DEF AddersTo, Holders, Adding
<1>4. CASE v # w
  BY <1>1, <1>2, <1>3, <1>4, ApartStays
<1>5. CASE v = w
  <2>1. AddersTo(v) = {}
    BY <1>1, <1>5
  <2>2. \A h \in Users : h # a =>
           /\ h \in AddersTo(v)' <=> h \in AddersTo(v)
           /\ h \in Holders(v)' <=> h \in Holders(v)
           /\ pc'[h] = pc[h] /\ mid'[h] = mid[h] /\ snap'[h] = snap[h]
    BY OthersAdd
  <2>3. AddersTo(v)' = {} /\ Holders(v)' = Holders(v)
        /\ \A h \in Holders(v) : mid'[h] = mid[h]
    BY <1>3, <2>1, <2>2 DEF AddersTo, Holders
  <2> QED
    BY <1>1, <1>2, <1>5, <2>3 DEF Apart
<1> QED
  BY <1>4, <1>5

\* The other steps neither turn to a list nor tell anybody.
LEMMA OtherApart ==
  ASSUME Base, Base', Numbered, NEW a \in Users, OthersWait(a),
         \/ \E p \in Producers : Produce(a, p) \/ CloseProducer(a, p)
         \/ CreateProducer(a) \/ PushEnds(a) \/ PullNext(a) \/ PullMisses(a)
         \/ PullItemsEnd(a) \/ PullEnds(a) \/ CloseProducerOnWorker(a)
         \/ RemoveProducer(a) \/ RemoveConsumersEnd(a) \/ NotifyConsumerClosed(a)
         \/ CloseEnds(a)
  PROVE  /\ pc[a] \notin Making /\ pc'[a] \notin Making
         /\ UNCHANGED <<told, consumers, raced>>
         /\ Numbered'
<1> USE DEF At, Goto, tables, sent, aux
<1>1. /\ pc[a] \notin Making /\ UNCHANGED <<told, consumers, raced>>
  BY DEF Produce, CloseProducer, CreateProducer, PushEnds, PullNext, PullMisses,
     PullItemsEnd, PullEnds, CloseProducerOnWorker, RemoveProducer, RemoveConsumersEnd,
     NotifyConsumerClosed, CloseEnds, Making
<1>2. pc'[a] \notin Making
  <2>1. \/ \E q \in {"idle", "create", "push", "pull", "pullItems", "close", "remove",
                     "unconsume", "notify"} : pc' = [pc EXCEPT ![a] = q]
        \/ pc' = pc
    BY DEF Produce, CloseProducer, CreateProducer, PushEnds, PullNext, PullMisses,
       PullItemsEnd, PullEnds, CloseProducerOnWorker, RemoveProducer,
       RemoveConsumersEnd, NotifyConsumerClosed, CloseEnds, Returns
  <2> QED
    BY <1>1, <2>1 DEF Making, Base, TypeOK
<1>3. ASSUME NEW v \in Users \ raced, Apart(v) PROVE Apart(v)'
  <2>1. a \notin AddersTo(v) \cup Holders(v) /\ a \notin AddersTo(v)' \cup Holders(v)'
    BY <1>1, <1>2 DEF AddersTo, Holders, Adding, Making
  <2> QED
    BY <1>1, <1>3, <2>1, ApartStays
<1> QED
  BY <1>1, <1>2, <1>3 DEF Numbered

\* Mids in hand and handed out, in every state.
LEMMA NumberedInvariance == Spec => []Numbered
<1>1. Init => Numbered
  BY DEF Init, Numbered, Apart, AddersTo, Holders, Adding
<1>2. Base /\ Base' /\ Numbered /\ [Next]_vars => Numbered'
  <2> SUFFICES ASSUME Base, Base', Numbered, [Next]_vars PROVE Numbered'
    OBVIOUS
  <2>1. ASSUME UNCHANGED <<consumers, pc, cur, iteration, making, sent, aux>>
        PROVE  Numbered'
    BY <2>1 DEF iteration, making, sent, aux, Numbered, Apart, AddersTo, Holders, ListOf
  <2>2. CASE UNCHANGED vars
    BY <2>1, <2>2 DEF vars, tables
  <2>3. ASSUME NEW u \in Users, AddUser(u) \/ DeleteUser(u) PROVE Numbered'
    BY <2>1, <2>3 DEF AddUser, DeleteUser
  <2>4. ASSUME NEW u \in Users, ProduceStep(u) \/ CloseStep(u) PROVE Numbered'
    <3>1. OthersWait(u)
      BY <2>4, ProduceBase, RangeBase, ConsumerBase, ReturnsBase, CloseProducerBase,
         CloseRangeBase, RemoveProducerBase DEF ProduceStep, CloseStep
    <3> QED
      BY <2>4, <3>1, BeginApart, ConsumerApart, RemovalApart, OtherApart
         DEF ProduceStep, CloseStep
  <2> QED
    BY <2>2, <2>3, <2>4 DEF Next
<1> QED
  BY <1>1, <1>2, BaseInvariance, PTL DEF Spec

\* The mids of a user's consumers are distinct, whatever was closed in between,
\* unless two goroutines have worked on its list at once.
THEOREM MidsStayDistinct == Spec => []MidsDistinct
<1>1. Numbered => MidsDistinct
  BY DEF Numbered, Apart, MidsDistinct
<1> QED
  BY <1>1, NumberedInvariance, PTL

-----------------------------------------------------------------------------
(* The closes                                                               *)

\* A close that has come to a list does not come to it again.
LEMMA PassedStays ==
  ASSUME Base, NEW a \in Users, OthersWait(a), ProduceStep(a) \/ CloseStep(a)
  PROVE  \A v \in Users : \A p : Passed(v, p) => Passed(v, p)'
<1> USE DEF At, Goto, tables, iteration, aux
<1>1. closed \subseteq closed'
  BY DEF ProduceStep, CloseStep, Produce, CreateProducer, PushNext, PushEnds,
     PullNext, PullItem, PullMisses, PullItemsEnd, PullEnds, AddConsumerScan,
     AddConsumerReset, AddConsumerLoad, AddConsumerStore, ResetMid, CreateConsumer,
     RequestNewConsumer, CloseProducer, CloseProducerOnWorker, RemoveProducer,
     RemoveConsumer, RemoveConsumersEnd, NotifyConsumerClosed, CloseEnds
<1>2. CASE pc[a] \notin Removed
  BY <1>1, <1>2 DEF Passed, OthersWait, Removed
<1>3. CASE pc[a] \in Removed
  <2>1. \/ RemoveConsumer(a) \/ RemoveConsumersEnd(a) \/ NotifyConsumerClosed(a)
        \/ CloseEnds(a)
    BY <1>3 DEF Removed, ProduceStep, CloseStep, Produce, CreateProducer, PushNext,
       PushEnds, PullNext, PullItem, PullMisses, PullItemsEnd, PullEnds,
       AddConsumerScan, AddConsumerReset, AddConsumerLoad, AddConsumerStore, ResetMid,
       CreateConsumer, RequestNewConsumer, CloseProducer, CloseProducerOnWorker,
       RemoveProducer
  <2>2. CASE RemoveConsumer(a)
    <3>1. cur' = cur /\ pc' = pc /\ seen[a] \subseteq seen'[a]
      BY <2>2 DEF RemoveConsumer, ComeTo, Base, TypeOK
    <3> QED
      BY <1>1, <3>1 DEF Passed, OthersWait
  <2>3. CASE RemoveConsumersEnd(a) \/ NotifyConsumerClosed(a)
    <3>1. cur' = cur /\ seen' = seen /\ pc'[a] = "notify"
      BY <2>3 DEF RemoveConsumersEnd, NotifyConsumerClosed, Base, TypeOK
    <3> QED
      BY <1>1, <3>1 DEF Passed, OthersWait
  <2>4. CASE CloseEnds(a)
    <3>1. cur[a] \in closed'
      BY <2>4 DEF CloseEnds
    <3> QED
      BY <1>1, <3>1 DEF Passed, OthersWait
  <2> QED
    BY <2>1, <2>2, <2>3, <2>4
<1> QED
  BY <1>2, <1>3

\* A list that is not written to, and a handler that has what it needs at its
\* new point.
LEMMA SoleStays ==
  ASSUME Base, NEW a \in Users, OthersWait(a), NEW v \in Users, Sole(v),
         told'[v] = told[v], consumers'[v] = consumers[v],
         \A p : Passed(v, p) => Passed(v, p)',
         a \in AddersTo(v)' /\ pc'[a] \in {"load", "store"} =>
            \A i \in DOMAIN consumers[v] : consumers[v][i].producer # item'[a],
         pc'[a] \in Listed /\ ListOf(a)' = v =>
            In(v, ConsumerOf(a))' \/ Passed(v, item[a])'
  PROVE  Sole(v)'
<1>1. \A c : In(v, c)' <=> In(v, c)
  BY DEF In
<1>2. \A h \in Users : h # a => /\ h \in AddersTo(v)' <=> h \in AddersTo(v)
                                /\ pc'[h] = pc[h] /\ item'[h] = item[h]
                                /\ ListOf(h)' = ListOf(h) /\ ConsumerOf(h)' = ConsumerOf(h)
  BY DEF AddersTo, ListOf, ConsumerOf, OthersWait
<1>3. ASSUME NEW h \in AddersTo(v)', pc'[h] \in {"load", "store"}
      PROVE  ~Exists(v, item[h])'
  BY <1>2, <1>3 DEF Sole, Exists, AddersTo
<1>4. ASSUME NEW h \in Users, pc'[h] \in Listed, ListOf(h)' = v
      PROVE  In(v, ConsumerOf(h))' \/ Passed(v, item[h])'
  <2>1. CASE h = a
    BY <1>4, <2>1
  <2>2. CASE h # a
    <3>1. In(v, ConsumerOf(h)) \/ Passed(v, item[h])
      BY <1>2, <1>4, <2>2 DEF Sole
    <3>2. In(v, ConsumerOf(h)) => In(v, ConsumerOf(h))'
      BY <1>2, <2>2 DEF In
    <3>3. Passed(v, item[h]) => Passed(v, item[h])'
      BY <1>2, <2>2 DEF Passed
    <3> QED
      BY <3>1, <3>2, <3>3
  <2> QED
    BY <2>1, <2>2
<1>5. \A e \in told'[v] : In(v, e.consumer)' \/ Passed(v, e.consumer.producer)'
  BY <1>1 DEF Sole
<1> QED
  BY <1>3, <1>4, <1>5 DEF Sole

\* A consumer of v is put in the list of v, once, and told of.
LEMMA ConsumerSole ==
  ASSUME Base, Base', Numbered, Unique, NEW a \in Users, OthersWait(a),
         AddConsumerScan(a) \/ AddConsumerReset(a) \/ AddConsumerLoad(a)
         \/ AddConsumerStore(a)
         \/ ResetMid(a) \/ CreateConsumer(a) \/ RequestNewConsumer(a)
  PROVE  Unique'
<1> USE DEF At, Goto, tables, iteration, making, sent, aux
<1>1. TypeOK /\ pc[a] \in Making
  BY DEF Base, Making, AddConsumerScan, AddConsumerReset, AddConsumerLoad,
     AddConsumerStore, ResetMid, CreateConsumer, RequestNewConsumer
<1>2. ListOf(a) \in Users /\ ConsumerOf(a) \in Consumers
      /\ ConsumerOf(a).producer = item[a]
  BY <1>1, MakingIsTyped
<1>3. raced \subseteq raced'
  BY DEF AddConsumerScan, AddConsumerReset, AddConsumerLoad, AddConsumerStore,
     ResetMid, CreateConsumer, RequestNewConsumer
<1> SUFFICES ASSUME NEW v \in Users \ raced', Sole(v), Apart(v) PROVE Sole(v)'
  BY <1>3 DEF Unique, Numbered
<1>4. \A p : Passed(v, p) => Passed(v, p)'
  BY PassedStays DEF ProduceStep
<1>5. CASE AddConsumerScan(a)
  <2>1. UNCHANGED <<told, consumers, cur, peer>>
    BY <1>5 DEF AddConsumerScan
  <2>2. pc'[a] = "load" /\ item'[a] = item[a] => ~Exists(ListOf(a), item[a])
    BY <1>1, <1>5 DEF AddConsumerScan, TypeOK
  <2>3. \/ pc'[a] = "load" /\ item'[a] = item[a]
        \/ pc'[a] \in {"reset", "pullItems"}
        \/ pc'[a] = "mid" /\ item'[a] = item[a] /\ ListOf(a) \in raced'
    BY <1>1, <1>5 DEF AddConsumerScan, TypeOK, Base, InHand, Holds, ListOf
  <2>4. a \in AddersTo(v)' /\ pc'[a] \in {"load", "store"} =>
            \A i \in DOMAIN consumers[v] : consumers[v][i].producer # item'[a]
    BY <2>1, <2>2, <2>3 DEF AddersTo, ListOf, Exists
  <2>5. ~(pc'[a] \in Listed /\ ListOf(a)' = v)
    BY <2>1, <2>3 DEF Listed, ListOf
  <2> QED
    BY <1>4, <2>1, <2>4, <2>5, SoleStays
<1>10. CASE AddConsumerReset(a)
  <2>1. /\ UNCHANGED <<told, item, cur, peer>> /\ pc[a] = "reset" /\ pc'[a] = "load"
        /\ consumers' = [consumers EXCEPT ![ListOf(a)] = <<>>]
    BY <1>1, <1>10 DEF AddConsumerReset, TypeOK
  <2>2. ListOf(a)' = ListOf(a)
    BY <2>1 DEF ListOf
  <2>3. ListOf(a) = v => consumers[v] = <<>>
    BY <2>1 DEF Apart, AddersTo, Adding
  <2>4. consumers'[v] = consumers[v]
    BY <1>1, <1>2, <2>1, <2>3 DEF TypeOK
  <2>5. a \in AddersTo(v)' =>
            \A i \in DOMAIN consumers[v] : consumers[v][i].producer # item'[a]
    BY <2>2, <2>3 DEF AddersTo
  <2>6. pc'[a] \notin Listed
    BY <2>1 DEF Listed
  <2> QED
    BY <1>4, <2>1, <2>4, <2>5, <2>6, SoleStays
<1>6. CASE AddConsumerLoad(a)
  <2>1. UNCHANGED <<told, consumers, item, cur, peer>> /\ pc[a] = "load" /\ pc'[a] = "store"
    BY <1>1, <1>6 DEF AddConsumerLoad, TypeOK
  <2>2. a \in AddersTo(v)' => a \in AddersTo(v)
    BY <2>1 DEF AddersTo, Adding, ListOf
  <2> QED
    BY <1>4, <2>1, <2>2, SoleStays DEF Sole, Exists, Listed
<1>7. CASE ResetMid(a) \/ CreateConsumer(a)
  <2>1. UNCHANGED <<told, consumers, item, cur, peer>> /\ pc[a] \in Listed
        /\ pc'[a] \in {"consume", "tell"}
    BY <1>1, <1>7 DEF ResetMid, CreateConsumer, TypeOK, Listed
  <2>2. ListOf(a)' = ListOf(a) /\ ConsumerOf(a)' = ConsumerOf(a)
    BY <2>1 DEF ListOf, ConsumerOf
  <2>3. ListOf(a) = v => In(v, ConsumerOf(a))' \/ Passed(v, item[a])'
    <3>1. ListOf(a) = v => In(v, ConsumerOf(a)) \/ Passed(v, item[a])
      BY <2>1 DEF Sole
    <3>2. In(v, ConsumerOf(a)) => In(v, ConsumerOf(a))'
      BY <2>1, <2>2 DEF In
    <3>3. Passed(v, item[a]) => Passed(v, item[a])'
      BY <1>4, <2>1
    <3> QED
      BY <3>1, <3>2, <3>3
  <2> QED
    BY <1>4, <2>1, <2>2, <2>3, SoleStays
<1>8. CASE AddConsumerStore(a)
  <2>1. /\ UNCHANGED <<told, item, cur, peer>> /\ pc[a] = "store" /\ pc'[a] = "mid"
        /\ consumers' = [consumers EXCEPT ![ListOf(a)] = Append(snap[a], ConsumerOf(a))]
    BY <1>1, <1>8 DEF AddConsumerStore, TypeOK
  <2>2. ListOf(a)' = ListOf(a) /\ ConsumerOf(a)' = ConsumerOf(a)
    BY <2>1 DEF ListOf, ConsumerOf
  <2>3. CASE v # ListOf(a)
    <3>1. consumers'[v] = consumers[v]
      BY <1>1, <2>1, <2>3 DEF TypeOK
    <3> QED
      BY <1>4, <2>1, <2>2, <2>3, <3>1, SoleStays
  <2>4. CASE v = ListOf(a)
    <3> DEFINE s == consumers[v]
               t == consumers'[v]
               c == ConsumerOf(a)
    <3>1. a \in AddersTo(v) /\ \A h \in AddersTo(v) : h = a
      BY <2>1, <2>4 DEF AddersTo, Adding, Apart
    <3>2. t = Append(s, c) /\ s \in Seq(Consumers) /\ c \in Consumers
      BY <1>1, <1>2, <2>1, <2>4, <3>1 DEF Apart, TypeOK
    <3>3. /\ DOMAIN t = DOMAIN s \cup {Len(s) + 1} /\ Len(s) + 1 \in DOMAIN t
          /\ \A i \in DOMAIN s : t[i] = s[i]
          /\ t[Len(s) + 1] = c
      <4> HIDE DEF s, t, c
      <4> QED
        BY <3>2
    <3>4. \A i \in DOMAIN s : s[i].producer # c.producer
      BY <1>2, <2>1, <3>1 DEF Sole, Exists
    <3>5. \A i, j \in DOMAIN s : s[i].producer = s[j].producer => s[i] = s[j]
      BY DEF Sole
    <3>6. \A i, j \in DOMAIN t : t[i].producer = t[j].producer => t[i] = t[j]
      <4> HIDE DEF s, t, c
      <4> QED
        BY <3>3, <3>4, <3>5
    <3>7. \A x : In(v, x) => In(v, x)'
      BY <3>3 DEF In
    <3>8. In(v, ConsumerOf(a))'
      BY <2>2, <3>3 DEF In
    <3>9. \A h \in Users : h # a => /\ h \notin AddersTo(v)'
                                    /\ pc'[h] = pc[h] /\ item'[h] = item[h]
                                    /\ ListOf(h)' = ListOf(h)
                                    /\ ConsumerOf(h)' = ConsumerOf(h)
      BY <3>1 DEF AddersTo, ListOf, ConsumerOf, OthersWait
    <3>10. ASSUME NEW h \in Users, pc'[h] \in Listed, ListOf(h)' = v
           PROVE  In(v, ConsumerOf(h))' \/ Passed(v, item[h])'
      <4>1. CASE h = a
        BY <3>8, <4>1
      <4>2. CASE h # a
        <5>1. In(v, ConsumerOf(h)) \/ Passed(v, item[h])
          BY <3>9, <3>10, <4>2 DEF Sole
        <5>2. In(v, ConsumerOf(h)) => In(v, ConsumerOf(h))'
          BY <3>7, <3>9, <4>2
        <5>3. Passed(v, item[h]) => Passed(v, item[h])'
          BY <1>4, <3>9, <4>2
        <5> QED
          BY <5>1, <5>2, <5>3
      <4> QED
        BY <4>1, <4>2
    <3>11. \A e \in told'[v] : In(v, e.consumer)' \/ Passed(v, e.consumer.producer)'
      BY <1>4, <2>1, <3>7 DEF Sole
    <3>12. \A h \in AddersTo(v)' : pc'[h] \notin {"load", "store"}
      BY <2>1, <3>9 DEF AddersTo
    <3> QED
      BY <3>6, <3>10, <3>11, <3>12 DEF Sole
  <2> QED
    BY <2>3, <2>4
<1>9. CASE RequestNewConsumer(a)
  <2> DEFINE entry == [consumer |-> ConsumerOf(a), mid |-> mid[a]]
  <2>1. /\ UNCHANGED consumers /\ pc[a] = "tell" /\ pc'[a] \in {"push", "pullItems"}
        /\ told' = [told EXCEPT ![ListOf(a)] = @ \cup {entry}]
    BY <1>1, <1>9 DEF RequestNewConsumer, TypeOK
  <2>2. pc'[a] \notin Listed /\ a \notin AddersTo(v)'
    BY <2>1 DEF Listed, AddersTo, Adding
  <2>3. CASE v # ListOf(a)
    <3>1. told'[v] = told[v]
      BY <1>1, <2>1, <2>3 DEF TypeOK
    <3> QED
      BY <1>4, <2>1, <2>2, <3>1, SoleStays
  <2>4. CASE v = ListOf(a)
    <3>1. told'[v] = told[v] \cup {entry}
      BY <1>1, <2>1, <2>4 DEF TypeOK
    <3>2. \A x : In(v, x) => In(v, x)'
      BY <2>1 DEF In
    <3>3. In(v, ConsumerOf(a)) \/ Passed(v, item[a])
      BY <2>1, <2>4 DEF Sole, Listed
    <3>4. entry.consumer = ConsumerOf(a)
      OBVIOUS
    <3>5. \A e \in told'[v] : In(v, e.consumer)' \/ Passed(v, e.consumer.producer)'
      <4> HIDE DEF entry
      <4> QED
        BY <1>2, <1>4, <3>1, <3>2, <3>3, <3>4 DEF Sole
    <3>6. \A h \in Users : h # a => /\ h \in AddersTo(v)' <=> h \in AddersTo(v)
                                    /\ pc'[h] = pc[h] /\ item'[h] = item[h]
                                    /\ ListOf(h)' = ListOf(h)
                                    /\ ConsumerOf(h)' = ConsumerOf(h)
      BY DEF AddersTo, ListOf, ConsumerOf, OthersWait
    <3>7. ASSUME NEW h \in Users, pc'[h] \in Listed, ListOf(h)' = v
          PROVE  In(v, ConsumerOf(h))' \/ Passed(v, item[h])'
      <4>1. h # a
        BY <2>2, <3>7
      <4>2. In(v, ConsumerOf(h)) \/ Passed(v, item[h])
        BY <3>6, <3>7, <4>1 DEF Sole
      <4>3. In(v, ConsumerOf(h)) => In(v, ConsumerOf(h))'
        BY <3>2, <3>6, <4>1
      <4>4. Passed(v, item[h]) => Passed(v, item[h])'
        BY <1>4, <3>6, <4>1
      <4> QED
        BY <4>2, <4>3, <4>4
    <3>8. ASSUME NEW h \in AddersTo(v)', pc'[h] \in {"load", "store"}
          PROVE  ~Exists(v, item[h])'
      BY <2>1, <2>2, <3>6, <3>8 DEF Sole, Exists, AddersTo
    <3> QED
      BY <2>1, <3>5, <3>7, <3>8 DEF Sole
  <2> QED
    BY <2>3, <2>4
<1> QED
  BY <1>5, <1>6, <1>7, <1>8, <1>9, <1>10

\* A handler turns to a list, or is not at one.
LEMMA OtherSole ==
  ASSUME Base, Unique, NEW a \in Users, OthersWait(a), ProduceStep(a) \/ CloseStep(a),
         UNCHANGED <<told, consumers>>, raced \subseteq raced',
         pc'[a] \notin Listed \cup {"load", "store"}
  PROVE  Unique'
<1>1. \A v \in Users : \A p : Passed(v, p) => Passed(v, p)'
  BY PassedStays
<1>2. ASSUME NEW v \in Users, Sole(v) PROVE Sole(v)'
  BY <1>1, <1>2, SoleStays
<1> QED
  BY <1>2 DEF Unique

\* A close takes its own consumer from a list, and leaves the others in it.
LEMMA RemovalSole ==
  ASSUME Base, Unique, NEW a \in Users, OthersWait(a), RemoveConsumer(a)
  PROVE  Unique'
<1>1. PICK w \in Users :
          /\ ComeTo(a, w)
          /\ raced' = IF AddersTo(w) # {} THEN raced \cup {w} ELSE raced
          /\ \A x \in Users : x # w => consumers'[x] = consumers[x]
          /\ \A j \in DOMAIN consumers'[w] : \E k \in DOMAIN consumers[w] :
                consumers'[w][j] = consumers[w][k]
          /\ \A k \in DOMAIN consumers[w] : consumers[w][k].producer # cur[a] =>
                \E j \in DOMAIN consumers'[w] : consumers'[w][j] = consumers[w][k]
  BY RemovalLists DEF Base
<1>2. UNCHANGED <<told, pc, cur>> /\ pc[a] = "unconsume" /\ seen'[a] = seen[a] \cup {w}
  BY <1>1 DEF RemoveConsumer, sent, At, ComeTo, Base, TypeOK
<1> SUFFICES ASSUME NEW v \in Users \ raced', Sole(v) PROVE Sole(v)'
  BY <1>1 DEF Unique
<1>3. \A p : Passed(v, p) => Passed(v, p)'
  BY PassedStays DEF CloseStep
<1>4. a \notin AddersTo(v)' /\ pc'[a] \notin Listed
  BY <1>2 DEF AddersTo, Adding, Listed
<1>5. CASE v # w
  BY <1>1, <1>2, <1>3, <1>4, <1>5, SoleStays
<1>6. CASE v = w
  <2>1. \A h \in Users : /\ h \notin AddersTo(v)'
                         /\ h # a => /\ pc'[h] = pc[h] /\ item'[h] = item[h]
                                     /\ ListOf(h)' = ListOf(h)
                                     /\ ConsumerOf(h)' = ConsumerOf(h)
    BY <1>1, <1>4, <1>6 DEF AddersTo, ListOf, ConsumerOf, OthersWait
  <2>2. Passed(v, cur[a])'
    BY <1>2, <1>6 DEF Passed
  <2>3. \A x : In(v, x) => In(v, x)' \/ x.producer = cur[a]
    BY <1>1, <1>6 DEF In
  <2>4. \A e \in told'[v] : In(v, e.consumer)' \/ Passed(v, e.consumer.producer)'
    BY <1>2, <1>3, <2>2, <2>3 DEF Sole
  <2>5. ASSUME NEW h \in Users, pc'[h] \in Listed, ListOf(h)' = v
        PROVE  In(v, ConsumerOf(h))' \/ Passed(v, item[h])'
    <3>1. h # a /\ pc[h] \in Making
      BY <1>2, <1>4, <2>5 DEF Listed, Making
    <3>2. ConsumerOf(h).producer = item[h]
      BY <3>1, MakingIsTyped
    <3>3. In(v, ConsumerOf(h)) \/ Passed(v, item[h])
      BY <2>1, <2>5, <3>1 DEF Sole
    <3>4. Passed(v, item[h]) => Passed(v, item[h])'
      BY <1>3, <2>1, <3>1
    <3>5. In(v, ConsumerOf(h)) => In(v, ConsumerOf(h))' \/ item[h] = cur[a]
      BY <2>1, <2>3, <3>1, <3>2
    <3>6. item[h] = cur[a] => Passed(v, item[h])'
      BY <1>2, <2>1, <2>2, <3>1
    <3> QED
      BY <3>3, <3>4, <3>5, <3>6
  <2>6. \A i, j \in DOMAIN consumers'[v] :
            consumers'[v][i].producer = consumers'[v][j].producer =>
                consumers'[v][i] = consumers'[v][j]
    BY <1>1, <1>6 DEF Sole
  <2>7. AddersTo(v)' = {}
    BY <2>1 DEF AddersTo
  <2> QED
    BY <2>4, <2>5, <2>6, <2>7 DEF Sole
<1> QED
  BY <1>5, <1>6

\* One consumer of a producer in a list, in every state.
LEMMA UniqueInvariance == Spec => []Unique
<1>1. Init => Unique
  BY DEF Init, Unique, Sole, AddersTo, Adding, Listed
<1>2. Base /\ Base' /\ Numbered /\ Unique /\ [Next]_vars => Unique'
  <2> SUFFICES ASSUME Base, Base', Numbered, Unique, [Next]_vars PROVE Unique'
    OBVIOUS
  <2>1. ASSUME UNCHANGED <<consumers, pc, cur, iteration, making, sent, aux>>
        PROVE  Unique'
    <3>1. /\ UNCHANGED <<pc, told, consumers, raced, item>>
          /\ \A v \in Users : AddersTo(v)' = AddersTo(v)
          /\ \A h \in Users : ListOf(h)' = ListOf(h) /\ ConsumerOf(h)' = ConsumerOf(h)
          /\ \A v \in Users : \A c : In(v, c)' <=> In(v, c)
          /\ \A v \in Users : \A p : Passed(v, p)' <=> Passed(v, p)
          /\ \A v \in Users : \A p : Exists(v, p)' <=> Exists(v, p)
      BY <2>1 DEF iteration, making, sent, aux, AddersTo, ListOf, ConsumerOf, In, Passed,
         Exists
    <3>2. ASSUME NEW v \in Users, Sole(v) PROVE Sole(v)'
      <4>1. \A h \in Users : In(v, ConsumerOf(h))' <=> In(v, ConsumerOf(h))
        BY <3>1
      <4>2. \A h \in Users : Passed(v, item[h])' <=> Passed(v, item[h])
        BY <3>1
      <4>3. \A h \in Users : Exists(v, item[h])' <=> Exists(v, item[h])
        BY <3>1
      <4>4. \A e \in told[v] : In(v, e.consumer)' \/ Passed(v, e.consumer.producer)'
        BY <3>1, <3>2 DEF Sole
      <4> QED
        BY <3>1, <3>2, <4>1, <4>2, <4>3, <4>4 DEF Sole, AddersTo
    <3> QED
      BY <3>1, <3>2 DEF Unique
  <2>2. CASE UNCHANGED vars
    BY <2>1, <2>2 DEF vars, tables
  <2>3. ASSUME NEW u \in Users, AddUser(u) \/ DeleteUser(u) PROVE Unique'
    BY <2>1, <2>3 DEF AddUser, DeleteUser
  <2>4. ASSUME NEW u \in Users, ProduceStep(u) \/ CloseStep(u) PROVE Unique'
    <3>1. OthersWait(u)
      BY <2>4, ProduceBase, RangeBase, ConsumerBase, ReturnsBase, CloseProducerBase,
         CloseRangeBase, RemoveProducerBase DEF ProduceStep, CloseStep
    <3>2. CASE PushNext(u) \/ PullItem(u)
      <4>1. pc'[u] \in {"scanPush", "scanPull"} /\ UNCHANGED <<told, consumers>>
            /\ raced \subseteq raced'
        BY <3>2 DEF PushNext, PullItem, Goto, tables, sent, Base, TypeOK
      <4> QED
        BY <2>4, <3>1, <4>1, OtherSole DEF Listed
    <3>3. CASE \/ AddConsumerScan(u) \/ AddConsumerReset(u) \/ AddConsumerLoad(u)
               \/ AddConsumerStore(u)
               \/ ResetMid(u) \/ CreateConsumer(u) \/ RequestNewConsumer(u)
      BY <3>1, <3>3, ConsumerSole
    <3>4. CASE RemoveConsumer(u)
      BY <3>1, <3>4, RemovalSole
    <3>5. CASE \/ \E p \in Producers : Produce(u, p) \/ CloseProducer(u, p)
               \/ CreateProducer(u) \/ PushEnds(u) \/ PullNext(u) \/ PullMisses(u)
               \/ PullItemsEnd(u) \/ PullEnds(u) \/ CloseProducerOnWorker(u)
               \/ RemoveProducer(u) \/ RemoveConsumersEnd(u) \/ NotifyConsumerClosed(u)
               \/ CloseEnds(u)
      <4>1. pc'[u] \notin Making /\ UNCHANGED <<told, consumers, raced>>
        BY <3>1, <3>5, OtherApart
      <4> QED
        BY <2>4, <3>1, <4>1, OtherSole DEF Listed, Making
    <3> QED
      BY <2>4, <3>2, <3>3, <3>4, <3>5 DEF ProduceStep, CloseStep
  <2> QED
    BY <2>2, <2>3, <2>4 DEF Next
<1> QED
  BY <1>1, <1>2, BaseInvariance, NumberedInvariance, PTL DEF Spec

\* The consumer that its user was told of is in the user's list until the close
\* comes to it.
LEMMA DueIsListed ==
  ASSUME Base, Unique, NEW a \in Users, pc[a] \in {"remove", "unconsume"},
         NEW d \in due, Pursued(d), d[1] \in users \ raced, cur[a] = d[2].producer,
         pc[a] = "unconsume" => d[1] \notin seen[a]
  PROVE  d[1] \in Users /\ In(d[1], d[2])
<1>1. d[1] \in Users /\ \E e \in told[d[1]] : e.consumer = d[2]
  BY DEF Base, TypeOK, Pursued
<1>2. In(d[1], d[2]) \/ Passed(d[1], cur[a])
  BY <1>1 DEF Unique, Sole
<1>3. cur[a] \notin closed
  BY DEF Base, Handled, About, Owned, Closing, Removed
<1>4. ASSUME NEW h \in Users, cur[h] = cur[a], pc[h] \in Removed PROVE h = a
  BY <1>4 DEF Base, Handled, Removed
<1>5. ~Passed(d[1], cur[a])
  BY <1>3, <1>4 DEF Passed, Removed
<1> QED
  BY <1>1, <1>2, <1>5

\* Nothing of a consumer that is due rests on another handler, nor on one that is
\* not about its producer.
LEMMA PursuedStays ==
  ASSUME Base, NEW a \in Users, OthersWait(a), NEW d \in due, Pursued(d),
         users' \subseteq users, users \cup left \subseteq users' \cup left',
         raced \subseteq raced',
         \A w \in Users : told[w] \subseteq told'[w] /\ toldClosed[w] \subseteq toldClosed'[w],
         closed' \subseteq closed \/ (closed' = closed \cup {cur[a]} /\ pc[a] = "notify"
                                      /\ gone[a] = {}),
         cur'[a] = d[2].producer /\ d[1] \in users' \ raced' =>
            /\ pc'[a] = "unconsume" => d[1] \in todo'[a] \/ d \in gone'[a]
            /\ pc'[a] = "notify" => d \in gone'[a] \/ d[2] \in toldClosed'[d[1]]
  PROVE  Pursued(d)'
<1>1. d[1] \in Users
  BY DEF Base, TypeOK
<1>2. /\ d[1] \in users' \cup left'
      /\ \E e \in told'[d[1]] : e.consumer = d[2]
  BY <1>1 DEF Pursued
<1>3. ASSUME NEW h \in Users, cur'[h] = d[2].producer, d[1] \in users' \ raced'
      PROVE  /\ pc'[h] = "unconsume" => d[1] \in todo'[h] \/ d \in gone'[h]
             /\ pc'[h] = "notify" => d \in gone'[h] \/ d[2] \in toldClosed'[d[1]]
  <2>1. CASE h = a
    BY <1>3, <2>1
  <2>2. CASE h # a
    BY <1>1, <1>3, <2>2 DEF Pursued, OthersWait
  <2> QED
    BY <2>1, <2>2
<1>4. d[2].producer \in closed' /\ d[1] \in users' \ raced' => d[2] \in toldClosed'[d[1]]
  BY <1>1 DEF Pursued
<1> QED
  BY <1>2, <1>3, <1>4 DEF Pursued

\* A close begins: its producer was never closed.
LEMMA CloseBegins ==
  ASSUME Base, Followed, NEW a \in Users, OthersWait(a), NEW p \in Producers,
         CloseProducer(a, p)
  PROVE  Followed'
<1> USE DEF At, Goto, tables, iteration, making, sent
<1>1. /\ UNCHANGED <<users, left, raced, told, toldClosed, closed>>
      /\ pc'[a] = "close" /\ cur'[a] = p /\ p \in producers[a]
      /\ due' = due \cup UNION {{<<v, e.consumer>> : e \in {e \in told[v] :
                                  e.consumer.producer = p}} : v \in users}
  BY DEF CloseProducer, Base, TypeOK
<1> SUFFICES ASSUME NEW d \in due' PROVE Pursued(d)'
  BY DEF Followed
<1>2. CASE d \in due
  BY <1>1, <1>2, PursuedStays DEF Followed
<1>3. CASE d \notin due
  <2>0. PICK v \in users :
          \E e \in told[v] : d = <<v, e.consumer>> /\ e.consumer.producer = p
    BY <1>1, <1>3
  <2>1. PICK e \in told[v] : d = <<v, e.consumer>> /\ e.consumer.producer = p
    BY <2>0
  <2>2. d[1] = v /\ d[2] = e.consumer /\ d[2].producer = p
    BY <2>1
  <2>3. p \notin closed /\ \A h \in Users : h # a /\ cur[h] = p => pc[h] \notin Removed
    BY <1>1 DEF Base, Handled, About, Owned
  <2>4. \A h \in Users : cur'[h] = p => pc'[h] \notin {"unconsume", "notify"}
    BY <1>1, <2>3 DEF OthersWait, Removed
  <2> QED
    BY <1>1, <2>2, <2>3, <2>4 DEF Pursued
<1> QED
  BY <1>2, <1>3

\* A close goes on: it comes to every list in which its consumer is, and sends
\* what it found.
LEMMA CloseGoesOn ==
  ASSUME Base, Base', Unique, Followed, NEW a \in Users, OthersWait(a),
         RemoveProducer(a) \/ RemoveConsumer(a) \/ RemoveConsumersEnd(a)
         \/ NotifyConsumerClosed(a) \/ CloseEnds(a)
  PROVE  Followed'
<1> USE DEF At, Goto, tables, iteration, making, sent, aux
<1>1. UNCHANGED <<users, left, told, due>>
  BY DEF RemoveProducer, RemoveConsumer, RemoveConsumersEnd, NotifyConsumerClosed, CloseEnds
<1>2. raced \subseteq raced'
  BY RemovalLists DEF Base, RemoveProducer, RemoveConsumersEnd, NotifyConsumerClosed,
     CloseEnds
<1>3. \A w \in Users : toldClosed[w] \subseteq toldClosed'[w]
  <2>1. CASE NotifyConsumerClosed(a)
    BY <2>1 DEF NotifyConsumerClosed, Base, TypeOK
  <2>2. CASE ~NotifyConsumerClosed(a)
    BY <2>2 DEF RemoveProducer, RemoveConsumer, RemoveConsumersEnd, CloseEnds
  <2> QED
    BY <2>1, <2>2
<1>4. \/ closed' = closed
      \/ closed' = closed \cup {cur[a]} /\ pc[a] = "notify" /\ gone[a] = {}
  BY DEF RemoveProducer, RemoveConsumer, RemoveConsumersEnd, NotifyConsumerClosed, CloseEnds
<1> SUFFICES ASSUME NEW d \in due, Pursued(d), cur'[a] = d[2].producer,
                    d[1] \in users \ raced'
             PROVE  /\ pc'[a] = "unconsume" => d[1] \in todo'[a] \/ d \in gone'[a]
                    /\ pc'[a] = "notify" => d \in gone'[a] \/ d[2] \in toldClosed'[d[1]]
  BY <1>1, <1>2, <1>3, <1>4, PursuedStays DEF Followed
<1>5. d[1] \in users \ raced /\ d = <<d[1], d[2]>> /\ d[1] \in Users
  BY <1>2 DEF Base, TypeOK
<1>6. CASE RemoveProducer(a)
  <2>1. pc[a] = "remove" /\ cur' = cur /\ pc'[a] = "unconsume"
        /\ todo'[a] = {v \in Users : consumers[v] # <<>>} \ {a}
    BY <1>6 DEF RemoveProducer, StartRange, Base, TypeOK
  <2>2. In(d[1], d[2])
    BY <1>5, <2>1, DueIsListed
  <2>3. consumers[d[1]] # <<>>
    BY <2>2 DEF In
  <2>4. d[1] # a
    BY <1>5, <2>1 DEF Pursued, Base, Outside, Handled, About, Closing
  <2> QED
    BY <1>5, <2>1, <2>3, <2>4
<1>7. CASE RemoveConsumer(a)
  <2>1. PICK w \in Users :
          /\ ComeTo(a, w)
          /\ gone[a] \subseteq gone'[a]
          /\ Exists(w, cur[a]) => \E k \in DOMAIN consumers[w] :
                /\ consumers[w][k].producer = cur[a]
                /\ <<w, consumers[w][k]>> \in gone'[a]
    BY <1>7, RemovalLists DEF Base
  <2>2. pc[a] = "unconsume" /\ cur' = cur /\ pc' = pc
    BY <1>7 DEF RemoveConsumer
  <2>3. w \notin seen[a] /\ todo'[a] = todo[a] \ {w}
    BY <2>1 DEF ComeTo, Base, TypeOK
  <2>4. d[1] \in todo[a] \/ d \in gone[a]
    BY <1>5, <2>2 DEF Pursued
  <2>5. CASE d[1] = w
    <3>1. In(w, d[2])
      BY <1>5, <2>2, <2>3, <2>5, DueIsListed
    <3>2. PICK i \in DOMAIN consumers[w] : consumers[w][i] = d[2]
      BY <3>1 DEF In
    <3>3. Exists(w, cur[a])
      BY <2>2, <3>2 DEF Exists
    <3>4. PICK k \in DOMAIN consumers[w] : /\ consumers[w][k].producer = cur[a]
                                           /\ <<w, consumers[w][k]>> \in gone'[a]
      BY <2>1, <3>3
    <3>5. consumers[w][k] = d[2]
      BY <1>5, <2>2, <2>5, <3>2, <3>4 DEF Unique, Sole
    <3> QED
      BY <1>5, <2>2, <2>5, <3>4, <3>5
  <2>6. CASE d[1] # w
    BY <2>1, <2>2, <2>3, <2>4, <2>6
  <2> QED
    BY <2>5, <2>6
<1>8. CASE RemoveConsumersEnd(a)
  <2>1. pc[a] = "unconsume" /\ todo[a] = {} /\ pc'[a] = "notify" /\ cur' = cur
        /\ gone' = gone
    BY <1>8 DEF RemoveConsumersEnd, Base, TypeOK
  <2> QED
    BY <1>5, <2>1 DEF Pursued
<1>9. CASE NotifyConsumerClosed(a)
  <2>1. PICK g \in gone[a] :
            /\ gone' = [gone EXCEPT ![a] = @ \ {g}]
            /\ toldClosed' = IF g[1] \in users
                             THEN [toldClosed EXCEPT ![g[1]] = @ \cup {g[2]}]
                             ELSE toldClosed
    BY <1>9 DEF NotifyConsumerClosed
  <2>2. pc[a] = "notify" /\ pc' = pc /\ cur' = cur
    BY <1>9 DEF NotifyConsumerClosed
  <2>3. d \in gone[a] \/ d[2] \in toldClosed[d[1]]
    BY <1>5, <2>2 DEF Pursued
  <2>4. CASE d = g
    BY <1>5, <2>1, <2>2, <2>4 DEF Base, TypeOK
  <2>5. CASE d # g
    BY <1>3, <1>5, <2>1, <2>2, <2>3, <2>5 DEF Base, TypeOK
  <2> QED
    BY <2>4, <2>5
<1>10. CASE CloseEnds(a)
  BY <1>10 DEF CloseEnds, Returns, Base, TypeOK
<1> QED
  BY <1>6, <1>7, <1>8, <1>9, <1>10

\* Where every consumer that is due has got to, in every state.
LEMMA FollowedInvariance == Spec => []Followed
<1>1. Init => Followed
  BY DEF Init, Followed
<1>2. Base /\ Base' /\ Unique /\ Followed /\ [Next]_vars => Followed'
  <2> SUFFICES ASSUME Base, Base', Unique, Followed, [Next]_vars PROVE Followed'
    OBVIOUS
  <2>1. CASE UNCHANGED vars
    BY <2>1 DEF vars, tables, iteration, sent, aux, Followed, Pursued
  <2>2. ASSUME NEW u \in Users, AddUser(u) \/ DeleteUser(u) PROVE Followed'
    <3>1. UNCHANGED <<pc, cur, iteration, gone, sent, aux>>
      BY <2>2 DEF AddUser, DeleteUser
    <3>2. ASSUME NEW d \in due
          PROVE  /\ d[1] \in users \cup left => d[1] \in users' \cup left'
                 /\ d[1] \in users \cup left /\ d[1] \in users' => d[1] \in users
      BY <2>2 DEF AddUser, DeleteUser
    <3> QED
      BY <3>1, <3>2 DEF Followed, Pursued, iteration, sent, aux
  <2>3. ASSUME NEW u \in Users, ProduceStep(u) \/ CloseStep(u) PROVE Followed'
    <3>1. OthersWait(u)
      BY <2>3, ProduceBase, RangeBase, ConsumerBase, ReturnsBase, CloseProducerBase,
         CloseRangeBase, RemoveProducerBase DEF ProduceStep, CloseStep
    <3>2. CASE \E p \in Producers : CloseProducer(u, p)
      BY <3>1, <3>2, CloseBegins
    <3>3. CASE \/ RemoveProducer(u) \/ RemoveConsumer(u) \/ RemoveConsumersEnd(u)
               \/ NotifyConsumerClosed(u) \/ CloseEnds(u)
      BY <3>1, <3>3, CloseGoesOn
    <3>4. CASE ProduceStep(u) \/ CloseProducerOnWorker(u)
      <4>1. /\ UNCHANGED <<users, left, toldClosed, closed, due>> /\ raced \subseteq raced'
            /\ pc'[u] \notin {"unconsume", "notify"}
        <5> USE DEF Goto, At, tables, sent, aux, Returns
        <5>1. UNCHANGED <<users, left, toldClosed, closed, due>> /\ raced \subseteq raced'
          BY <3>4 DEF ProduceStep, Produce, CreateProducer, PushNext, PushEnds,
             PullNext, PullItem, PullMisses, PullItemsEnd, PullEnds, AddConsumerScan,
             AddConsumerReset, AddConsumerLoad, AddConsumerStore, ResetMid,
             CreateConsumer, RequestNewConsumer, CloseProducerOnWorker
        <5>2. \/ pc' = pc /\ pc[u] = "pullItems"
              \/ \E q \in Points \ Removed : pc' = [pc EXCEPT ![u] = q]
          BY <3>4 DEF ProduceStep, Produce, CreateProducer, PushNext, PushEnds,
             PullNext, PullItem, PullMisses, PullItemsEnd, PullEnds, AddConsumerScan,
             AddConsumerReset, AddConsumerLoad, AddConsumerStore, ResetMid,
             CreateConsumer, RequestNewConsumer, CloseProducerOnWorker, Points,
             Removed
        <5> QED
          BY <5>1, <5>2 DEF Removed, Base, TypeOK
      <4>2. \A w \in Users : told[w] \subseteq told'[w]
        BY <2>3, ToldGrows
      <4> QED
        BY <3>1, <4>1, <4>2, PursuedStays DEF Followed
    <3> QED
      BY <2>3, <3>2, <3>3, <3>4 DEF CloseStep
  <2> QED
    BY <2>1, <2>2, <2>3 DEF Next
<1> QED
  BY <1>1, <1>2, BaseInvariance, UniqueInvariance, PTL DEF Spec

\* Whoever had a consumer when the close of its producer began was told of it,
\* for any number of closes at once, with the exception of MidsDistinct.
THEOREM CloseReachesConsumers == Spec => []ClosedIsTold
<1>1. Followed => ClosedIsTold
  BY DEF Followed, Pursued, ClosedIsTold
<1> QED
  BY <1>1, FollowedInvariance, PTL

\* The tables and the locals of every handler keep their types.
THEOREM TypeCorrect == Spec => []TypeOK
<1>1. Base => TypeOK
  BY DEF Base
<1> QED
  BY <1>1, BaseInvariance, PTL
=============================================================================
