----------------------------- MODULE MediaRouter -----------------------------
(***************************************************************************)
(* Who is told about whose media: Room.Produce and Room.CloseProducer of   *)
(* room.go, on the tables of the Router of worker.go.                      *)
(*                                                                         *)
(* The handlers of a user run one after the other on the user's reader;    *)
(* those of different users run at the same time and share r.users,        *)
(* r.producers and r.consumers without a lock.  A step is one use of a     *)
(* table or one request to the worker, and the append to a consumer list   *)
(* is a load and a store, before which a list that is missing is made: two *)
(* of them at once may lose an entry, or all of a new list.                *)
(*                                                                         *)
(* The requests to the worker (CreateProducer, CreateConsumer,             *)
(* CloseProducer) take time and may fail; their errors are only logged.    *)
(* Sending to a client is one step here: module Signaling is about the     *)
(* channels, and about what may end the process, which only cuts the       *)
(* behaviours of this module short.                                        *)
(***************************************************************************)
EXTENDS Naturals, Sequences, FiniteSets

CONSTANTS
    Users,      \* user ids: a new connection has a new one
    Producers,  \* Producer objects; bounds the produce requests
    KindOf,     \* audio or video
    NoUser, NoProducer

ASSUME MediaAssumption == NoUser \notin Users /\ NoProducer \notin Producers

VARIABLES
    users,      \* r.users
    left,       \* users whose connection has ended
    producers,  \* r.producers: the list of each user, as a set
    consumers,  \* r.consumers
    pc,         \* the point each user's reader is at
    cur,        \* the Producer the handler is about
    todo, seen, \* a map iteration: keys it must and has come to
    peer,       \* the key it is at
    base, pull, \* the producers of the peer: at the start, and still to come
    item,       \* the Producer a Consumer is being made for
    snap,       \* the list an append has loaded
    mid,        \* the mid of the consumer being made
    gone,       \* CloseProducer's closedConsumers
    told,       \* newConsumer requests each user was sent
    toldClosed, \* consumerClosed notifications each user was sent
    \* for the properties alone:
    started,    \* Producers a produce request was received for
    asMember,   \* those whose owner was in r.users at that moment
    finished,   \* those whose Produce has returned
    closed,     \* those whose CloseProducer has returned
    due,        \* consumers members had when the close of their producer began
    raced,      \* users whose list two goroutines have worked on at once
    missed      \* <<user, Producer>>: moved away under an iteration

tables == <<users, left, producers, consumers>>
iteration == <<todo, seen, peer, base, pull>>
making == <<item, snap, mid>>
sent == <<told, toldClosed>>
aux == <<started, asMember, finished, closed, due, raced, missed>>
vars == <<tables, pc, cur, iteration, making, gone, sent, aux>>

(* A Consumer, by the producer it is for and the handler that made it: the  *)
(* producer's own Produce ("push") or the consuming user's ("pull").        *)
Consumers == [producer : Producers, via : {"push", "pull"}]

Points == {"idle", "create", "push", "scanPush", "pull", "pullItems",
           "scanPull", "reset", "load", "store", "mid", "consume", "tell",
           "close", "remove", "unconsume", "notify"}

TypeOK ==
    /\ users \subseteq Users /\ left \subseteq Users
    /\ producers \in [Users -> SUBSET Producers]
    /\ consumers \in [Users -> Seq(Consumers)] /\ snap \in [Users -> Seq(Consumers)]
    /\ pc \in [Users -> Points]
    /\ cur \in [Users -> Producers \cup {NoProducer}]
    /\ todo \in [Users -> SUBSET Users] /\ seen \in [Users -> SUBSET Users]
    /\ peer \in [Users -> Users \cup {NoUser}]
    /\ base \in [Users -> SUBSET Producers] /\ pull \in [Users -> SUBSET Producers]
    /\ item \in [Users -> Producers \cup {NoProducer}]
    /\ mid \in [Users -> Nat]
    /\ gone \in [Users -> SUBSET (Users \X Consumers)]
    /\ told \in [Users -> SUBSET [consumer : Consumers, mid : Nat]]
    /\ toldClosed \in [Users -> SUBSET Consumers]
    /\ started \cup asMember \cup finished \cup closed \subseteq Producers
    /\ due \subseteq Users \X Consumers /\ raced \subseteq Users
    /\ missed \subseteq Users \X Producers

Init ==
    /\ users = {} /\ left = {}
    /\ producers = [u \in Users |-> {}]
    /\ consumers = [u \in Users |-> <<>>]
    /\ pc = [u \in Users |-> "idle"]
    /\ cur = [u \in Users |-> NoProducer]
    /\ todo = [u \in Users |-> {}] /\ seen = [u \in Users |-> {}]
    /\ peer = [u \in Users |-> NoUser]
    /\ base = [u \in Users |-> {}] /\ pull = [u \in Users |-> {}]
    /\ item = [u \in Users |-> NoProducer]
    /\ snap = [u \in Users |-> <<>>]
    /\ mid = [u \in Users |-> 0]
    /\ gone = [u \in Users |-> {}]
    /\ told = [u \in Users |-> {}] /\ toldClosed = [u \in Users |-> {}]
    /\ started = {} /\ asMember = {} /\ finished = {} /\ closed = {}
    /\ due = {} /\ raced = {} /\ missed = {}

-----------------------------------------------------------------------------
At(u, p) == pc[u] = p
Goto(u, p) == pc' = [pc EXCEPT ![u] = p]

\* the user whose list the handler of u adds to, at these points
Adding == {"scanPush", "scanPull", "reset", "load", "store", "mid"}
ListOf(u) == IF item[u] = cur[u] THEN peer[u] ELSE u
AddersTo(v) == {h \in Users : pc[h] \in Adding /\ ListOf(h) = v}

\* The range over r.users: every entry that stays is come to, none that was
\* removed, and one that is added may be.
StartRange(u, S) ==
    /\ todo' = [todo EXCEPT ![u] = S \ {u}]
    /\ seen' = [seen EXCEPT ![u] = {u}]
ComeTo(u, v) ==
    /\ v \notin seen[u]
    /\ todo' = [todo EXCEPT ![u] = @ \ {v}]
    /\ seen' = [seen EXCEPT ![u] = @ \cup {v}]
    /\ peer' = [peer EXCEPT ![u] = v]

\* the handler returns to the reader's loop
Returns(u) ==
    /\ Goto(u, "idle")
    /\ cur' = [cur EXCEPT ![u] = NoProducer]
    /\ todo' = [todo EXCEPT ![u] = {}]
    /\ seen' = [seen EXCEPT ![u] = {}]
    /\ peer' = [peer EXCEPT ![u] = NoUser]

-----------------------------------------------------------------------------
(* Run's part: membership, see module Signaling.                            *)

AddUser(u) ==
    /\ u \notin users \cup left
    /\ users' = users \cup {u}
    /\ UNCHANGED <<left, producers, consumers, pc, cur, iteration, making, gone,
                   sent, aux>>

\* The user's reader has ended; its producers and consumers stay.
DeleteUser(u) ==
    /\ At(u, "idle")
    /\ u \in users
    /\ users' = users \ {u}
    /\ left' = left \cup {u}
    /\ UNCHANGED <<producers, consumers, pc, cur, iteration, making, gone, sent,
                   aux>>

-----------------------------------------------------------------------------
(* Produce.                                                                 *)

\* addProducer comes first
Produce(u, p) ==
    /\ At(u, "idle") /\ u \notin left
    /\ p \notin started
    /\ cur' = [cur EXCEPT ![u] = p]
    /\ producers' = [producers EXCEPT ![u] = @ \cup {p}]
    /\ started' = started \cup {p}
    /\ asMember' = IF u \in users THEN asMember \cup {p} ELSE asMember
    /\ Goto(u, "create")
    /\ UNCHANGED <<users, left, consumers, iteration, making, gone, sent,
                   finished, closed, due, raced, missed>>

\* The worker has answered or not; the range of ReqOtherNewConsumer begins.
CreateProducer(u) ==
    /\ At(u, "create")
    /\ StartRange(u, users)
    /\ Goto(u, "push")
    /\ UNCHANGED <<tables, cur, peer, base, pull, making, gone, sent, aux>>

\* ReqOtherNewConsumer: for every other user a consumer of the new producer
PushNext(u) ==
    /\ At(u, "push")
    /\ \E v \in users :
        /\ ComeTo(u, v)
        /\ raced' = IF AddersTo(v) # {} THEN raced \cup {v} ELSE raced
    /\ item' = [item EXCEPT ![u] = cur[u]]
    /\ Goto(u, "scanPush")
    /\ UNCHANGED <<tables, cur, base, pull, snap, mid, gone, sent,
                   started, asMember, finished, closed, due, missed>>

PushEnds(u) ==
    /\ At(u, "push")
    /\ todo[u] \cap users = {}
    /\ StartRange(u, users)
    /\ Goto(u, "pull")
    /\ UNCHANGED <<tables, cur, peer, base, pull, making, gone, sent, aux>>

\* Mutant: a producer whose Produce is still running is not taken.
PullNextSettled(u) ==
    /\ At(u, "pull")
    /\ \E v \in users :
        /\ ComeTo(u, v)
        /\ base' = [base EXCEPT ![u] = producers[v] \ {cur[v]}]
        /\ pull' = [pull EXCEPT ![u] = {p \in producers[v] \ {cur[v]} :
                                          KindOf[p] = KindOf[cur[u]]}]
    /\ Goto(u, "pullItems")
    /\ UNCHANGED <<tables, cur, making, gone, sent, aux>>

\* ReqPullOtherNewProducer: for every producer of the same kind that another
\* user has, a consumer for this user
PullNext(u) ==
    /\ At(u, "pull")
    /\ \E v \in users :
        /\ ComeTo(u, v)
        /\ base' = [base EXCEPT ![u] = producers[v]]
        /\ pull' = [pull EXCEPT ![u] = {p \in producers[v] :
                                          KindOf[p] = KindOf[cur[u]]}]
    /\ Goto(u, "pullItems")
    /\ UNCHANGED <<tables, cur, making, gone, sent, aux>>

PullItem(u) ==
    /\ At(u, "pullItems")
    /\ \E p \in pull[u] :
        /\ pull' = [pull EXCEPT ![u] = @ \ {p}]
        /\ item' = [item EXCEPT ![u] = p]
    /\ raced' = IF AddersTo(u) # {} THEN raced \cup {u} ELSE raced
    /\ Goto(u, "scanPull")
    /\ UNCHANGED <<tables, cur, todo, seen, peer, base, snap, mid, gone, sent,
                   started, asMember, finished, closed, due, missed>>

\* removeProducer moves the rest of the list down in place: a range over it
\* that is under way may miss elements.
PullMisses(u) ==
    /\ At(u, "pullItems")
    /\ base[u] \ producers[peer[u]] # {}
    /\ \E p \in pull[u] :
        /\ pull' = [pull EXCEPT ![u] = @ \ {p}]
        /\ missed' = missed \cup {<<u, p>>}
    /\ UNCHANGED <<tables, pc, cur, todo, seen, peer, base, making, gone, sent,
                   started, asMember, finished, closed, due, raced>>

PullItemsEnd(u) ==
    /\ At(u, "pullItems")
    /\ pull[u] = {}
    /\ base' = [base EXCEPT ![u] = {}]
    /\ Goto(u, "pull")
    /\ UNCHANGED <<tables, cur, todo, seen, peer, pull, making, gone, sent, aux>>

PullEnds(u) ==
    /\ At(u, "pull")
    /\ todo[u] \cap users = {}
    /\ finished' = finished \cup {cur[u]}
    /\ Returns(u)
    /\ UNCHANGED <<tables, base, pull, making, gone, sent, started, asMember,
                   closed, due, raced, missed>>

-----------------------------------------------------------------------------
(* addConsumer and CreateNewConsumerData, for both.                         *)

Exists(v, p) == \E i \in DOMAIN consumers[v] : consumers[v][i].producer = p

\* r.consumers has an entry for v: whoever is at the append has found or made one
HasEntry(v) ==
    consumers[v] # <<>> \/ \E h \in AddersTo(v) : pc[h] \in {"load", "store"}

\* ReqPullOtherNewProducer goes on only with a consumer that was added,
\* ReqOtherNewConsumer does not look at the result.
AddConsumerScan(u) ==
    /\ pc[u] \in {"scanPush", "scanPull"}
    /\ \/ /\ ~Exists(ListOf(u), item[u])
          /\ Goto(u, IF HasEntry(ListOf(u)) THEN "load" ELSE "reset")
          /\ UNCHANGED <<item, raced>>
       \/ /\ At(u, "scanPull") /\ Exists(u, item[u])
          /\ item' = [item EXCEPT ![u] = NoProducer]
          /\ Goto(u, "pullItems")
          /\ UNCHANGED raced
       \/ /\ At(u, "scanPush") /\ Exists(peer[u], item[u])
          /\ raced' = raced \cup {peer[u]}
          /\ Goto(u, "mid")
          /\ UNCHANGED item
    /\ UNCHANGED <<tables, cur, iteration, snap, mid, gone, sent, started,
                   asMember, finished, closed, due, missed>>

\* an empty list for a user that had none, though it may have one by now
AddConsumerReset(u) ==
    /\ At(u, "reset")
    /\ consumers' = [consumers EXCEPT ![ListOf(u)] = <<>>]
    /\ Goto(u, "load")
    /\ UNCHANGED <<users, left, producers, cur, iteration, making, gone, sent, aux>>

AddConsumerLoad(u) ==
    /\ At(u, "load")
    /\ snap' = [snap EXCEPT ![u] = consumers[ListOf(u)]]
    /\ Goto(u, "store")
    /\ UNCHANGED <<tables, cur, iteration, item, mid, gone, sent, aux>>

ConsumerOf(u) == [producer |-> item[u],
                  via |-> IF item[u] = cur[u] THEN "push" ELSE "pull"]

AddConsumerStore(u) ==
    /\ At(u, "store")
    /\ consumers' = [consumers EXCEPT ![ListOf(u)] = Append(snap[u], ConsumerOf(u))]
    /\ snap' = [snap EXCEPT ![u] = <<>>]
    /\ Goto(u, "mid")
    /\ UNCHANGED <<users, left, producers, cur, iteration, item, mid, gone, sent,
                   aux>>

\* getConsumerStreamMid: the length of the list
ResetMid(u) ==
    /\ At(u, "mid")
    /\ mid' = [mid EXCEPT ![u] = Len(consumers[ListOf(u)])]
    /\ Goto(u, "consume")
    /\ UNCHANGED <<tables, cur, iteration, item, snap, gone, sent, aux>>

\* the request to the worker, answered or not
CreateConsumer(u) ==
    /\ At(u, "consume")
    /\ Goto(u, "tell")
    /\ UNCHANGED <<tables, cur, iteration, making, gone, sent, aux>>

\* newConsumer to the client
RequestNewConsumer(u) ==
    /\ At(u, "tell")
    /\ told' = [told EXCEPT ![ListOf(u)] =
                  @ \cup {[consumer |-> ConsumerOf(u), mid |-> mid[u]]}]
    /\ Goto(u, IF item[u] = cur[u] THEN "push" ELSE "pullItems")
    /\ item' = [item EXCEPT ![u] = NoProducer]
    /\ mid' = [mid EXCEPT ![u] = 0]
    /\ UNCHANGED <<tables, cur, iteration, snap, gone, toldClosed, aux>>

-----------------------------------------------------------------------------
(* CloseProducer.                                                           *)

\* GetProducer finds it, or the notification has no effect.
CloseProducer(u, p) ==
    /\ At(u, "idle") /\ u \notin left
    /\ p \in producers[u]
    /\ cur' = [cur EXCEPT ![u] = p]
    /\ due' = due \cup UNION {{<<v, e.consumer>> : e \in {e \in told[v] :
                                e.consumer.producer = p}} : v \in users}
    /\ Goto(u, "close")
    /\ UNCHANGED <<tables, iteration, making, gone, sent, started, asMember,
                   finished, closed, raced, missed>>

\* the request to the worker, answered or not
CloseProducerOnWorker(u) ==
    /\ At(u, "close")
    /\ Goto(u, "remove")
    /\ UNCHANGED <<tables, cur, iteration, making, gone, sent, aux>>

\* removeProducer; the range of removeConsumerByProducerId over r.consumers
\* begins.
RemoveProducer(u) ==
    /\ At(u, "remove")
    /\ producers' = [producers EXCEPT ![u] = @ \ {cur[u]}]
    /\ StartRange(u, {v \in Users : consumers[v] # <<>>})
    /\ Goto(u, "unconsume")
    /\ UNCHANGED <<users, left, consumers, cur, peer, base, pull, making, gone,
                   sent, aux>>

\* append(s[:i], s[i+1:]...) on a copy of the slice: the list of the map keeps
\* its length, and its last element twice.
MoveDown(s, i) ==
    [j \in 1..Len(s) |-> IF j \in i..(Len(s) - 1) THEN s[j + 1] ELSE s[j]]

FirstFor(v, p) == CHOOSE i \in DOMAIN consumers[v] :
    /\ consumers[v][i].producer = p
    /\ \A j \in 1..(i - 1) : consumers[v][j].producer # p

\* Mutant: the shortened list is stored.
RemoveConsumerShortens(u) ==
    /\ At(u, "unconsume")
    /\ \E v \in {v \in Users : consumers[v] # <<>>} :
        LET i == FirstFor(v, cur[u]) IN
        /\ ComeTo(u, v)
        /\ raced' = IF AddersTo(v) # {} THEN raced \cup {v} ELSE raced
        /\ IF Exists(v, cur[u])
           THEN /\ gone' = [gone EXCEPT ![u] = @ \cup {<<v, consumers[v][i]>>}]
                /\ consumers' = [consumers EXCEPT ![v] =
                                   SubSeq(@, 1, i - 1) \o SubSeq(@, i + 1, Len(@))]
           ELSE UNCHANGED <<gone, consumers>>
    /\ UNCHANGED <<users, left, producers, pc, cur, base, pull, making, sent,
                   started, asMember, finished, closed, due, missed>>

\* Mutant: the user's whole entry is deleted.
RemoveConsumerDeletesAll(u) ==
    /\ At(u, "unconsume")
    /\ \E v \in {v \in Users : consumers[v] # <<>>} :
        LET i == FirstFor(v, cur[u]) IN
        /\ ComeTo(u, v)
        /\ raced' = IF AddersTo(v) # {} THEN raced \cup {v} ELSE raced
        /\ IF Exists(v, cur[u])
           THEN /\ gone' = [gone EXCEPT ![u] = @ \cup {<<v, consumers[v][i]>>}]
                /\ consumers' = [consumers EXCEPT ![v] = <<>>]
           ELSE UNCHANGED <<gone, consumers>>
    /\ UNCHANGED <<users, left, producers, pc, cur, base, pull, making, sent,
                   started, asMember, finished, closed, due, missed>>

RemoveConsumer(u) ==
    /\ At(u, "unconsume")
    /\ \E v \in {v \in Users : consumers[v] # <<>>} :
        LET i == FirstFor(v, cur[u]) IN
        /\ ComeTo(u, v)
        /\ raced' = IF AddersTo(v) # {} THEN raced \cup {v} ELSE raced
        /\ IF Exists(v, cur[u])
           THEN /\ gone' = [gone EXCEPT ![u] = @ \cup {<<v, consumers[v][i]>>}]
                /\ consumers' = [consumers EXCEPT ![v] = MoveDown(@, i)]
           ELSE UNCHANGED <<gone, consumers>>
    /\ UNCHANGED <<users, left, producers, pc, cur, base, pull, making, sent,
                   started, asMember, finished, closed, due, missed>>

RemoveConsumersEnd(u) ==
    /\ At(u, "unconsume")
    /\ todo[u] = {}
    /\ Goto(u, "notify")
    /\ UNCHANGED <<tables, cur, iteration, making, gone, sent, aux>>

\* consumerClosed, to those who are still in the room
NotifyConsumerClosed(u) ==
    /\ At(u, "notify")
    /\ \E g \in gone[u] :
        /\ gone' = [gone EXCEPT ![u] = @ \ {g}]
        /\ toldClosed' = IF g[1] \in users
                         THEN [toldClosed EXCEPT ![g[1]] = @ \cup {g[2]}]
                         ELSE toldClosed
    /\ UNCHANGED <<tables, pc, cur, iteration, making, told, aux>>

CloseEnds(u) ==
    /\ At(u, "notify")
    /\ gone[u] = {}
    /\ closed' = closed \cup {cur[u]}
    /\ Returns(u)
    /\ UNCHANGED <<tables, base, pull, making, gone, sent, started, asMember,
                   finished, due, raced, missed>>

-----------------------------------------------------------------------------
ProduceStep(u) ==
    \/ (\E p \in Producers : Produce(u, p)) \/ CreateProducer(u)
    \/ PushNext(u) \/ PushEnds(u)
    \/ PullNext(u) \/ PullItem(u) \/ PullMisses(u) \/ PullItemsEnd(u) \/ PullEnds(u)
    \/ AddConsumerScan(u) \/ AddConsumerReset(u)
    \/ AddConsumerLoad(u) \/ AddConsumerStore(u)
    \/ ResetMid(u) \/ CreateConsumer(u) \/ RequestNewConsumer(u)

CloseStep(u) ==
    \/ (\E p \in Producers : CloseProducer(u, p)) \/ CloseProducerOnWorker(u)
    \/ RemoveProducer(u)
    \/ RemoveConsumer(u) \/ RemoveConsumersEnd(u)
    \/ NotifyConsumerClosed(u) \/ CloseEnds(u)

Next == \E u \in Users :
    AddUser(u) \/ DeleteUser(u) \/ ProduceStep(u) \/ CloseStep(u)

Spec == Init /\ [][Next]_vars

-----------------------------------------------------------------------------
\* Two members who have both produced media of one kind have each been told
\* of the other's, in whatever order they joined and produced and whoever was
\* still producing when the other came: addProducer before the push, and the
\* push before the pull, leave no gap between them.  It is about producers that
\* are still open, whose Produce has returned and had begun when its user was in
\* r.users already; a producer that a range has missed because removeProducer
\* moved the list under it (PullMisses) is left out for the user who missed it.
FullMesh ==
    \A u, v \in users : \A p \in producers[u], q \in producers[v] :
        /\ u # v /\ KindOf[p] = KindOf[q]
        /\ {p, q} \subseteq finished \cap asMember
        /\ <<v, p>> \notin missed
        => \E e \in told[v] : e.consumer.producer = p

\* The mids of a user's consumers are distinct, across closed producers too,
\* as long as its list was not worked on by two goroutines at once.
MidsDistinct ==
    \A v \in Users \ raced : \A d, e \in told[v] : d.mid = e.mid => d = e

\* A member who had a consumer when the close of its producer began has been
\* told that it is closed when the close returns, whatever else was closed
\* before, with the same exception.
ClosedIsTold ==
    \A d \in due :
        /\ d[2].producer \in closed
        /\ d[1] \in users \ raced
        => d[2] \in toldClosed[d[1]]
=============================================================================
