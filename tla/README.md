# singal in TLA+

TLA+ specifications of the signaling server in `src/`, their TLC models and the
proofs TLAPS checks about them.

`singal` is a signaling server for WebRTC conferences, in Go.  Browsers hold a
WebSocket connection to it; media workers hold a gRPC stream to it.  The server
keeps the rooms, tells every participant about the media of the others, and
asks the workers to create and close routers, transports, producers and
consumers.

## Inventory

| Part | Source | State | Operations | Talks to |
|---|---|---|---|---|
| request channel | `grpcServer.go` (`Sync`, `getWorkerStream`, `sendRequest`) | `s.workers`, `s.nextID`, `ws.pending`, one channel per call | registrations, keepalives and answers in; requests out; timeout | workers (gRPC stream); every RPC wrapper calls `sendRequest` |
| worker registry | `workerManager.go`, `worker.go` (`Worker`) | `wm.workers`; status, heartbeat, counters and routers of each `Worker` | register, remove, heartbeat, statistics, expiry, choice, count routers | called by `Sync` and by `CreateRouterOnWorker`/`CloseRouterOnWorker` |
| signaling server | `wssServer.go`, `user.go`, `roomManager.go`, `room.go` (membership) | `w.Users`, `sendMsg` of each user, `rm.rooms`, `r.users` | register, unregister, read, write, create and close rooms | browsers (WebSocket); request channel |
| media router | `room.go` (`Produce`, `CloseProducer`), `worker.go` (`Router`) | producer and consumer lists | produce, close, tell the others | called by the handlers of the signaling server; request channel |
| RTP parameters and transports | `room.go` (`ChangeExtensionId`, `RemoveFeedbackRemb`, `CreateNewConsumerData`, transports), `grpcServer.go` (`CreateProducer`, `CreateConsumer`) | slices shared by a producer and its consumers; transport ids | rewrite ids and payload types, declare producers, ask for consumers | media router; request channel |
| retry queue | `httpReqQueue.go`, `httpClient.go` | `req.queue` | push, pop, post, retry | other services (HTTP); `NewReqQueue` has no caller yet |
| accounts | `httpHandler.go`, `emailService.go`, `authDB.go` | codes in redis, the account table | register, verify, complete, log in | redis, MySQL, SMTP |
| redis scripts | `redis.go` | none after start-up | join and compile scripts | redis; no caller |
| the rest | `httpServer.go`, `config.go`, `logger.go`, `util.go`, `reqResData.go`, `proto/`, `main.go` | none that changes | start-up, formatting, declarations, generated code | |

What is hard in it:

* **Goroutines.**  One per worker connection, one per call to a worker (on the
  goroutine of whoever calls), the cleanup ticker, `Run`, and two per user.
  They share `sync.Map`s, maps under a mutex, and (in rooms and routers) maps
  and slices under no lock at all.  HTTP requests have one each and share redis
  and the database; the retry queue has one for all retries.
* **Pointers used after the lock.**  The registry looks a `Worker` up under
  `wm.mu` and changes it later under the worker's own lock.
* **Channels without a buffer.**  A user's `sendMsg` has exactly one receiver,
  which ends on the first write error, and any number of senders, `Run` among
  them; `Run` closes it.
* **Failure.**  A worker may answer late, twice, out of order or never; streams
  break at any point; registrations under one id may come from two streams; a
  WebSocket may close while its user is being told something.  Redis, the
  database, the mail server or a service called back may fail before, or after,
  it has done what it was asked.
* **Time.**  Ten seconds for a request, sixty for a heartbeat, thirty for the
  cleanup, ten minutes for a verification code; none at all for a callback.

What makes each part correct is the list of properties below; `PROJECT.json`
lists the places where each could go wrong.

## Modules

| Module | Models | Checked by |
|---|---|---|
| `RequestReply` | abstract: what `sendRequest` promises its callers | refinement target |
| `RequestChannel` | `Sync` and `sendRequest` | `MCRequestChannel`: `RequestChannel.cfg`, `RequestChannelLive.cfg` |
| `RequestChannelProofs` | theorems about `RequestChannel` | TLAPS |
| `WorkerRegistry` | `WorkerManager`, with `Sync` and the router goroutines around it | `MCWorkerRegistry`: `WorkerRegistrySync.cfg`, `WorkerRegistryRouters.cfg` |
| `WorkerRegistryProofs` | theorems about `WorkerRegistry` | TLAPS |
| `Signaling` | `Run`, `HandleWebSocket`, `ReadMessage`, `WriteMessage`, rooms | `MCSignaling`: `Signaling.cfg`, `SignalingLive.cfg`, `SignalingNotify.cfg`, `SignalingRouters.cfg` |
| `SignalingProofs` | theorems about `Signaling` | TLAPS |
| `MediaRouter` | `Produce`, `CloseProducer` on the tables of `Router` | `MCMediaRouter`: `MediaRouter.cfg` |
| `MediaRouterProofs` | theorems about `MediaRouter` | TLAPS |
| `MediaParameters` | what worker and clients are told of one producer; consumer transports | `MCMediaParameters`: `MediaParameters.cfg` |
| `FeedbackProofs` | lemmas about the loops over feedback in `MediaParameters` | TLAPS |
| `MediaParametersProofs` | theorems about `MediaParameters` | TLAPS |
| `Accounts` | the handlers of `httpHandler.go` over redis, database and mail | `MCAccounts`: `Accounts.cfg` |
| `AccountsProofs` | theorems about `Accounts` | TLAPS |
| `CallbackDelivery` | abstract: what `ExecuteRequest` promises of a callback | refinement target |
| `RetryQueue` | `ReqQueue` and `sendPost` | `MCRetryQueue`: `RetryQueue.cfg` |
| `RetryQueueProofs` | theorems about `RetryQueue` | TLAPS |

An `MC` module adds the definitions a `.cfg` needs (symmetry sets, reports,
kinds) and nothing else.  Definitions whose comment begins with "Mutant:" are
not part of any specification: each is a wrong version of the definition after
it, and replacing the one by the other makes the property named in
`PROJECT.json` fail.

### RequestChannel

The state is that of the code: `workers`, `nextID`, `pending`; the locals of
each `Sync` goroutine (`workerID`, `ws`, its point `sync`) and of each call
(`target` for its `ws`, `seqID`, `resCh`, its point `pc`).  `pending` is a set
of entries with a sequence number and the call whose channel it holds.  A step
is one atomic operation: a `sync.Map` operation, the atomic addition, one
critical section of `ws.mu`, one `Send`, one channel receive.  `Send` is two
steps, because the worker can answer before `Send` returns.  The payload of a
message is only its sequence number; the call it belongs to is carried along
for the properties.

External are `Break`, the end of a connection, and `Answer`, the worker.
Replies are kept in a set and can be received any number of times in any order.
An answer that finds no entry in the pending map of the connection's `ws` is
dropped (`RecvUnknown`); `missed`, used by the properties alone, has the calls
this happened to while they were waiting for it.

`Sync` removes `s.workers` entries under whatever id the connection last used,
also when another connection has stored the entry since.  That is in the model;
the properties of this module hold in spite of it.

### WorkerRegistry

`mapped` is `wm.workers`; the fields of `Worker` objects are functions on
`Objs`, so that an object that has left the map can still be written to through
a pointer (`ptr`, `rptr`).  `Heartbeat`, `UpdateWorkerStats`, `AddRouter` and
`RemoveRouter` are a look-up step and a write step.  `routerCount` is a
`uint32`: arithmetic is modulo `Modulus`.  Time passes in ticks of thirty
seconds, and `lastHeartbeat` is kept as an age.  A cleanup that is due happens
before the next tick: the ticker's goroutine only waits for `wm.mu`, which is
never held for long.  Requests to workers are used as `RequestReply` describes
them: an unknown id fails, any other request may succeed or fail.

Variables used by the properties alone: `claimed` (which connections ever used
an id), `reported` (objects whose count a keepalive has overwritten), `scores`.

### Signaling

One variable for the point of each goroutine: `reader` (from `HandleWebSocket`
to the end of `ReadMessage`), `writer`, `run`.  A send on a channel without a
buffer is one step of both sides (`WriterTakes`, `Register`, `Unregister`).  A
message is reduced to the shape of its handler: whether it looks its room up,
whom it sends to, whether it replies.  `GetOrCreateRoom` is its look-up, the
request to a worker, and its store, as three moments in which others may run.
A range over a Go map comes to every key that stays, to none removed before it
is reached, and may or may not come to one that is added.

`overwritten`, used by the properties alone, has the rooms whose place in
`rm.rooms` a later store has taken.  Their members are found by no look-up any
more, and stay in them.

What ends the process is in the model: a send on a closed channel
(`SendPanics`), the nil room in `handleJoin` (in `CreateFails`), and the
runtime's check for maps used concurrently (`MapFault`).  After it nothing
moves.

### MediaRouter

The handlers `Produce` and `CloseProducer` of all users at once, on
`producers` and `consumers`.  `addConsumer` is its scan, the making of a list
that was missing at the scan (`AddConsumerReset`), and the load and the store of
the append, so two at once may lose an entry, or a whole new list.  `removeConsumerByProducerId` shortens
a copy of the slice: the list in the map keeps its length and repeats its last
entry (`MoveDown`).  `removeProducer` moves a list down while another user may
be ranging over it (`PullMisses`).  The requests to the worker are steps whose
result is only logged.  Sending to a client is one step: the channels are the
subject of `Signaling`.  Variables used by the properties alone: `started`,
`asMember`, `finished`, `closed`, `due`, `raced`, `missed`.

### MediaParameters

The same handlers as in `MediaRouter`, for one producer, seen from what they
say instead of to whom.  `pts`, `ids`, `feedback` and `rtx` are the arrays
behind the slices of `producer.parameters`, which `NewConsumerReqData` shares
(its copy of `RtpCapabilities` copies slice headers only).  The owner's
goroutine goes through `Produce`: `addProducer`, `CleanFeedback`,
`CreateProducer`, and a consumer for each peer.  A peer's goroutine makes its
own consumer any time after `addProducer`.  Making a consumer is: take the
transport id and add to `r.consumers`; set the payload types and ask the worker;
rewrite the extension ids one by one; tell the client.  `RemoveFeedbackRemb` is
modelled on array, length and index, pass by pass of its loop (`RemovalPass`), since its
caller keeps the array and the old length.  A URI is
the set of names its text contains (`Contained`), which is what
`strings.Contains` sees, and the ids `config.json` gives are `Preferred`.  The
three panics, a codec that is not there (a second one for video), its nil
`Parameters` (`room.go:211`) and a nil `Rtx`, are values of `crash`, after which
nothing moves.  The mapping of payload types is in the requests for producers and
for consumers alike (`PayloadMap`), as it is in the code.

`CreateWebrtcTransport` and `ConnectWebrtcTransport` are here because what they
decide is the transport a consumer is told.  Variables used by the properties
alone: `early`, `settled`, `after`, `had`.

### Accounts

A step is one operation on redis (`SetCode`, `VerifyGet`, `VerifyDel`), on the
database (`FirstRegister`, `FirstComplete`, `Login`, `Create`) or on the mail
server (`SendEmail`), or the arrival of a request with the checks that come
before any of these.  Each of them may fail, and `Create` also after its row was
written.  An address is a spelling; `Normalise` is what `ToLower`, `TrimSpace`
and `validateEmail` make of it.  The code under a key is kept with the request
that issued it, for the properties.  The unique index of the table is part of
`Insert`.  As `main.go` has it, the three services are not initialised
(`services` false), and handlers then answer or panic without reaching any;
the properties are about the process with them.  Any request may guess a code:
codes are values of a small set, and two requests can be issued the same one.
Variables used by the properties alone: `consumed`, `before`, `entitled`,
`failed`.

### RetryQueue

A call of `ExecuteRequest` and the goroutine of `DealTimeoutReq` are senders;
each goes through `sendPost` in the same steps.  `Receive` is the service
getting the request, `Reply` its 200 with a body, `Fail` every error before or
after the service had it.  What cannot be marshalled counts as sent, a url that
cannot be parsed panics (in its caller, who is taken to recover; unrecovered it
would end the process), an empty one fails at once, is queued, and is dropped
by the next pop.  `served` and `acked` are used by the properties alone, which
are about the places a request is in (`Places`): its entries in the queue and the
senders that have it in hand.

`CallbackDelivery` has neither queue nor senders: a callback is pending, delivered,
pending again when the delivery has failed, and acknowledged once.  The mapping
(`absStatus`) counts places, and gives a call that is in no place without a 200, or
in two, a status ("lost", "repeated") that the abstract specification does not have.

## Runs

| Run | What it shows | Distinct states |
|---|---|---|
| `request_channel` | `NoCrossTalk`, `NoLostWakeup`, `NoLeak`, `ReceiveLoopNeverBlocks`, refinement of `RequestReply` | 660 000 |
| `request_channel_live` | `EveryCallReturns` | 58 000 |
| `registry_sync` | `OnlineIffMapped`, `SilenceIsBounded`, `SoleConnectionStaysRouted` | 3 300 000 |
| `registry_routers` | `CountTracksRouters`, `ClosedNotCounted`, `PickIsMaximal`, types | 850 000 |
| `signaling` | `MembersAreRegistered`, `OwnChannelIsOpen`, `RunSendsOnOpenChannels`, `MembersHaveRouter`, `NoRoomLeft`, `OccupiedRoomStays` | 1 400 000 |
| `signaling_live` | `WriterLeaves`, `RunStopsOnlyOnStuckPeer` | 54 000 |
| `signaling_notify` | violates `PeersAreNotified` | |
| `signaling_routers` | violates `NoRouterLeft` | |
| `media_router` | `FullMesh`, `MidsDistinct`, `ClosedIsTold` | 3 100 000 |
| `media_parameters` | `DeclaredAsOffered`, `MappingMeetsConsumers`, `LaterConsumersAgree`, `ToldIdsAreConfigured`, `FeedbackIsTrimmed`, `OneTransportPerUser` | 1 300 000 |
| `accounts` | `OneAccountPerEmail`, `CodeIsSpent`, `AccountProvesMailbox`, `RegisteredCanLogin` | 530 000 |
| `retry_queue` | `NothingIsLost`, `NotRepeatedAfterSuccess`, `SuccessMeansServed`, `LoopNeverPanics`, refinement of `CallbackDelivery` (`DeliversAtLeastOnce`), `EventuallyDelivered` | 89 000 |

Bounds, and why they are enough for the cases that matter:

* `request_channel`: two calls are needed for an answer to reach the wrong one;
  two connections and three registrations let one connection register again,
  and two claim one id, before, while and after a call uses it.
* `request_channel_live`: without symmetry, one connection that registers twice;
  the calls do not help each other to return, so more connections add nothing.
* `registry_sync`: two connections, two ids and two objects: ids can be swapped
  between connections and an id be registered anew.  Real ratio of heartbeat
  timeout to cleanup interval.  No routers, which do not act on the map.
* `registry_routers`: one connection that uses two ids, so that two workers can
  be online and the choice is a choice; reports with a count of zero and with
  a load whose score is below zero.  `Modulus` is 65536: far above every count,
  as 2^32 is.
* `signaling`: two users of one room id, where all the sharing is, and two
  `Room` objects, so that a second room can be made for the id.
  `signaling_live` and `signaling_notify` have one `Room` object and the
  messages `caps` and `join`, which are a reply and a notification: the others
  are made of the same sends.
* `media_router`: two users and three producers of two kinds, made by either
  user: one consumer list with three entries, or two users who produce the same
  kind at the same time and close again.
* `media_parameters`: one producer of any of seven offers (audio and video with
  the payload types of browsers, video without a second codec or without that
  codec's parameters, audio without any codec,
  audio whose type is below eleven, an encoding with and without `Rtx`,
  `goog-remb` twice and at the end, known and unknown extensions) and two peers,
  so that three goroutines rewrite the slices at once; one of the peers has up to
  two transports.  `Modulus` stands for 2^32 and is
  far above every id.
* `accounts`: four requests of any kind, which is two registrations of one
  address with two completions, or one with two completions and a login; two
  spellings of one address, one of a second, and one that is none; two codes, so
  that a later code can be the same or another.
* `retry_queue`: three calls, so that the queue holds requests to both services
  and another is pushed while the loop has one in hand.

Except `retry_queue`, whose loop never ends, the runs do not check for deadlock:
connections and calls end for good, and with bounded registrations, rooms,
producers and requests everything may have happened.

### The two violations

* `signaling_notify`.  `DeleteUser` notifies the members one by one ("notify
  other users").  A member whose writer ended with a write error is still in
  `r.users`; `Run` blocks on its channel for ever, and that member's reader
  blocks in `Unregister` on `Run`.  The run assumes more than the code
  guarantees (`PromptSpec`: every write ends, every request to a worker returns),
  so that what it shows is not the fault of a peer that is stuck.
  `RunStopsOnlyOnStuckPeer` has what may stop `Run` without that assumption.
* `signaling_routers`.  "if no user in room, delete room": two goroutines that
  miss the same id in `GetOrCreateRoom` make two rooms, and the router of the
  one that is replaced in the map is never closed.

### Fairness

* `RequestChannel!FairSpec`: weak fairness of each call's own steps: a goroutine
  that can run does, and the timer of `time.After` fires.  That `Send` returns is
  not assumed: gRPC makes it wait for flow control when the worker does not read,
  and the timer starts only after it (`grpcServer.go:215`, `225`).  So
  `EveryCallReturns` excepts a call that stays in `Send` for ever.  Nothing is
  assumed of `Sync`, and nothing but that of the network and the worker.
* `Signaling!FairSpec`: weak fairness for what `Run` does by itself, for the start
  of a user's goroutines, and for a writer whose connection is closed, because a
  write to it returns; strong fairness for `Run`'s send, because Go serves the
  goroutines waiting on a channel in turn.  No write to an open connection need
  end (`user.go:353` sets no deadline) and no request to a worker need return;
  clients may stay silent for ever.
* `Signaling!PromptSpec`, used by `signaling_notify` alone, adds that writes end,
  requests return and readers go on.
* `RetryQueue!FairSpec`: the goroutines run; a reliable service ends, well or
  not, what was begun with it, and among the attempts of the retry loop that
  reach it infinitely often it receives and accepts some (strong fairness).
  Services that are not reliable owe nothing, not even an error, because the
  client is made without a timeout (`httpClient.go:37` is commented out).  A
  caller's panic on a malformed url is assumed to be recovered.

### Two comments the code does not keep to

Both are exceptions that a property of `media_parameters` states:

* `ToldIdsAreConfigured`: `config.json` gives ids to the dependency descriptor
  and to packet-id, and `room.go` has constants for them, but
  `GetNewExtensionId` returns -1 for both.
* `FeedbackIsTrimmed`: "remove remb feedback" leaves a `goog-remb` that is the
  last entry, because only the callee's slice gets shorter.

## Proofs

Every safety property that a passing run checks, invariant, action property or
refinement, is a theorem for all values of the constants.  Each module
of proofs states an inductive invariant, has one lemma per action, and derives
the properties from the invariant.  None of the properties of interest is
inductive alone; what had to be added, and why, is below.  The invariants were
model-checked on the instances of the runs before they were proved.

| Module | For any | Assuming of the constants |
|---|---|---|
| `RequestChannelProofs` | calls, workers, connections, registrations | the "no value" constants are new |
| `WorkerRegistryProofs` | workers, `Worker` objects, connections, routers, timeouts | positive timeouts and modulus; reports have natural numbers, counts are a `uint32` |
| `SignalingProofs` | users, room ids, `Room` objects, messages | every user asks for one room id |
| `MediaRouterProofs` | users, producers | the "no value" constants are new |
| `MediaParametersProofs` | peers, offers, URIs, transports | an offer has the fields of the JSON request; `Modulus` > 127 (it is 2^32; a payload type has seven bits) |
| `AccountsProofs` | requests, addresses, spellings, codes, passwords | `Normalise` gives an address or none |
| `RetryQueueProofs` | calls, services | the kinds of url and the senders are different |

The bounds that the models name (registrations, rooms, transports) are constants
too, so the theorems hold for every bound.  Two theorems have a hypothesis of
their own:

* `WorkerRegistryProofs!CountIsExact`: there are fewer than `Modulus` routers in
  all.  With 2^32 of them `routerCount` would wrap around and be right modulo 2^32 only.
* `MediaParametersProofs!ToldAsConfigured`: `CapabilitiesFit`, that is, the ids in
  the router's capabilities are those `GetNewExtensionId` gives, or the URI is one
  of the two it does not know.  It is a statement about `config.json`, true of the
  URIs in `MCMediaParameters`; the theorem is about what the
  goroutines make of it.

### RequestChannelProofs

`AnswersAreOwn`, `WakeupsAreNotLost`, `PendingDoesNotLeak`, `ReceiveLoopIsFree`,
and `Refinement`: `Spec => RR!Spec`, under the mapping at the end of
`RequestChannel`.  `Inv` adds to the properties and to `TypeOK`:

* `Numbers`: calls that have drawn a number have drawn different ones, none
  above `nextID`.  Without it an enrolment could overwrite another call's entry.
* `Allocated`: a `WorkerStream` in use, in a `Sync` goroutine, in `s.workers` or
  in a call, has its connection, and a call that is past the look-up has one.
* `Wire`: a request on the wire carries the number its call enrolled under, on
  the connection of its target, and a reply answers such a request.
* `Channels`: what is in a call's channel is a reply to that call, and a call
  with an entry in a pending map has an empty channel.
* `Drops`: only a call whose request is out can have missed its answer.

The step that delivers an answer (`RecvResponseStep`) is where they meet: the
entry found has the number of the reply (`Wire`), the call it belongs to has
that number (`NoLeak`), so it is the call the reply answers (`Numbers`), and its
channel is empty because its entry is still there (`Channels`).  The refinement
has a lemma for each action that is not a stutter.

### WorkerRegistryProofs

`StatusAgreesWithMap`, `SilentWorkersLeave`, `SoleConnectionIsReached`,
`ClosedRoutersLeave`, `BestIsChosen`, `CountIsExact`.  The goroutines write through
pointers looked up earlier, so `Inv` says what a pointer may be when it is used
(`SyncPointers`, `RouterPointers`): an object that was allocated for the id it was
looked up under, in the map or not.  `Aging` bounds the age of a mapped object by
the timeout plus the time since the last cleanup; the bound itself does not
survive a tick.  `Claims` ties connections to the ids they use, `Scored` is the
loop invariant of `ChooseBestWorker`, and `Counted` says on which object of the map
a router that is being removed may be counted, namely the one `RemoveRouter`
holds.  `CountIsExact` uses the library's theorems on cardinalities.

### SignalingProofs

`OnlyStoresLeaveUsers`, `OwnChannelStaysOpen`, `RunNeverPanics`,
`RouterOutlivesMembers`, `MapIsEmptied`, `OccupiedRoomsStay`.  A reader can put a new room in the place
of the one `Run` has looked up, and what it replaces keeps its members for ever.
`Inv` is therefore about two rooms, the one in the map and the one in `Run`'s
hand: `Locals` and `Served` give every goroutine what it uses and registered users
their reader, `Ids` keeps rooms under one id, `InHand` and `Cleared` say who is in the
two rooms at each point of `Run`, `Routers` that a room in the map has its router
until `Run` drops it, and `Tended` who will see to it that it is dropped.  That `Run` does not send on a channel it has closed
follows from `InHand`: it closes a channel in the step that takes its user out of
the register, and once `DeleteUser` has removed that user, the room in hand has
registered users only, in the map or not.

`OnlyStoresLeaveUsers` is about all rooms but those a store has replaced: `Present`
says that every other room that has members is in the map, and that the room in
`Run`'s hand is one of the two kinds.

`OccupiedRoomsStay` is about a step: `DeleteRoom` deletes by id, and the room there
need not be the one whose users were counted.  `Replaced` is what it needs besides
`Inv`: any other room under the id of `Run`'s user has been stored since `Run` looked,
and only `Run` adds users.

### MediaRouterProofs

`MembersHearEachOther`, `MidsStayDistinct`, `CloseReachesConsumers`.  `Base` says what a
handler has in hand at each of its points and to whom a producer belongs.  On it
rest three arguments:

* `Pending` and `Mesh`, for `FullMesh`.  Whatever is in a consumer list, or in a
  list a goroutine has loaded and will store, has been told to its user or is about
  to be; and of two producers of one kind, one handler is still to come to the
  other (`WillPush`, `WillPull`) or its user knows of it.  A store that loses an entry does not
  matter, because the goroutine that had added it still tells.
* `Numbered`, for `MidsDistinct`: the mids handed out and in hand are below the
  length of a list that one goroutine at a time works on, and such a list is
  made only where there was none.
* `Unique` and `Followed`, for `ClosedIsTold`: such a list has one consumer of a
  producer, and a consumer that was there when a close began is still to be
  reached by that close, in its hand, or told.

### MediaParametersProofs

`DeclarationIsTheOffer`, `MappingIsTheConsumers`, `LaterConsumersHaveOneId`,
`ToldAsConfigured`, `OneTransport`, `FeedbackIsCleaned`, `FeedbackTrimmed`.  Goroutines write to a producer's slices
without a lock, and `Inv` finds that all of them write the same: an entry is the
client's or final and never turns back, and who has passed an entry has left the
final value behind (`Types`, `ExtensionIds`).  `Transports` has the table and what
was read from it agree on whether there is a transport.  `Untouched` says that before the
declaration, without an early pull, nothing was written; `Course` gives the order
of the owner's points.  Of the feedback it is proved that the declaration and
every push carry `RemoveFeedbackRemb` of the client's list (`FeedbackIsCleaned`), and
what that is for every list (`FeedbackTrimmed`, from `FeedbackProofs`).

### FeedbackProofs

The two loops over a codec's feedback, `RemoveFeedbackRemb` and the one in
`CreateProducer` that leaves `nack` out, are recursive functions on the number of passes.
`CourseExists` shows that such a loop has a course, a function from pass to state,
and the definitions, which choose one, are then its last state (`RemovalCourse`,
`DeclaredCourse`).  The rest is induction on the pass (`InductionTo`, from the least
element of a set of numbers).  The loop invariant of the removal is `AfterPasses`:
after k passes, the entries before the index are those of the first k that are not
`goog-remb`, the rest has moved down by as many as were removed, and nothing is lost
because the end of the array is only repeated.  It gives `RembIsRemoved`: a
`goog-remb` is left only where the last entry was one.

### AccountsProofs

`AccountsAreUnique`, `CodesAreSpentOnce`, `MailboxIsProved`, `LoginSucceeds`.  `Inv` follows a
code from the registration that issued it (`IssuedFor`) through redis (`Stored`: what
is under a key was issued for it and not spent) to the request that presents it
(`Presented`), and an account from the completion (`Rows`) to the logins that must
find it (`Entitled`).  One row for an address is the unique index's doing, since the
look-ups of two completions may both pass; one *success* is not, and needs `Rows`:
every success has a row of its own.

### RetryQueueProofs

`NeverLost`, `NeverRepeated`, `ReportedWasServed`, `LoopSurvives`, `DeliveryIsAtLeastOnce`.  A push is harmless only
because the caller that pushes has nothing in the queue, and a pop because what it
takes is there once: `Callers`, `Queued`, `Resending` and `Kept` say that a request is
with its caller, in the queue once, or with `DealTimeoutReq`, and never with two.

`DeliveryIsAtLeastOnce` is `Spec => Delivery!Spec`.  From `Inv` a call has no status
outside `CallbackDelivery` (`StandingIsSeen`, `HeldAlone`), and in a step of a sender
only the call in its hand can change status (`SenderMoves`, `LoopMoves`); pushes, pops
and the sleep are stutters, `Receive` is `Deliver`, `Reply` is `Acknowledge`, and `Fail` is
`Retry` or, if the service never had the request, a stutter.

### Only model-checked

* Liveness under fairness, which this prover does not do: `EveryCallReturns`,
  `WriterLeaves`, `RunStopsOnlyOnStuckPeer`, `EventuallyDelivered`.
* The two violations, which are counterexamples.

## What the results do not say

* `OnlineIffMapped` and the others are about the registry, not about routing:
  when two connections have used one id the older can remove the entries of the
  newer.  `SoleConnectionStaysRouted` is what remains true.
* Once a keepalive has overwritten `routerCount`, nothing is claimed of it; a
  router closed after that may take it below zero, that is, to 2^32 - 1.
* A call can hang in `Send`, and `Run` in a notification to a client that does not
  read or in a request to a worker that does not.
* An answer that comes after the worker has registered again on the same
  connection is dropped, and its call times out (`NoLostWakeup` says that only
  these are).
* A user who is in a room that another has replaced in the map stays in it for
  ever, and so does the room's router.
* A handler's send to *another* member may meet a closed channel.
* A user whose consumer list two goroutines work on at once may be given one
  mid twice, or miss a `consumerClosed`.
* A producer that a range missed while `removeProducer` moved the list, or whose
  `Produce` began before its user was in `r.users`, is outside `FullMesh`.
* The payload mapping in a consumer request starts from types that are mapped
  already (101 to 106, 102 to 107, 100 to 89) and so leads to types no client is
  told; what the worker makes of it is not modelled.
* The worker is given the client's extension ids for the first consumer of a
  producer, and the client the rewritten ones; `LaterConsumersAgree` is about
  the consumers after it.  A pull that comes before the declaration can end the
  process, or have the rewritten payload types declared.
* A code may be accepted from two requests that come at the same time;
  `CodeIsSpent` is about requests that come after it was deleted.  `VerifyEmail`
  spends the code too, so a completion after it needs a new one.
* Callbacks are delivered at least once, and a service may still be at work on a
  delivery whose connection was lost when the next one comes.  A service that takes a request and
  never answers stops all retries.

## Not modelled

* Redis scripts (`redis.go` from `NewRedisScript` on): text processing of Lua
  source that nothing in the repository calls.
* `ReqOtherNewDataConsumer`, `GetConsumerByProducerId`, `CreateConsumes`,
  `getOtherConsumersById`, `getOtherProducersById`, `GetAllWorkers`: no caller.
* The contents of ICE, DTLS and SCTP parameters, SSRCs, names and passwords'
  hashes: passed on and never looked at.
* HTTP server, configuration, logging, utilities, start-up: library calls and
  formatting, without state that changes later.
* Message types and generated code: a message is what its handler does with it.
* What workers keep; concurrent use of one gRPC stream by several senders, which
  the library forbids, beyond that a `Send` may fail; routers that a worker has
  created for a request that timed out.

## Plan

1. The modules and their runs: done.
2. Proofs of the safety properties, one module of proofs for each, and of the
   refinements of `RequestReply` and `CallbackDelivery`: done.
3. Open: a composition of `RequestChannel` and `WorkerRegistry`, with the routers that
   workers keep after a request timed out.
