--------------------------- MODULE MediaParameters ---------------------------
(***************************************************************************)
(* What the worker and the clients are told of one producer: transports,   *)
(* payload types, header extensions and feedback.  MediaRouter is about    *)
(* who is told; this module is about the parameters, which the Producer    *)
(* and every request made from it share as slices.                         *)
(*                                                                         *)
(* The owner runs Room.Produce: it cleans the feedback list, declares the  *)
(* producer to the worker and makes a consumer for every peer (the push).  *)
(* A peer that produces the same kind makes one for itself (the pull) as   *)
(* soon as addProducer has run.  All of them write to the same slices, and *)
(* none takes a lock.                                                      *)
(***************************************************************************)
EXTENDS Integers, Sequences, FiniteSets, FiniteSetsExt, SequencesExt

CONSTANTS
    Owner, Peers,   \* the user who produces, and the others of the room
    Offers,         \* what the client may ask to produce
    Contained,      \* of each extension URI, the names its text contains
    Preferred,      \* of each extension URI, the id the router's capabilities give
    Modulus,        \* 2^32: ids and payload types become uint32 on the wire
    MaxTransports,  \* bounds the consumer transports of each client
    NoOffer

ASSUME ParametersAssumption ==
    /\ Owner \notin Peers
    /\ Modulus \in Nat /\ Modulus > 127 \* a payload type has seven bits
    /\ MaxTransports \in [Peers -> Nat]
    /\ DOMAIN Contained = DOMAIN Preferred
    /\ Offers \subseteq [kind : STRING, pts : Seq(Nat), feedback : Seq(STRING),
                         rtx : BOOLEAN, params : BOOLEAN,
                         extensions : Seq([uri : DOMAIN Contained, id : Int])]
    /\ NoOffer \notin Offers

VARIABLES
    offer,          \* the request the producer was made from; of its second
                    \* codec, whether it has Parameters
    pts, ids, feedback, rtx,    \* its slices: payload types, extension ids,
                                \* feedback; whether its encoding has an Rtx
    declared,       \* CreateProducer's requests to the worker
    transport,      \* r.consumeTransportIds, 0 for no entry
    made,           \* consumer transports each peer was given
    consumers,      \* peers with an entry in r.consumers for the producer
    pc, todo,       \* points of the goroutines; peers the push has to come to
    to, via, pos,   \* the consumer being made: for whom, on which transport;
                    \* the index ChangeExtensionId is at
    asked, told,    \* requests to the worker, and to the clients
    dataOn,         \* the newDataConsumer of each peer that was asked for
    crash,          \* what has ended the process
    \* for the properties alone:
    early,          \* peers whose pull came before the producer was declared
    settled, after, \* a consumer is complete; was, when this one was begun
    had             \* its client was given a transport when it was begun

slices == <<offer, pts, ids, feedback, rtx>>
tables == <<transport, made, consumers>>
making == <<to, via, pos, after, had>>
sent == <<declared, asked, told, dataOn>>
vars == <<slices, tables, pc, todo, making, sent, crash, early, settled>>

Goroutines == Peers \cup {Owner}
Points == {"idle", "remb", "declare", "push", "request", "ids"}

TypeOK ==
    /\ offer \in Offers \cup {NoOffer}
    /\ pts \in Seq(Nat) /\ ids \in Seq(Int) /\ rtx \in BOOLEAN
    /\ transport \in [Peers -> Nat] /\ made \in [Peers -> Nat]
    /\ consumers \subseteq Peers /\ early \subseteq Peers /\ todo \subseteq Peers
    /\ pc \in [Goroutines -> Points]
    /\ to \in [Goroutines -> Goroutines] /\ via \in [Goroutines -> Nat]
    /\ pos \in [Goroutines -> Nat \ {0}] /\ after \in [Goroutines -> BOOLEAN]
    /\ had \in [Goroutines -> BOOLEAN]
    /\ dataOn \subseteq [to : Peers, via : Nat, had : BOOLEAN]
    /\ crash \in {"none", "codecs", "parameters", "push rtx", "pull rtx"}
    /\ settled \in BOOLEAN

Init ==
    /\ offer = NoOffer /\ pts = <<>> /\ ids = <<>> /\ feedback = <<>> /\ rtx = FALSE
    /\ declared = {}
    /\ transport = [v \in Peers |-> 0] /\ made = [v \in Peers |-> 0]
    /\ consumers = {}
    /\ pc = [g \in Goroutines |-> "idle"] /\ todo = {}
    /\ to = [g \in Goroutines |-> g] /\ via = [g \in Goroutines |-> 0]
    /\ pos = [g \in Goroutines |-> 1]
    /\ asked = {} /\ told = {} /\ dataOn = {}
    /\ crash = "none"
    /\ early = {} /\ settled = FALSE /\ after = [g \in Goroutines |-> FALSE]
    /\ had = [g \in Goroutines |-> FALSE]

-----------------------------------------------------------------------------
At(g, p) == pc[g] = p
Goto(g, p) == pc' = [pc EXCEPT ![g] = p]
Uint32(n) == n % Modulus

(* GetNewExtensionId: the first of these names that the URI contains.       *)

\* Mutant: the test for the shorter name comes first.
NamesReordered == <<<<"mid", 1>>, <<"abs-send-time", 4>>,
    <<"transport-wide-cc-extensions", 5>>, <<"ssrc-audio-level", 6>>,
    <<"abs-capture-time", 10>>, <<"video-orientation", 8>>, <<"toffset", 9>>,
    <<"playout-delay", 11>>, <<"rtp-stream-id", 2>>, <<"repaired-rtp-stream-id", 3>>>>

ExtensionNames == <<<<"mid", 1>>, <<"abs-send-time", 4>>,
    <<"transport-wide-cc-extensions", 5>>, <<"ssrc-audio-level", 6>>,
    <<"abs-capture-time", 10>>, <<"video-orientation", 8>>, <<"toffset", 9>>,
    <<"playout-delay", 11>>, <<"repaired-rtp-stream-id", 3>>, <<"rtp-stream-id", 2>>>>

GetNewExtensionId(uri) ==
    LET hits == {i \in DOMAIN ExtensionNames : ExtensionNames[i][1] \in Contained[uri]}
    IN  IF hits = {} THEN -1 ELSE ExtensionNames[Min(hits)][2]

(* RemoveFeedbackRemb works on a slice of its own over the array of the     *)
(* codec: a removal moves the rest of the array down, and the codec's slice *)
(* keeps its length.  a is the array, n the length of the own slice, i the  *)
(* index of the loop.                                                       *)
DropEntry(s) ==
    [s EXCEPT !.a = [j \in DOMAIN s.a |-> IF j \in s.i..(s.n - 1) THEN s.a[j + 1] ELSE s.a[j]],
              !.n = @ - 1]

\* Mutant: the entry that has moved into the gap is skipped.
RemovalPassSkips(s) ==
    IF s.i > s.n THEN s
    ELSE [(IF s.a[s.i] = "goog-remb" THEN DropEntry(s) ELSE s) EXCEPT !.i = @ + 1]

\* a pass of the loop; there are as many as entries
RemovalPass(s) ==
    IF s.i > s.n THEN s
    ELSE IF s.a[s.i] = "goog-remb" THEN DropEntry(s) ELSE [s EXCEPT !.i = @ + 1]

RemoveFeedbackRemb(list) ==
    LET left[k \in 0..Len(list)] ==
            IF k = 0 THEN [a |-> list, n |-> Len(list), i |-> 1]
            ELSE RemovalPass(left[k - 1])
    IN  left[Len(list)].a

-----------------------------------------------------------------------------
(* The transports of a peer.                                                *)

\* Mutant: the newest transport is kept.
SaveNewestTransportId(v, t) == transport' = [transport EXCEPT ![v] = t]

\* 0 stands for the empty id
getConsumerTransportId(v) == transport[v]

saveConsumeTransportId(v, t) ==
    transport' = [transport EXCEPT ![v] = IF @ = 0 THEN t ELSE @]

\* The request to the worker has made a transport with a new id.
MakeTransport(v) == made' = [made EXCEPT ![v] = @ + 1]

\* CreateWebrtcTransport for the direction "consumer".  A request that fails
\* leaves the tables as they are, whether the worker has made the transport or
\* not; the direction "producer" fills a table that nothing reads.
CreateWebrtcTransport(v) ==
    /\ At(v, "idle")
    /\ made[v] < MaxTransports[v]
    /\ MakeTransport(v)
    /\ saveConsumeTransportId(v, made'[v])
    /\ UNCHANGED <<slices, consumers, pc, todo, making, sent, crash, early, settled>>

\* handleConnectWebrtcTransport: the first connection of a transport that is
\* not the consumer transport in the table asks for a newDataConsumer; other
\* connections change nothing here.  0 is the producer transport.
ConnectWebrtcTransport(v, t) ==
    /\ At(v, "idle")
    /\ MaxTransports[v] > 0 /\ t \in 0..made[v]
    /\ (\A d \in dataOn : d.to # v) /\ (t = 0 \/ t # getConsumerTransportId(v))
    /\ dataOn' = dataOn \cup {[to |-> v, via |-> getConsumerTransportId(v),
                               had |-> made[v] > 0]}
    /\ UNCHANGED <<slices, tables, pc, todo, making, declared, asked, told, crash,
                   early, settled>>

-----------------------------------------------------------------------------
(* Produce.                                                                 *)

\* addProducer
Produce(o) ==
    /\ At(Owner, "idle") /\ offer = NoOffer
    /\ offer' = o
    /\ pts' = o.pts /\ feedback' = o.feedback /\ rtx' = o.rtx
    /\ ids' = [i \in DOMAIN o.extensions |-> o.extensions[i].id]
    /\ Goto(Owner, "remb")
    /\ UNCHANGED <<tables, todo, making, sent, crash, early, settled>>

\* Mutant: the peers are told before the producer is declared.
CleanFeedbackThenPush ==
    /\ At(Owner, "remb")
    /\ feedback' = RemoveFeedbackRemb(feedback)
    /\ todo' = Peers
    /\ Goto(Owner, "push")
    /\ UNCHANGED <<offer, pts, ids, rtx, tables, making, sent, crash, early, settled>>

\* "remove remb feedback"
CleanFeedback ==
    /\ At(Owner, "remb")
    /\ feedback' = RemoveFeedbackRemb(feedback)
    /\ Goto(Owner, "declare")
    /\ UNCHANGED <<offer, pts, ids, rtx, tables, todo, making, sent, crash, early,
                   settled>>

\* Mutant: the distance of video is off by one.
MappedPayloadTypeOffByOne(pt) ==
    IF offer.kind = "video" THEN Uint32(pt + 6) ELSE Uint32(pt - 11)

\* the mapping of payload types in the requests to the worker: a producer's
\* maps the client's types, a consumer's those CreateNewConsumerData has set
MappedPayloadType(pt) ==
    IF offer.kind = "video" THEN Uint32(pt + 5) ELSE Uint32(pt - 11)

PayloadMap(types) == [i \in DOMAIN types |-> MappedPayloadType(types[i])]

\* Mutant: the parameters are a copy for each request.
WireIdsOfOffer == [i \in DOMAIN ids |-> Uint32(offer.extensions[i].id)]

\* the extension ids as they are at the moment of a request
WireIds == [i \in DOMAIN ids |-> Uint32(ids[i])]

\* audio goes without nack
DeclaredFeedback(kind, list) ==
    LET kept[k \in 0..Len(list)] ==
            IF k = 0 THEN <<>>
            ELSE IF kind = "audio" /\ list[k] = "nack" THEN kept[k - 1]
            ELSE Append(kept[k - 1], list[k])
    IN  kept[Len(list)]

\* CreateProducer: the encodings of video are given an Rtx.  The answer of the worker is only logged.
CreateProducer ==
    /\ At(Owner, "declare")
    /\ declared' = declared \cup
        {[pts |-> pts, mapped |-> PayloadMap(pts),
          ids |-> WireIds, feedback |-> DeclaredFeedback(offer.kind, feedback)]}
    /\ rtx' = (rtx \/ offer.kind = "video")
    /\ todo' = Peers
    /\ Goto(Owner, "push")
    /\ UNCHANGED <<offer, pts, ids, feedback, tables, making, asked, told, dataOn,
                   crash, early, settled>>

-----------------------------------------------------------------------------
(* A consumer, by the push or by the pull.                                  *)

\* A Consumer for v is given its transport and added to r.consumers.
AddConsumer(g, v) ==
    /\ to' = [to EXCEPT ![g] = v]
    /\ via' = [via EXCEPT ![g] = getConsumerTransportId(v)]
    /\ after' = [after EXCEPT ![g] = settled]
    /\ had' = [had EXCEPT ![g] = made[v] > 0]
    /\ consumers' = consumers \cup {v}
    /\ Goto(g, "request")
    /\ UNCHANGED <<slices, transport, made, pos, sent, crash, settled>>

\* ReqOtherNewConsumer comes to the next peer; whether it has a consumer of the
\* producer already is not looked at.
PushNext(v) ==
    /\ At(Owner, "push")
    /\ v \in todo
    /\ todo' = todo \ {v}
    /\ AddConsumer(Owner, v)
    /\ UNCHANGED early

\* ReqPullOtherNewProducer of a peer that has none yet finds the producer
PullNext(v) ==
    /\ At(v, "idle")
    /\ offer # NoOffer /\ v \notin consumers
    /\ early' = IF declared = {} THEN early \cup {v} ELSE early
    /\ AddConsumer(v, v)
    /\ UNCHANGED todo

\* CreateNewConsumerData sets the payload types: there is a codec, and for video
\* a second one for retransmissions, or the index is out of range.
NewPayloadTypes ==
    IF offer.kind = "video" THEN [pts EXCEPT ![1] = 101, ![2] = 102]
    ELSE [pts EXCEPT ![1] = 100]

EnoughCodecs == Len(pts) >= IF offer.kind = "video" THEN 2 ELSE 1

\* It also sets Parameters.Apt of that second codec, through a pointer that is
\* nil when the client has sent no parameters.
HasParameters == offer.kind = "video" => offer.params

\* Then CreateConsumer asks the worker: the encodings of video must have an Rtx
\* by now.  The answer is only logged.
CreateConsumer(g) ==
    /\ At(g, "request")
    /\ \/ /\ EnoughCodecs /\ HasParameters /\ (offer.kind = "video" => rtx)
          /\ pts' = NewPayloadTypes
          /\ asked' = asked \cup {[to |-> to[g], push |-> g = Owner, via |-> via[g],
                                   had |-> had[g], after |-> after[g],
                                   feedback |-> feedback, pts |-> pts',
                                   mapped |-> PayloadMap(pts'), ids |-> WireIds]}
          /\ UNCHANGED crash
       \/ /\ ~EnoughCodecs
          /\ crash' = "codecs" /\ UNCHANGED <<pts, asked>>
       \/ /\ EnoughCodecs /\ ~HasParameters
          /\ crash' = "parameters" /\ UNCHANGED <<pts, asked>>
       \/ /\ EnoughCodecs /\ HasParameters /\ offer.kind = "video" /\ ~rtx
          /\ crash' = IF g = Owner THEN "push rtx" ELSE "pull rtx"
          /\ UNCHANGED <<pts, asked>>
    /\ Goto(g, "ids")
    /\ UNCHANGED <<offer, ids, feedback, rtx, tables, todo, making, declared, told, dataOn,
                   early, settled>>

\* one entry at a time
ChangeExtensionId(g) ==
    /\ At(g, "ids") /\ pos[g] <= Len(ids)
    /\ ids' = [ids EXCEPT ![pos[g]] = GetNewExtensionId(offer.extensions[pos[g]].uri)]
    /\ pos' = [pos EXCEPT ![g] = @ + 1]
    /\ UNCHANGED <<offer, pts, feedback, rtx, tables, pc, todo, to, via, after, had, sent,
                   crash, early, settled>>

\* newConsumer to the client
RequestNewConsumer(g) ==
    /\ At(g, "ids") /\ pos[g] > Len(ids)
    /\ pos' = [pos EXCEPT ![g] = 1]
    /\ settled' = TRUE
    /\ told' = told \cup {[to |-> to[g], ids |-> ids, pts |-> pts]}
    /\ Goto(g, IF g = Owner THEN "push" ELSE "idle")
    /\ UNCHANGED <<slices, tables, todo, to, via, after, had, declared, asked, dataOn,
                   crash, early>>

-----------------------------------------------------------------------------
Next ==
    /\ crash = "none"
    /\ \/ \E o \in Offers : Produce(o)
       \/ CleanFeedback \/ CreateProducer
       \/ \E v \in Peers :
            \/ CreateWebrtcTransport(v)
            \/ \E t \in 0..MaxTransports[v] : ConnectWebrtcTransport(v, t)
            \/ PushNext(v) \/ PullNext(v)
       \/ \E g \in Goroutines :
            CreateConsumer(g) \/ ChangeExtensionId(g) \/ RequestNewConsumer(g)

Spec == Init /\ [][Next]_vars

-----------------------------------------------------------------------------
\* The declaration of a producer comes before anything a consumer of it
\* changes: the worker gets the client's own payload types and extension ids,
\* and no push meets an encoding without its Rtx.  Only a pull that comes
\* between addProducer and the declaration can do either.
DeclaredAsOffered ==
    /\ crash # "push rtx"
    /\ crash = "pull rtx" => early # {}
    /\ early = {} => \A d \in declared :
        /\ d.pts = offer.pts
        /\ d.ids = [i \in DOMAIN offer.extensions |-> Uint32(offer.extensions[i].id)]

\* the kinds and payload types browsers offer
BrowserCodecs == {<<"audio", <<111>>>>, <<"video", <<96, 97>>>>}

\* With the codecs browsers offer, what the producer's mapping leads to is where
\* the consumers' begins: the types the worker is told to map the client's to are
\* the codecs of every consumer request and of every newConsumer, in their order.
\* The consumer request has a mapping of its own, by the same distance, and that
\* leads on to types no client is told (101 to 106, 102 to 107, 100 to 89).
MappingMeetsConsumers ==
    \A t \in told :
        early = {} /\ <<offer.kind, offer.pts>> \in BrowserCodecs =>
            /\ declared # {} /\ \A d \in declared : d.mapped = t.pts
            /\ \A a \in asked : a.pts = t.pts /\ ToSet(a.mapped) \cap ToSet(t.pts) = {}

\* The worker and the client agree on the extension ids of a consumer, unless
\* it was begun before any consumer of the producer was complete: the ids are
\* rewritten after the request to the worker, in a list all of them share.
LaterConsumersAgree ==
    \A a \in asked, t \in told :
        a.to = t.to /\ a.after => a.ids = [i \in DOMAIN t.ids |-> Uint32(t.ids[i])]

\* Whoever is told of the producer, by whichever goroutine and while others
\* are rewriting the list, is told the ids that the router's capabilities
\* gave, except -1 for a URI GetNewExtensionId does not know.
ToldIdsAreConfigured ==
    \A t \in told : \A i \in DOMAIN t.ids :
        LET uri == offer.extensions[i].uri IN
        t.ids[i] \in {Preferred[uri], -1}
        /\ (t.ids[i] = -1 <=> uri \in {"dependency-descriptor", "packet-id"})

\* What is declared, and what the push asks for, has goog-remb only if it was
\* the last entry of the client's list, and every other feedback still; only the
\* declaration of an audio producer goes without nack.
FeedbackIsTrimmed ==
    LET Trimmed(list, out) ==
            /\ "goog-remb" \in ToSet(list) => Last(offer.feedback) = "goog-remb"
            /\ ToSet(offer.feedback) \ ({"goog-remb"} \cup out) \subseteq ToSet(list)
    IN  /\ \A d \in declared :
            Trimmed(d.feedback, IF offer.kind = "audio" THEN {"nack"} ELSE {})
        /\ \A a \in asked : a.push => Trimmed(a.feedback, {})

\* Everything a user is asked to receive, by whichever goroutine, is on the
\* first transport the server has given it (1), though it may have given it
\* others since; exactly what was begun before names none (0).
OneTransportPerUser ==
    \A a \in asked \cup dataOn : a.via = IF a.had THEN 1 ELSE 0
=============================================================================
