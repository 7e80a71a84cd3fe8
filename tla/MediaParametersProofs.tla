------------------------ MODULE MediaParametersProofs ------------------------
(***************************************************************************)
(* Proofs about MediaParameters for every set of peers and of offers,      *)
(* every text of the extension URIs and every number of transports.        *)
(*                                                                         *)
(* Goroutines write to the lists of a producer without a lock, so nothing  *)
(* a goroutine has read need still be there.  What Inv finds is that every *)
(* writer writes the same: an entry has the client's value or its final    *)
(* one and never turns back, and who has come past an entry has left the   *)
(* final value behind it.                                                  *)
(***************************************************************************)
EXTENDS MediaParameters, FeedbackProofs, TLAPS, SequenceTheorems,
        WellFoundedInduction, NaturalsInduction

\* The final values of the lists of an offer.
FinalIds(o) == [i \in DOMAIN o.extensions |-> GetNewExtensionId(o.extensions[i].uri)]
FinalTypes(o) ==
    IF o.kind = "video" THEN [o.pts EXCEPT ![1] = 101, ![2] = 102]
    ELSE [o.pts EXCEPT ![1] = 100]

OfferedIds(o) == [i \in DOMAIN o.extensions |-> o.extensions[i].id]
Wire(list) == [i \in DOMAIN list |-> Uint32(list[i])]
Mapped(o, list) ==
    [i \in DOMAIN list |-> IF o.kind = "video" THEN Uint32(list[i] + 5)
                          ELSE Uint32(list[i] - 11)]

\* Where the goroutines are: the owner goes from point to point once, a peer
\* makes one consumer at a time, and nobody starts before there is an offer.
Course ==
    /\ offer = NoOffer <=> pc[Owner] = "idle"
    /\ declared = {} <=> pc[Owner] \in {"idle", "remb", "declare"}
    /\ \A v \in Peers : pc[v] \in {"idle", "request", "ids"}
    /\ offer = NoOffer => \A v \in Peers : pc[v] = "idle"
    /\ \A g \in Goroutines : pc[g] \in {"request", "ids"} => to[g] \in Peers
    /\ offer = NoOffer => declared = {} /\ asked = {} /\ told = {} /\ ~settled
    /\ declared # {} /\ offer.kind = "video" => rtx

\* Without an early pull nothing has been touched when the producer is declared.
Untouched ==
    declared = {} /\ early = {} =>
        /\ \A v \in Peers : pc[v] = "idle"
        /\ asked = {} /\ told = {}
        /\ offer # NoOffer => pts = offer.pts /\ ids = OfferedIds(offer)

\* What was declared then is what was offered.
Declaration ==
    early = {} => \A d \in declared :
        /\ d.pts = offer.pts /\ d.ids = Wire(OfferedIds(offer))
        /\ d.mapped = Mapped(offer, offer.pts)

Crashes ==
    /\ crash # "push rtx"
    /\ crash = "pull rtx" => early # {}

\* The payload types, all of which one assignment sets.
Types ==
    /\ offer # NoOffer => pts \in {offer.pts, FinalTypes(offer)}
    /\ \A g \in Goroutines : pc[g] = "ids" /\ crash = "none" => pts = FinalTypes(offer)
    /\ \A a \in asked :
        a.pts = FinalTypes(offer) /\ a.mapped = Mapped(offer, FinalTypes(offer))
    /\ \A t \in told : t.pts = FinalTypes(offer)

\* The extension ids, which are set one by one: pos[g] has left final values
\* behind it, and once a consumer is complete all of them are.
ExtensionIds ==
    /\ offer # NoOffer => Len(ids) = Len(offer.extensions)
    /\ \A g \in Goroutines : pc[g] = "ids" =>
        \A i \in DOMAIN ids : i < pos[g] => ids[i] = FinalIds(offer)[i]
    /\ \A g \in Goroutines : pc[g] # "ids" => pos[g] = 1
    /\ settled => ids = FinalIds(offer)
    /\ \A g \in Goroutines : after[g] => settled
    /\ \A a \in asked : a.after => a.ids = Wire(FinalIds(offer))
    /\ \A t \in told : t.ids = FinalIds(offer)

\* The transport saved is the first one made, and whoever reads the table has it
\* as soon as there is one.
Transports ==
    /\ \A v \in Peers : transport[v] = IF made[v] = 0 THEN 0 ELSE 1
    /\ \A g \in Goroutines : pc[g] = "request" => via[g] = IF had[g] THEN 1 ELSE 0
    /\ \A a \in asked : a.via = IF a.had THEN 1 ELSE 0
    /\ \A d \in dataOn : d.via = IF d.had THEN 1 ELSE 0

\* Only the owner writes to the feedback list, before it declares the producer.
Feedback ==
    /\ pc[Owner] = "remb" => feedback = offer.feedback
    /\ pc[Owner] \notin {"idle", "remb"} => feedback = RemoveFeedbackRemb(offer.feedback)
    /\ \A d \in declared :
        d.feedback = DeclaredFeedback(offer.kind, RemoveFeedbackRemb(offer.feedback))
    /\ \A a \in asked : a.push => a.feedback = RemoveFeedbackRemb(offer.feedback)

Inv == /\ TypeOK /\ Course /\ Untouched /\ Declaration /\ Crashes /\ Types
       /\ ExtensionIds /\ Transports /\ Feedback

-----------------------------------------------------------------------------
(* The operators.                                                           *)

\* Min is a member of a set of numbers that has one.
LEMMA SmallestIsMember ==
    ASSUME NEW S, S \subseteq Nat, S # {}
    PROVE  Min(S) \in S
<1>1. PICK x \in S : \A y \in S : <<y, x>> \notin OpToRel(<, Nat)
  BY NatLessThanWellFounded, WFMin
<1>2. ASSUME NEW y \in S PROVE x <= y
  <2>1. x \in Nat /\ y \in Nat
    OBVIOUS
  <2>2. ~(y < x)
    BY <1>1, <2>1 DEF OpToRel
  <2> QED
    BY <2>1, <2>2
<1> QED
  BY <1>2 DEF Min

\* GetNewExtensionId returns a number whatever the URI contains.
LEMMA NewIdIsInt == \A uri : GetNewExtensionId(uri) \in Int
<1> SUFFICES ASSUME NEW uri PROVE GetNewExtensionId(uri) \in Int
  OBVIOUS
<1> DEFINE hits == {i \in DOMAIN ExtensionNames : ExtensionNames[i][1] \in Contained[uri]}
<1>1. \A i \in DOMAIN ExtensionNames : i \in Nat /\ ExtensionNames[i][2] \in Int
  BY DEF ExtensionNames
<1>2. CASE hits = {}
  BY <1>2 DEF GetNewExtensionId
<1>3. CASE hits # {}
  <2>1. Min(hits) \in hits
    BY <1>1, <1>3, SmallestIsMember
  <2> QED
    BY <1>1, <1>3, <2>1 DEF GetNewExtensionId
<1> QED
  BY <1>2, <1>3

\* A payload type is the same number on the wire.
LEMMA SmallOnTheWire == \A n \in 0..127 : Uint32(n) = n
<1>1. Modulus \in Nat /\ Modulus > 127
  BY ParametersAssumption
<1> QED
  BY <1>1 DEF Uint32

\* What an offer is made of.
LEMMA OfferParts ==
    ASSUME NEW o \in Offers
    PROVE  /\ o.kind \in STRING /\ o.pts \in Seq(Nat) /\ o.rtx \in BOOLEAN
           /\ o.feedback \in Seq(STRING)
           /\ o.extensions \in Seq([uri : DOMAIN Contained, id : Int])
BY ParametersAssumption

\* The lists of an offer keep their lengths, and their final entries are numbers.
LEMMA FinalLists ==
    ASSUME NEW o \in Offers
    PROVE  /\ OfferedIds(o) \in Seq(Int) /\ Len(OfferedIds(o)) = Len(o.extensions)
           /\ FinalIds(o) \in Seq(Int) /\ Len(FinalIds(o)) = Len(o.extensions)
           /\ FinalTypes(o) \in Seq(Nat) /\ Len(FinalTypes(o)) = Len(o.pts)
<1>1. OfferedIds(o) \in Seq(Int) /\ Len(OfferedIds(o)) = Len(o.extensions)
  <2>1. PICK n \in Nat : n = Len(o.extensions) /\ DOMAIN o.extensions = 1..n
    BY OfferParts
  <2>2. \A i \in 1..n : o.extensions[i] \in [uri : DOMAIN Contained, id : Int]
    BY OfferParts, <2>1, ElementOfSeq
  <2>3. \A i \in 1..n : o.extensions[i].id \in Int
    BY <2>2
  <2> QED
    BY <2>1, <2>3 DEF OfferedIds
<1>2. FinalIds(o) \in Seq(Int) /\ Len(FinalIds(o)) = Len(o.extensions)
  <2>1. PICK n \in Nat : n = Len(o.extensions) /\ DOMAIN o.extensions = 1..n
    BY OfferParts
  <2> QED
    BY <2>1, NewIdIsInt DEF FinalIds
<1>3. FinalTypes(o) \in Seq(Nat) /\ Len(FinalTypes(o)) = Len(o.pts)
  <2>1. ASSUME NEW s \in Seq(Nat), NEW i \in Nat, NEW n \in Nat
        PROVE  [s EXCEPT ![i] = n] \in Seq(Nat) /\ Len([s EXCEPT ![i] = n]) = Len(s)
    <3>1. CASE i \in 1..Len(s)
      BY <3>1, ExceptSeq
    <3>2. CASE i \notin 1..Len(s)
      <4>1. [s EXCEPT ![i] = n] = s
        BY <3>2
      <4> QED
        BY <4>1
    <3> QED
      BY <3>1, <3>2
  <2>2. [o.pts EXCEPT ![1] = 100] \in Seq(Nat)
        /\ Len([o.pts EXCEPT ![1] = 100]) = Len(o.pts)
    BY <2>1, OfferParts
  <2>3. [o.pts EXCEPT ![1] = 101, ![2] = 102] \in Seq(Nat)
        /\ Len([o.pts EXCEPT ![1] = 101, ![2] = 102]) = Len(o.pts)
    <3> DEFINE s == [o.pts EXCEPT ![1] = 101]
    <3>1. s \in Seq(Nat) /\ Len(s) = Len(o.pts)
      BY <2>1, OfferParts
    <3>2. [o.pts EXCEPT ![1] = 101, ![2] = 102] = [s EXCEPT ![2] = 102]
      OBVIOUS
    <3> HIDE DEF s
    <3> QED
      BY <2>1, <3>1, <3>2
  <2> QED
    BY <2>2, <2>3 DEF FinalTypes
<1> QED
  BY <1>1, <1>2, <1>3

-----------------------------------------------------------------------------
(* Every action preserves Inv.                                              *)

LEMMA InitInv == Init => Inv
<1> SUFFICES ASSUME Init PROVE Inv
  OBVIOUS
<1>1. TypeOK
  <2>1. pts \in Seq(Nat) /\ ids \in Seq(Int) /\ offer \in Offers \cup {NoOffer}
    BY DEF Init
  <2>2. dataOn \subseteq [to : Peers, via : Nat, had : BOOLEAN]
    BY DEF Init
  <2>3. pos \in [Goroutines -> Nat \ {0}]
    BY DEF Init
  <2> QED
    BY <2>1, <2>2, <2>3 DEF Init, TypeOK, Points
<1>2. Course /\ Untouched /\ Declaration /\ Crashes
  BY DEF Init, Course, Untouched, Declaration, Crashes, Goroutines
<1>3. Types /\ ExtensionIds /\ Transports /\ Feedback
  BY DEF Init, Types, ExtensionIds, Transports, Feedback, Goroutines
<1> QED
  BY <1>1, <1>2, <1>3 DEF Inv

LEMMA CreateWebrtcTransportInv ==
    ASSUME Inv, NEW v \in Peers, CreateWebrtcTransport(v)
    PROVE  Inv'
<1> USE DEF Inv
<1>1. UNCHANGED <<offer, pts, ids, feedback, rtx, consumers, pc, todo, to, via, pos, after, had,
                  declared, asked, told, dataOn, crash, early, settled>>
  BY DEF CreateWebrtcTransport, slices, making, sent
<1>2. /\ made' = [made EXCEPT ![v] = @ + 1]
      /\ transport' = [transport EXCEPT ![v] = IF @ = 0 THEN made'[v] ELSE @]
  BY DEF CreateWebrtcTransport, MakeTransport, saveConsumeTransportId
<1>3. TypeOK'
  <2>1. made' \in [Peers -> Nat]
    <3>1. made \in [Peers -> Nat] /\ made' = [made EXCEPT ![v] = made[v] + 1]
      BY <1>2 DEF TypeOK
    <3> QED
      BY <3>1
  <2>2. transport' \in [Peers -> Nat]
    BY <1>2, <2>1 DEF TypeOK
  <2> QED
    BY <1>1, <2>1, <2>2 DEF TypeOK
<1>4. \A w \in Peers : transport'[w] = IF made'[w] = 0 THEN 0 ELSE 1
  <2>1. \A w \in Peers : /\ made[w] \in Nat
                         /\ made'[w] = IF w = v THEN made[w] + 1 ELSE made[w]
                         /\ transport'[w] = IF w = v /\ transport[w] = 0 THEN made'[w]
                                            ELSE transport[w]
    BY <1>2 DEF TypeOK
  <2> QED
    BY <2>1 DEF Transports
<1>5. Transports'
  BY <1>1, <1>4 DEF Transports
<1>6. Course' /\ Untouched' /\ Declaration' /\ Crashes'
  BY <1>1 DEF Course, Untouched, Declaration, Crashes
<1>7. Types' /\ ExtensionIds' /\ Feedback'
  BY <1>1 DEF Types, ExtensionIds, Feedback
<1> QED
  BY <1>3, <1>5, <1>6, <1>7

\* Whether v was given a transport decides which one the table has for it.
LEMMA FirstTransport ==
    ASSUME TypeOK, Transports, NEW v \in Peers
    PROVE  \E b \in BOOLEAN :
             b = (made[v] > 0) /\ transport[v] = (IF b THEN 1 ELSE 0)
<1>1. made[v] \in Nat /\ transport[v] = IF made[v] = 0 THEN 0 ELSE 1
  BY DEF TypeOK, Transports
<1>2. CASE made[v] = 0
  <2>1. (made[v] > 0) = FALSE
    BY <1>2
  <2> QED
    BY <1>1, <1>2, <2>1
<1>3. CASE made[v] # 0
  <2>1. (made[v] > 0) = TRUE
    BY <1>1, <1>3
  <2> QED
    BY <1>1, <1>3, <2>1
<1> QED
  BY <1>2, <1>3

LEMMA ConnectWebrtcTransportInv ==
    ASSUME Inv, NEW v \in Peers, NEW t \in 0..MaxTransports[v],
           ConnectWebrtcTransport(v, t)
    PROVE  Inv'
<1> USE DEF Inv
<1>1. UNCHANGED <<offer, pts, ids, feedback, rtx, consumers, pc, todo, to, via, pos, after, had,
                  declared, asked, told, transport, made, crash, early, settled>>
  BY DEF ConnectWebrtcTransport, slices, making, tables
<1>0. PICK b \in BOOLEAN : b = (made[v] > 0) /\ transport[v] = (IF b THEN 1 ELSE 0)
  BY FirstTransport
<1> DEFINE d == [to |-> v, via |-> transport[v], had |-> b]
<1>2. dataOn' = dataOn \cup {d}
  BY <1>0 DEF ConnectWebrtcTransport, getConsumerTransportId
<1>3. d \in [to : Peers, via : Nat, had : BOOLEAN] /\ d.via = IF d.had THEN 1 ELSE 0
  <2>1. transport[v] \in Nat
    BY DEF TypeOK
  <2> QED
    BY <1>0, <2>1
<1> HIDE DEF d
<1>6. TypeOK' /\ Transports'
  BY <1>1, <1>2, <1>3 DEF TypeOK, Transports
<1>4. Course' /\ Untouched' /\ Declaration' /\ Crashes'
  BY <1>1 DEF Course, Untouched, Declaration, Crashes
<1>5. Types' /\ ExtensionIds' /\ Feedback'
  BY <1>1 DEF Types, ExtensionIds, Feedback
<1> QED
  BY <1>4, <1>5, <1>6

LEMMA ProduceInv ==
    ASSUME Inv, NEW o \in Offers, Produce(o)
    PROVE  Inv'
<1> USE DEF Inv
<1>1. /\ pc[Owner] = "idle" /\ offer = NoOffer /\ offer' = o /\ o # NoOffer
      /\ pts' = o.pts /\ feedback' = o.feedback /\ rtx' = o.rtx /\ ids' = OfferedIds(o)
      /\ pc' = [pc EXCEPT ![Owner] = "remb"]
  BY ParametersAssumption DEF Produce, At, Goto, OfferedIds
<1>2. UNCHANGED <<transport, made, consumers, todo, to, via, pos, after, had, declared, asked,
                  told, dataOn, crash, early, settled>>
  BY DEF Produce, tables, making, sent
<1>3. declared = {} /\ asked = {} /\ told = {} /\ ~settled
  BY <1>1 DEF Course
<1>4. /\ Owner \in Goroutines /\ Owner \notin Peers
      /\ \A g \in Goroutines : pc'[g] = IF g = Owner THEN "remb" ELSE "idle"
  BY <1>1, ParametersAssumption DEF Course, TypeOK, Goroutines
<1>5. TypeOK'
  BY <1>1, <1>2, OfferParts, FinalLists DEF TypeOK, Points
<1>6. Course' /\ Untouched' /\ Declaration' /\ Crashes'
  <2>1. Course'
    BY <1>1, <1>2, <1>3, <1>4 DEF Course, Goroutines
  <2>2. Untouched'
    BY <1>1, <1>2, <1>3, <1>4 DEF Untouched, Goroutines
  <2>3. Declaration' /\ Crashes'
    BY <1>2, <1>3 DEF Declaration, Crashes
  <2> QED
    BY <2>1, <2>2, <2>3
<1>7. Types' /\ Transports' /\ Feedback'
  BY <1>1, <1>2, <1>3, <1>4 DEF Types, Transports, Feedback
<1>8. ExtensionIds'
  BY <1>1, <1>2, <1>3, <1>4, FinalLists DEF ExtensionIds, Course
<1> QED
  BY <1>5, <1>6, <1>7, <1>8

LEMMA CleanFeedbackInv ==
    ASSUME Inv, CleanFeedback
    PROVE  Inv'
<1> USE DEF Inv
<1>1. /\ pc[Owner] = "remb" /\ feedback' = RemoveFeedbackRemb(feedback)
      /\ pc' = [pc EXCEPT ![Owner] = "declare"]
  BY DEF CleanFeedback, At, Goto
<1>2. UNCHANGED <<offer, pts, ids, rtx, transport, made, consumers, todo, to, via, pos,
                  after, had, declared, asked, told, dataOn, crash, early, settled>>
  BY DEF CleanFeedback, tables, making, sent
<1>3. /\ Owner \in Goroutines /\ Owner \notin Peers /\ Peers \subseteq Goroutines
      /\ \A g \in Goroutines : pc'[g] = IF g = Owner THEN "declare" ELSE pc[g]
  BY <1>1, ParametersAssumption DEF TypeOK, Goroutines
<1>4. TypeOK'
  BY <1>1, <1>2 DEF TypeOK, Points
<1>5. Course' /\ Untouched' /\ Declaration' /\ Crashes'
  <2>1. Course'
    BY <1>1, <1>2, <1>3 DEF Course
  <2>2. Untouched' /\ Declaration' /\ Crashes'
    BY <1>2, <1>3 DEF Untouched, Declaration, Crashes
  <2> QED
    BY <2>1, <2>2
<1>6. Types' /\ Transports'
  BY <1>2, <1>3 DEF Types, Transports
<1>7. ExtensionIds'
  BY <1>1, <1>2, <1>3 DEF ExtensionIds
<1>8. Feedback'
  BY <1>1, <1>2, <1>3 DEF Feedback
<1> QED
  BY <1>4, <1>5, <1>6, <1>7, <1>8

LEMMA CreateProducerInv ==
    ASSUME Inv, CreateProducer
    PROVE  Inv'
<1> USE DEF Inv
<1> DEFINE d == [pts |-> pts,
                 mapped |-> PayloadMap(pts),
                 ids |-> WireIds, feedback |-> DeclaredFeedback(offer.kind, feedback)]
<1>1. /\ pc[Owner] = "declare" /\ declared' = declared \cup {d}
      /\ rtx' = (rtx \/ offer.kind = "video") /\ todo' = Peers
      /\ pc' = [pc EXCEPT ![Owner] = "push"]
  BY DEF CreateProducer, At, Goto
<1>2. UNCHANGED <<offer, pts, ids, feedback, transport, made, consumers, to, via, pos,
                  after, had, asked, told, dataOn, crash, early, settled>>
  BY DEF CreateProducer, tables, making
<1>3. /\ Owner \in Goroutines /\ Owner \notin Peers /\ Peers \subseteq Goroutines
      /\ \A g \in Goroutines : pc'[g] = IF g = Owner THEN "push" ELSE pc[g]
  BY <1>1, ParametersAssumption DEF TypeOK, Goroutines
<1>4. declared = {} /\ declared' = {d} /\ offer # NoOffer
  BY <1>1 DEF Course
<1> HIDE DEF d
<1>5. TypeOK'
  BY <1>1, <1>2 DEF TypeOK, Points
<1>6. Course'
  <2>1. rtx' \/ offer'.kind # "video"
    BY <1>1, <1>2
  <2>2. \A v \in Peers : pc'[v] = pc[v]
    BY <1>3
  <2>3. pc'[Owner] = "push" /\ declared' # {} /\ offer' # NoOffer
    BY <1>2, <1>3, <1>4
  <2> QED
    BY <1>2, <1>3, <2>1, <2>2, <2>3 DEF Course
<1>7. Untouched' /\ Crashes'
  BY <1>2, <1>4 DEF Untouched, Crashes
<1>8. Declaration'
  <2> SUFFICES ASSUME early = {}
      PROVE /\ d.pts = offer.pts /\ d.ids = Wire(OfferedIds(offer))
            /\ d.mapped = Mapped(offer, offer.pts)
    BY <1>2, <1>4 DEF Declaration
  <2>1. pts = offer.pts /\ ids = OfferedIds(offer)
    BY <1>4 DEF Untouched
  <2> QED
    BY <2>1 DEF d, WireIds, Wire, PayloadMap, MappedPayloadType, Mapped
<1>9. Types' /\ Transports'
  BY <1>2, <1>3 DEF Types, Transports
<1>10. ExtensionIds'
  BY <1>1, <1>2, <1>3 DEF ExtensionIds
<1>11. Feedback'
  <2>1. feedback = RemoveFeedbackRemb(offer.feedback)
    BY <1>1 DEF Feedback
  <2>2. d.feedback = DeclaredFeedback(offer.kind, feedback)
    BY DEF d
  <2> QED
    BY <1>1, <1>2, <1>3, <1>4, <2>1, <2>2 DEF Feedback
<1> QED
  BY <1>5, <1>6, <1>7, <1>8, <1>9, <1>10, <1>11

\* AddConsumer, which both the push and the pull come to.  Only a peer's own
\* pull is early.
LEMMA AddConsumerInv ==
    ASSUME Inv, NEW g \in Goroutines, NEW v \in Peers, AddConsumer(g, v),
           pc[g] = (IF g = Owner THEN "push" ELSE "idle"), offer # NoOffer,
           todo' \in SUBSET Peers, early' \in SUBSET Peers, early \subseteq early',
           g # Owner /\ declared = {} => early' # {}
    PROVE  Inv'
<1> USE DEF Inv
<1>0. PICK b \in BOOLEAN : b = (made[v] > 0) /\ transport[v] = (IF b THEN 1 ELSE 0)
  BY FirstTransport
<1>1. /\ to' = [to EXCEPT ![g] = v] /\ via' = [via EXCEPT ![g] = transport[v]]
      /\ after' = [after EXCEPT ![g] = settled] /\ consumers' = consumers \cup {v}
      /\ had' = [had EXCEPT ![g] = b]
      /\ pc' = [pc EXCEPT ![g] = "request"]
  BY <1>0 DEF AddConsumer, getConsumerTransportId, Goto
<1>2. UNCHANGED <<offer, pts, ids, feedback, rtx, transport, made, pos, declared, asked,
                  told, dataOn, crash, settled>>
  BY DEF AddConsumer, slices, sent
<1>3. Owner \in Goroutines /\ Owner \notin Peers /\ Goroutines = Peers \cup {Owner}
  BY ParametersAssumption DEF Goroutines
<1>4. \A h \in Goroutines :
        /\ pc'[h] = IF h = g THEN "request" ELSE pc[h]
        /\ to'[h] = IF h = g THEN v ELSE to[h]
        /\ via'[h] = IF h = g THEN transport[v] ELSE via[h]
        /\ after'[h] = IF h = g THEN settled ELSE after[h]
        /\ had'[h] = IF h = g THEN b ELSE had[h]
  BY <1>1 DEF TypeOK
<1>5. TypeOK'
  <2>1. pc' \in [Goroutines -> Points]
    BY <1>1 DEF TypeOK, Points
  <2>2. to' \in [Goroutines -> Goroutines] /\ via' \in [Goroutines -> Nat]
    BY <1>1, <1>3 DEF TypeOK
  <2>3. after' \in [Goroutines -> BOOLEAN] /\ had' \in [Goroutines -> BOOLEAN]
    BY <1>1 DEF TypeOK
  <2> QED
    BY <1>1, <1>2, <2>1, <2>2, <2>3 DEF TypeOK
<1>6. Course'
  BY <1>2, <1>3, <1>4 DEF Course
<1>7. Untouched'
  BY <1>2, <1>3, <1>4 DEF Untouched, Course
<1>8. Declaration' /\ Crashes'
  <2>1. early' = {} => early = {}
    OBVIOUS
  <2> QED
    BY <1>2, <2>1 DEF Declaration, Crashes
<1>9. Types' /\ Transports'
  BY <1>0, <1>2, <1>3, <1>4 DEF Types, Transports
<1>10. ExtensionIds'
  BY <1>2, <1>3, <1>4 DEF ExtensionIds
<1>11. Feedback'
  <2>1. pc'[Owner] = "remb" => pc[Owner] = "remb"
    BY <1>3, <1>4
  <2>2. pc'[Owner] \notin {"idle", "remb"} => pc[Owner] \notin {"idle", "remb"}
    BY <1>3, <1>4
  <2> QED
    BY <1>2, <2>1, <2>2 DEF Feedback
<1> QED
  BY <1>5, <1>6, <1>7, <1>8, <1>9, <1>10, <1>11

LEMMA PushNextInv ==
    ASSUME Inv, NEW v \in Peers, PushNext(v)
    PROVE  Inv'
<1>1. /\ pc[Owner] = "push" /\ AddConsumer(Owner, v)
      /\ todo' = todo \ {v} /\ early' = early
  BY DEF PushNext, At
<1>2. /\ offer # NoOffer /\ todo' \in SUBSET Peers /\ early' \in SUBSET Peers
      /\ Owner \in Goroutines
  BY <1>1 DEF Inv, Course, TypeOK, Goroutines
<1> QED
  BY <1>1, <1>2, AddConsumerInv

LEMMA PullNextInv ==
    ASSUME Inv, NEW v \in Peers, PullNext(v)
    PROVE  Inv'
<1>1. /\ pc[v] = "idle" /\ offer # NoOffer /\ AddConsumer(v, v) /\ todo' = todo
      /\ early' = IF declared = {} THEN early \cup {v} ELSE early
  BY DEF PullNext, At
<1>2. /\ todo' \in SUBSET Peers /\ early' \in SUBSET Peers /\ early \subseteq early'
      /\ declared = {} => early' # {}
  BY <1>1 DEF Inv, TypeOK
<1>3. v \in Goroutines /\ v # Owner
  BY ParametersAssumption DEF Goroutines
<1> QED
  BY <1>1, <1>2, <1>3, AddConsumerInv

\* CreateConsumer finds the offered types or the final ones and leaves the
\* final ones.
LEMMA NewTypesAreFinal ==
    ASSUME Inv, offer # NoOffer, EnoughCodecs
    PROVE  NewPayloadTypes = FinalTypes(offer)
<1>1. offer \in Offers /\ pts \in {offer.pts, FinalTypes(offer)}
  BY DEF Inv, TypeOK, Types
<1>2. offer.pts \in Seq(Nat)
  BY <1>1, OfferParts
<1>3. CASE offer.kind = "video"
  <2>1. [offer.pts EXCEPT ![1] = 101, ![2] = 102]
          = [[offer.pts EXCEPT ![1] = 101, ![2] = 102] EXCEPT ![1] = 101, ![2] = 102]
    BY <1>2
  <2> QED
    BY <1>1, <1>3, <2>1 DEF NewPayloadTypes, FinalTypes
<1>4. CASE offer.kind # "video"
  <2>1. [offer.pts EXCEPT ![1] = 100]
          = [[offer.pts EXCEPT ![1] = 100] EXCEPT ![1] = 100]
    BY <1>2
  <2> QED
    BY <1>1, <1>4, <2>1 DEF NewPayloadTypes, FinalTypes
<1> QED
  BY <1>3, <1>4

LEMMA CreateConsumerInv ==
    ASSUME Inv, crash = "none", NEW g \in Goroutines, CreateConsumer(g)
    PROVE  Inv'
<1> USE DEF Inv
<1> DEFINE a == [to |-> to[g], push |-> g = Owner, via |-> via[g], had |-> had[g],
                 after |-> after[g], feedback |-> feedback, pts |-> pts',
                 mapped |-> PayloadMap(pts'), ids |-> WireIds]
<1>1. pc[g] = "request" /\ pc' = [pc EXCEPT ![g] = "ids"]
  BY DEF CreateConsumer, At, Goto
<1>2. UNCHANGED <<offer, ids, feedback, rtx, transport, made, consumers, todo, to, via, pos,
                  after, had, declared, told, dataOn, early, settled>>
  BY DEF CreateConsumer, tables, making
<1>3. /\ Owner \in Goroutines /\ Owner \notin Peers /\ Goroutines = Peers \cup {Owner}
      /\ \A h \in Goroutines : pc'[h] = IF h = g THEN "ids" ELSE pc[h]
  BY <1>1, ParametersAssumption DEF TypeOK, Goroutines
<1>4. offer # NoOffer /\ offer \in Offers /\ to[g] \in Peers
  BY <1>1, <1>3 DEF Course, TypeOK
<1>5. \/ EnoughCodecs /\ pts' = FinalTypes(offer) /\ asked' = asked \cup {a} /\ crash' = crash
      \/ crash' \in {"codecs", "parameters"} /\ pts' = pts /\ asked' = asked
      \/ /\ offer.kind = "video" /\ ~rtx /\ pts' = pts /\ asked' = asked
         /\ crash' = IF g = Owner THEN "push rtx" ELSE "pull rtx"
  BY <1>4, NewTypesAreFinal DEF CreateConsumer
<1> HIDE DEF a
<1>6. TypeOK'
  <2>1. pts' \in Seq(Nat)
    BY <1>4, <1>5, FinalLists DEF TypeOK
  <2>2. crash' \in {"none", "codecs", "parameters", "push rtx", "pull rtx"}
    BY <1>5
  <2>3. pc' \in [Goroutines -> Points]
    BY <1>1 DEF TypeOK, Points
  <2> QED
    BY <1>2, <2>1, <2>2, <2>3 DEF TypeOK
<1>7. Course'
  BY <1>1, <1>2, <1>3, <1>4 DEF Course
<1>8. declared = {} => early # {}
  <2>1. CASE g = Owner
    BY <1>1, <2>1 DEF Course
  <2>2. CASE g # Owner
    BY <1>1, <1>3, <2>2 DEF Untouched
  <2> QED
    BY <2>1, <2>2
<1>9. Untouched' /\ Declaration'
  BY <1>2, <1>8 DEF Untouched, Declaration
<1>10. Crashes'
  <2>1. CASE crash' = crash \/ crash' \in {"codecs", "parameters"}
    BY <1>2, <2>1 DEF Crashes
  <2>2. CASE /\ offer.kind = "video" /\ ~rtx
             /\ crash' = IF g = Owner THEN "push rtx" ELSE "pull rtx"
    <3>1. declared = {}
      BY <2>2 DEF Course
    <3>2. g # Owner
      BY <1>1, <3>1 DEF Course
    <3> QED
      BY <1>2, <1>8, <2>2, <3>1, <3>2 DEF Crashes
  <2> QED
    BY <1>5, <2>1, <2>2
<1>11. Types'
  <2>1. CASE EnoughCodecs /\ pts' = FinalTypes(offer) /\ asked' = asked \cup {a}
    <3>1. a.pts = FinalTypes(offer) /\ a.mapped = Mapped(offer, FinalTypes(offer))
      BY <2>1 DEF a, PayloadMap, MappedPayloadType, Mapped
    <3> QED
      BY <1>2, <2>1, <3>1 DEF Types
  <2>2. CASE crash' # "none" /\ pts' = pts /\ asked' = asked
    BY <1>2, <2>2 DEF Types
  <2> QED
    BY <1>5, <2>1, <2>2
<1>12. asked' = asked \/ asked' = asked \cup {a}
  BY <1>5
<1>13. ExtensionIds'
  <2>1. a.after => a.ids = Wire(FinalIds(offer))
    BY DEF a, ExtensionIds, WireIds, Wire
  <2>2. \A h \in Goroutines : pc'[h] # "ids" => pos'[h] = 1
    BY <1>2, <1>3 DEF ExtensionIds
  <2>3. \A h \in Goroutines : pc'[h] = "ids" =>
          \A i \in DOMAIN ids' : i < pos'[h] => ids'[i] = FinalIds(offer')[i]
    <3>1. pos[g] = 1
      BY <1>1 DEF ExtensionIds
    <3>2. \A i \in DOMAIN ids : ~(i < 1)
      BY DEF TypeOK
    <3> QED
      BY <1>2, <1>3, <3>1, <3>2 DEF ExtensionIds
  <2>4. \A b \in asked' : b.after => b.ids = Wire(FinalIds(offer))
    BY <1>12, <2>1 DEF ExtensionIds
  <2> QED
    BY <1>2, <2>2, <2>3, <2>4 DEF ExtensionIds
<1>14. Transports'
  <2>1. a.via = IF a.had THEN 1 ELSE 0
    BY <1>1 DEF a, Transports
  <2> QED
    BY <1>2, <1>3, <1>12, <2>1 DEF Transports
<1>15. Feedback'
  <2>1. a.push => a.feedback = RemoveFeedbackRemb(offer.feedback)
    BY <1>1 DEF a, Feedback
  <2>2. \A b \in asked' : b.push => b.feedback = RemoveFeedbackRemb(offer.feedback)
    BY <1>12, <2>1 DEF Feedback
  <2>3. /\ pc'[Owner] = "remb" => pc[Owner] = "remb"
        /\ pc'[Owner] \notin {"idle", "remb"} => pc[Owner] \notin {"idle", "remb"}
    BY <1>1, <1>3
  <2> QED
    BY <1>2, <2>2, <2>3 DEF Feedback
<1> QED
  BY <1>6, <1>7, <1>9, <1>10, <1>11, <1>13, <1>14, <1>15

LEMMA ChangeExtensionIdInv ==
    ASSUME Inv, NEW g \in Goroutines, ChangeExtensionId(g)
    PROVE  Inv'
<1> USE DEF Inv
<1> DEFINE n == pos[g]
<1>1. /\ pc[g] = "ids" /\ n <= Len(ids)
      /\ ids' = [ids EXCEPT ![n] = GetNewExtensionId(offer.extensions[n].uri)]
      /\ pos' = [pos EXCEPT ![g] = n + 1]
  BY DEF ChangeExtensionId, At
<1>2. UNCHANGED <<offer, pts, feedback, rtx, transport, made, consumers, pc, todo, to, via,
                  after, had, declared, asked, told, dataOn, crash, early, settled>>
  BY DEF ChangeExtensionId, tables, sent
<1>3. n \in Nat \ {0}
  BY DEF TypeOK
<1> HIDE DEF n
<1>4. /\ Owner \in Goroutines /\ Owner \notin Peers /\ Goroutines = Peers \cup {Owner}
      /\ offer # NoOffer /\ offer \in Offers
  <2>1. Owner \in Goroutines /\ Owner \notin Peers /\ Goroutines = Peers \cup {Owner}
    BY ParametersAssumption DEF Goroutines
  <2> QED
    BY <1>1, <2>1 DEF Course, TypeOK
<1>5. /\ ids \in Seq(Int) /\ n \in 1..Len(ids) /\ Len(ids) = Len(offer.extensions)
      /\ DOMAIN ids = DOMAIN offer.extensions /\ DOMAIN ids = 1..Len(ids)
  <2>1. ids \in Seq(Int) /\ Len(ids) = Len(offer.extensions)
    BY <1>4 DEF TypeOK, ExtensionIds
  <2>2. DOMAIN offer.extensions = 1..Len(offer.extensions)
    BY <1>4, OfferParts
  <2> QED
    BY <1>1, <1>3, <2>1, <2>2
<1>6. GetNewExtensionId(offer.extensions[n].uri) = FinalIds(offer)[n]
  BY <1>5 DEF FinalIds
<1>7. /\ ids' \in Seq(Int) /\ Len(ids') = Len(ids) /\ DOMAIN ids' = DOMAIN ids
      /\ \A i \in DOMAIN ids : ids'[i] = IF i = n THEN FinalIds(offer)[n] ELSE ids[i]
  <2>1. GetNewExtensionId(offer.extensions[n].uri) \in Int
    BY NewIdIsInt
  <2> QED
    BY <1>1, <1>5, <1>6, <2>1, ExceptSeq
<1>8. TypeOK'
  <2>1. pos' \in [Goroutines -> Nat \ {0}]
    <3>1. n + 1 \in Nat \ {0}
      BY <1>3
    <3>2. pos \in [Goroutines -> Nat \ {0}]
      BY DEF TypeOK
    <3> QED
      BY <1>1, <3>1, <3>2
  <2> QED
    BY <1>2, <1>7, <2>1 DEF TypeOK
<1>9. Course' /\ Declaration' /\ Crashes'
  BY <1>2 DEF Course, Declaration, Crashes
<1>10. Untouched'
  <2>1. declared = {} => early # {}
    <3>1. CASE g = Owner
      BY <1>1, <3>1 DEF Course
    <3>2. CASE g # Owner
      BY <1>1, <1>4, <3>2 DEF Untouched
    <3> QED
      BY <3>1, <3>2
  <2> QED
    BY <1>2, <2>1 DEF Untouched
<1>11. Types' /\ Transports' /\ Feedback'
  BY <1>2 DEF Types, Transports, Feedback
<1>12. ExtensionIds'
  <2>1. \A h \in Goroutines : pos'[h] = IF h = g THEN n + 1 ELSE pos[h]
    BY <1>1 DEF TypeOK
  <2>2. ASSUME NEW h \in Goroutines, pc[h] = "ids", NEW i \in DOMAIN ids, i < pos'[h]
        PROVE  ids'[i] = FinalIds(offer)[i]
    <3>1. CASE i = n
      BY <1>7, <3>1
    <3>2. CASE i # n
      <4>1. i < pos[h]
        <5>1. i \in Nat
          BY <1>5
        <5>2. CASE h = g
          BY <1>3, <2>1, <2>2, <3>2, <5>1, <5>2 DEF n
        <5>3. CASE h # g
          BY <2>1, <2>2, <5>3
        <5> QED
          BY <5>2, <5>3
      <4> QED
        BY <1>7, <2>2, <3>2, <4>1 DEF ExtensionIds
    <3> QED
      BY <3>1, <3>2
  <2>3. settled => ids' = ids
    <3>1. settled => ids[n] = FinalIds(offer)[n]
      BY DEF ExtensionIds
    <3> QED
      BY <1>1, <1>5, <1>6, <3>1
  <2>4. \A h \in Goroutines : pc[h] # "ids" => pos'[h] = 1
    BY <1>1, <2>1 DEF ExtensionIds
  <2>5. settled' => ids' = FinalIds(offer')
    BY <1>2, <2>3 DEF ExtensionIds
  <2>6. \A h \in Goroutines : pc'[h] = "ids" =>
          \A i \in DOMAIN ids' : i < pos'[h] => ids'[i] = FinalIds(offer')[i]
    BY <1>2, <1>7, <2>2
  <2>7. offer' # NoOffer => Len(ids') = Len(offer'.extensions)
    BY <1>2, <1>5, <1>7
  <2> QED
    BY <1>2, <2>4, <2>5, <2>6, <2>7 DEF ExtensionIds
<1> QED
  BY <1>8, <1>9, <1>10, <1>11, <1>12

LEMMA RequestNewConsumerInv ==
    ASSUME Inv, crash = "none", NEW g \in Goroutines, RequestNewConsumer(g)
    PROVE  Inv'
<1> USE DEF Inv
<1> DEFINE t == [to |-> to[g], ids |-> ids, pts |-> pts]
           next == IF g = Owner THEN "push" ELSE "idle"
<1>1. /\ pc[g] = "ids" /\ pos[g] > Len(ids) /\ pos' = [pos EXCEPT ![g] = 1]
      /\ settled' = TRUE /\ told' = told \cup {t} /\ pc' = [pc EXCEPT ![g] = next]
  BY DEF RequestNewConsumer, At, Goto
<1>2. UNCHANGED <<offer, pts, ids, feedback, rtx, transport, made, consumers, todo, to, via,
                  after, had, declared, asked, dataOn, crash, early>>
  BY DEF RequestNewConsumer, slices, tables
<1>3. /\ Owner \in Goroutines /\ Owner \notin Peers /\ Goroutines = Peers \cup {Owner}
      /\ \A h \in Goroutines : pc'[h] = IF h = g THEN next ELSE pc[h]
  BY <1>1, ParametersAssumption DEF TypeOK, Goroutines
<1>4. offer # NoOffer /\ offer \in Offers
  BY <1>1, <1>3 DEF Course, TypeOK
<1>5. ids = FinalIds(offer) /\ pts = FinalTypes(offer)
  <2>1. ids \in Seq(Int) /\ Len(ids) = Len(offer.extensions) /\ pos[g] \in Nat
    BY <1>4 DEF TypeOK, ExtensionIds
  <2>2. \A i \in DOMAIN ids : i < pos[g]
    BY <1>1, <2>1
  <2>3. \A i \in DOMAIN ids : ids[i] = FinalIds(offer)[i]
    BY <1>1, <2>2 DEF ExtensionIds
  <2>4. FinalIds(offer) \in Seq(Int) /\ Len(FinalIds(offer)) = Len(offer.extensions)
    BY <1>4, FinalLists
  <2>5. ids = FinalIds(offer)
    BY <2>1, <2>3, <2>4, SeqEqual
  <2> QED
    BY <1>1, <2>5 DEF Types
<1>6. t.ids = ids /\ t.pts = pts
  OBVIOUS
<1> HIDE DEF t
<1>7. TypeOK'
  <2>1. pc' \in [Goroutines -> Points]
    BY <1>1 DEF TypeOK, Points
  <2>2. pos' \in [Goroutines -> Nat \ {0}]
    BY <1>1 DEF TypeOK
  <2> QED
    BY <1>1, <1>2, <2>1, <2>2 DEF TypeOK
<1>8. Course'
  <2>1. g = Owner => pc[Owner] = "ids" /\ pc'[Owner] = "push"
    BY <1>1, <1>3
  <2>2. g # Owner => pc'[Owner] = pc[Owner]
    BY <1>3
  <2>3. \A v \in Peers : pc'[v] \in {"idle", "request", "ids"}
    BY <1>3 DEF Course
  <2>4. \A h \in Goroutines : pc'[h] \in {"request", "ids"} => to[h] \in Peers
    BY <1>3 DEF Course
  <2> QED
    BY <1>2, <1>4, <2>1, <2>2, <2>3, <2>4 DEF Course
<1>9. Untouched'
  <2>1. declared = {} => early # {}
    <3>1. CASE g = Owner
      BY <1>1, <3>1 DEF Course
    <3>2. CASE g # Owner
      BY <1>1, <1>3, <3>2 DEF Untouched
    <3> QED
      BY <3>1, <3>2
  <2> QED
    BY <1>2, <2>1 DEF Untouched
<1>10. Declaration' /\ Crashes'
  BY <1>2 DEF Declaration, Crashes
<1>11. Types'
  BY <1>1, <1>2, <1>3, <1>5, <1>6 DEF Types
<1>12. ExtensionIds'
  <2>1. \A h \in Goroutines : pos'[h] = IF h = g THEN 1 ELSE pos[h]
    BY <1>1 DEF TypeOK
  <2>2. \A h \in Goroutines : pc'[h] = "ids" => h # g
    BY <1>3
  <2> QED
    BY <1>1, <1>2, <1>3, <1>4, <1>5, <1>6, <2>1, <2>2 DEF ExtensionIds
<1>13. Transports'
  BY <1>2, <1>3 DEF Transports
<1>14. Feedback'
  <2>1. /\ pc'[Owner] = "remb" => pc[Owner] = "remb"
        /\ pc'[Owner] \notin {"idle", "remb"} => pc[Owner] \notin {"idle", "remb"}
    BY <1>1, <1>3
  <2> QED
    BY <1>2, <2>1 DEF Feedback
<1> QED
  BY <1>7, <1>8, <1>9, <1>10, <1>11, <1>12, <1>13, <1>14

-----------------------------------------------------------------------------
(* The theorems.                                                            *)

\* Inv holds whatever the goroutines do and in whichever order.
THEOREM Invariance == Spec => []Inv
<1>1. Init => Inv
  BY InitInv
<1>2. Inv /\ [Next]_vars => Inv'
  <2> SUFFICES ASSUME Inv, [Next]_vars PROVE Inv'
    OBVIOUS
  <2>1. CASE UNCHANGED vars
    <3>1. UNCHANGED <<offer, pts, ids, feedback, rtx, transport, made, consumers, pc, todo,
                      to, via, pos, after, had, declared, asked, told, dataOn, crash, early,
                      settled>>
      BY <2>1 DEF vars, slices, tables, making, sent
    <3>2. TypeOK' /\ Course' /\ Untouched' /\ Declaration' /\ Crashes'
      BY <3>1 DEF Inv, TypeOK, Course, Untouched, Declaration, Crashes
    <3>3. Types' /\ ExtensionIds' /\ Transports' /\ Feedback'
      BY <3>1 DEF Inv, Types, ExtensionIds, Transports, Feedback
    <3> QED
      BY <3>2, <3>3 DEF Inv
  <2>2. ASSUME NEW o \in Offers, Produce(o) PROVE Inv'
    BY <2>2, ProduceInv
  <2>3. CASE CleanFeedback
    BY <2>3, CleanFeedbackInv
  <2>4. CASE CreateProducer
    BY <2>4, CreateProducerInv
  <2>5. ASSUME NEW v \in Peers,
               \/ CreateWebrtcTransport(v)
               \/ \E t \in 0..MaxTransports[v] : ConnectWebrtcTransport(v, t)
               \/ PushNext(v) \/ PullNext(v)
        PROVE  Inv'
    BY <2>5, CreateWebrtcTransportInv, ConnectWebrtcTransportInv, PushNextInv, PullNextInv
  <2>6. ASSUME NEW g \in Goroutines, crash = "none",
               CreateConsumer(g) \/ ChangeExtensionId(g) \/ RequestNewConsumer(g)
        PROVE  Inv'
    BY <2>6, CreateConsumerInv, ChangeExtensionIdInv, RequestNewConsumerInv
  <2> QED
    BY <2>1, <2>2, <2>3, <2>4, <2>5, <2>6 DEF Next
<1> QED
  BY <1>1, <1>2, PTL DEF Spec

\* Every variable keeps its type.
THEOREM TypeCorrect == Spec => []TypeOK
<1>1. Inv => TypeOK
  BY DEF Inv
<1> QED
  BY <1>1, Invariance, PTL

\* Produce declares the client's own payload types and extension ids, and a push
\* never meets an encoding without its Rtx, unless a pull came first.
THEOREM DeclarationIsTheOffer == Spec => []DeclaredAsOffered
<1>1. Inv => DeclaredAsOffered
  <2> SUFFICES ASSUME Inv, early = {}, NEW d \in declared
               PROVE  /\ d.pts = offer.pts
                      /\ d.ids = [i \in DOMAIN offer.extensions |->
                                    Uint32(offer.extensions[i].id)]
    BY DEF Inv, Crashes, DeclaredAsOffered
  <2>1. d.pts = offer.pts /\ d.ids = Wire(OfferedIds(offer))
    BY DEF Inv, Declaration
  <2> QED
    BY <2>1 DEF Wire, OfferedIds
<1> QED
  BY <1>1, Invariance, PTL

\* For the codecs browsers offer, the types CreateProducer maps to are those
\* CreateNewConsumerData gives the consumers, and CreateConsumer maps these once
\* more, to types no client is told.
THEOREM MappingIsTheConsumers == Spec => []MappingMeetsConsumers
<1>1. Inv => MappingMeetsConsumers
  <2> SUFFICES ASSUME Inv, NEW t \in told, early = {},
                      <<offer.kind, offer.pts>> \in BrowserCodecs
               PROVE  /\ declared # {} /\ \A d \in declared : d.mapped = t.pts
                      /\ \A a \in asked :
                            a.pts = t.pts /\ ToSet(a.mapped) \cap ToSet(t.pts) = {}
    BY DEF MappingMeetsConsumers
  <2>1. declared # {}
    BY DEF Inv, Untouched
  <2>2. /\ t.pts = FinalTypes(offer)
        /\ \A a \in asked :
            a.pts = FinalTypes(offer) /\ a.mapped = Mapped(offer, FinalTypes(offer))
        /\ \A d \in declared : d.mapped = Mapped(offer, offer.pts)
    BY DEF Inv, Types, Declaration
  <2>3. CASE offer.kind = "audio" /\ offer.pts = << 111 >>
    <3>1. FinalTypes(offer) = << 100 >>
      BY <2>3 DEF FinalTypes
    <3>2. Uint32(111 - 11) = 100 /\ Uint32(100 - 11) = 89
      BY SmallOnTheWire
    <3>3. Mapped(offer, << 111 >>) = << 100 >>
      BY <2>3, <3>2 DEF Mapped
    <3>4. Mapped(offer, << 100 >>) = << 89 >>
      BY <2>3, <3>2 DEF Mapped
    <3>5. ToSet(<< 89 >>) \cap ToSet(<< 100 >>) = {}
      BY DEF ToSet
    <3> QED
      BY <2>1, <2>2, <2>3, <3>1, <3>3, <3>4, <3>5
  <2>4. CASE offer.kind = "video" /\ offer.pts = <<96, 97>>
    <3>1. FinalTypes(offer) = <<101, 102>>
      BY <2>4 DEF FinalTypes
    <3>2. /\ Uint32(96 + 5) = 101 /\ Uint32(97 + 5) = 102
          /\ Uint32(101 + 5) = 106 /\ Uint32(102 + 5) = 107
      BY SmallOnTheWire
    <3>3. Mapped(offer, <<96, 97>>) = <<101, 102>>
      BY <2>4, <3>2 DEF Mapped
    <3>4. Mapped(offer, <<101, 102>>) = <<106, 107>>
      BY <2>4, <3>2 DEF Mapped
    <3>5. ToSet(<<106, 107>>) \cap ToSet(<<101, 102>>) = {}
      BY DEF ToSet
    <3> QED
      BY <2>1, <2>2, <2>4, <3>1, <3>3, <3>4, <3>5
  <2> QED
    BY <2>3, <2>4 DEF BrowserCodecs
<1> QED
  BY <1>1, Invariance, PTL

\* A consumer begun after one was complete has the same extension ids at the
\* worker and at its client.
THEOREM LaterConsumersHaveOneId == Spec => []LaterConsumersAgree
<1>1. Inv => LaterConsumersAgree
  BY DEF Inv, ExtensionIds, LaterConsumersAgree, Wire
<1> QED
  BY <1>1, Invariance, PTL

\* What the capabilities of a router must have in common with
\* GetNewExtensionId, as those of config.json do.
CapabilitiesFit ==
    \A uri \in DOMAIN Contained :
        /\ GetNewExtensionId(uri) \in {Preferred[uri], -1}
        /\ GetNewExtensionId(uri) = -1 <=> uri \in {"dependency-descriptor", "packet-id"}

\* With such capabilities no client is told another id, however the goroutines
\* that rewrite the list interleave.
THEOREM ToldAsConfigured ==
    ASSUME CapabilitiesFit
    PROVE  Spec => []ToldIdsAreConfigured
<1>1. Inv => ToldIdsAreConfigured
  <2> SUFFICES ASSUME Inv, NEW t \in told, NEW i \in DOMAIN t.ids
               PROVE  LET uri == offer.extensions[i].uri IN
                      t.ids[i] \in {Preferred[uri], -1}
                      /\ (t.ids[i] = -1 <=> uri \in {"dependency-descriptor", "packet-id"})
    BY DEF ToldIdsAreConfigured
  <2>1. offer \in Offers
    BY DEF Inv, Course, TypeOK
  <2>2. t.ids = FinalIds(offer)
    BY DEF Inv, ExtensionIds
  <2>3. i \in DOMAIN offer.extensions
        /\ t.ids[i] = GetNewExtensionId(offer.extensions[i].uri)
    BY <2>2 DEF FinalIds
  <2>4. offer.extensions[i] \in [uri : DOMAIN Contained, id : Int]
    <3>1. offer.extensions \in Seq([uri : DOMAIN Contained, id : Int])
      BY <2>1, OfferParts
    <3>2. i \in 1..Len(offer.extensions)
      BY <2>3, <3>1
    <3> QED
      BY <3>1, <3>2, ElementOfSeq
  <2>5. offer.extensions[i].uri \in DOMAIN Contained
    BY <2>4
  <2> QED
    BY <2>3, <2>5 DEF CapabilitiesFit
<1> QED
  BY <1>1, Invariance, PTL

\* Everything a user is asked to receive is on the first transport it was given,
\* unless it was begun before there was one; then, and only then, it is on none.
THEOREM OneTransport == Spec => []OneTransportPerUser
<1>1. Inv => OneTransportPerUser
  BY DEF Inv, Transports, OneTransportPerUser
<1> QED
  BY <1>1, Invariance, PTL

\* The declaration and every push carry the list that RemoveFeedbackRemb has
\* made of the client's (the pulls may carry any of the two).
CleanedListIsSent ==
    /\ \A d \in declared :
        d.feedback = DeclaredFeedback(offer.kind, RemoveFeedbackRemb(offer.feedback))
    /\ \A a \in asked : a.push => a.feedback = RemoveFeedbackRemb(offer.feedback)

\* CleanedListIsSent in every reachable state: no goroutine gets in between
\* Produce's cleaning of the list and its use.
THEOREM FeedbackIsCleaned == Spec => []CleanedListIsSent
<1>1. Inv => CleanedListIsSent
  BY DEF Inv, Feedback, CleanedListIsSent
<1> QED
  BY <1>1, Invariance, PTL

\* What is declared and what the push asks for has goog-remb only where the
\* client's list ended with it, and nothing else has gone but nack from the
\* declaration of audio: for every list, from what the two loops do to it and
\* from who writes to it when.
THEOREM FeedbackTrimmed == Spec => []FeedbackIsTrimmed
<1> DEFINE Trimmed(list, out) ==
        /\ "goog-remb" \in ToSet(list) => Last(offer.feedback) = "goog-remb"
        /\ ToSet(offer.feedback) \ ({"goog-remb"} \cup out) \subseteq ToSet(list)
           nack == IF offer.kind = "audio" THEN {"nack"} ELSE {}
<1>1. Inv => FeedbackIsTrimmed
  <2> SUFFICES ASSUME Inv
               PROVE  /\ \A d \in declared : Trimmed(d.feedback, nack)
                      /\ \A a \in asked : a.push => Trimmed(a.feedback, {})
    BY DEF FeedbackIsTrimmed
  <2> DEFINE c == RemoveFeedbackRemb(offer.feedback)
             k == DeclaredFeedback(offer.kind, c)
  <2>1. CASE offer = NoOffer
    BY <2>1 DEF Inv, Course
  <2>2. CASE offer # NoOffer
    <3>1. offer.feedback \in Seq(STRING)
      BY <2>2, OfferParts DEF Inv, TypeOK
    <3>2. /\ c \in Seq(STRING)
          /\ ToSet(offer.feedback) \ {"goog-remb"} \subseteq ToSet(c)
          /\ "goog-remb" \in ToSet(c) => Last(offer.feedback) = "goog-remb"
      BY <3>1, RembIsRemoved
    <3>3. ToSet(k) \subseteq ToSet(c) /\ ToSet(c) \ nack \subseteq ToSet(k)
      BY <3>2, OnlyNackIsLeftOut
    <3>4. /\ \A d \in declared : d.feedback = k
          /\ \A a \in asked : a.push => a.feedback = c
      BY DEF Inv, Feedback
    <3> HIDE DEF c, k
    <3>5. Trimmed(c, {}) /\ Trimmed(k, nack)
      BY <3>2, <3>3
    <3> QED
      BY <3>4, <3>5
  <2> QED
    BY <2>1, <2>2
<1> QED
  BY <1>1, Invariance, PTL
=============================================================================
