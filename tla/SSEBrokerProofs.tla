---------------------------- MODULE SSEBrokerProofs ----------------------------
(***************************************************************************)
(* Proofs about SSEBroker, for every set of streams and publishers and     *)
(* every channel capacity: the mutex keeps publishers off closed channels. *)
(***************************************************************************)
EXTENDS SSEBroker, SequenceTheorems, TLAPS

\* Every step keeps the type invariant.
LEMMA TypeStep == ASSUME TypeOK, [Next]_vars PROVE TypeOK'
<1> USE DEF TypeOK, Move, Step, history
<1>1. ASSUME NEW s \in Streams, Announce(s) \/ Join(s) \/ Disconnect(s) PROVE TypeOK'
  BY <1>1 DEF Announce, Join, Disconnect
<1>2. ASSUME NEW s \in Streams, WriterStep(s) PROVE TypeOK'
  BY <1>2 DEF WriterStep, Subscribe, Unsubscribe
<1>3. ASSUME NEW s \in Streams, Deliver(s) PROVE TypeOK'
  <2>1. /\ Head(buffer[s]) \in Publishers
        /\ Tail(buffer[s]) \in Seq(Publishers)
        /\ Len(Tail(buffer[s])) = Len(buffer[s]) - 1
    BY <1>3 DEF Deliver
  <2>2. /\ sent' \in [Streams -> Seq(Publishers)]
        /\ buffer' \in [Streams -> Seq(Publishers)]
    BY <1>3, <2>1 DEF Deliver
  <2>3. \A o \in Streams : Len(buffer'[o]) <= Capacity
    BY <1>3, <2>1, BrokerAssumption DEF Deliver
  <2>4. QED
    BY <1>3, <2>2, <2>3 DEF Deliver
<1>4. ASSUME NEW p \in Publishers, Publish(p) PROVE TypeOK'
  BY <1>4 DEF Publish
<1>5. ASSUME NEW p \in Publishers, RLock(p) PROVE TypeOK'
  BY <1>5 DEF RLock
<1>6. ASSUME NEW p \in Publishers, Offer(p) PROVE TypeOK'
  <2>1. PICK s \in todo[p] :
          /\ todo' = [todo EXCEPT ![p] = @ \ {s}]
          /\ panicked' = (panicked \/ s \in closed)
          /\ IF Len(buffer[s]) < Capacity
             THEN buffer' = [buffer EXCEPT ![s] = Append(@, p)] /\ UNCHANGED dropped
             ELSE dropped' = [dropped EXCEPT ![s] = @ \cup {p}] /\ UNCHANGED buffer
    BY <1>6 DEF Offer
  <2>2. s \in Streams /\ buffer[s] \in Seq(Publishers)
    BY <2>1
  <2>3. /\ Append(buffer[s], p) \in Seq(Publishers)
        /\ Len(Append(buffer[s], p)) = Len(buffer[s]) + 1
        /\ Len(buffer[s]) \in Nat
    BY <2>2
  <2>4. /\ buffer' \in [Streams -> Seq(Publishers)]
        /\ dropped' \in [Streams -> SUBSET Publishers]
        /\ \A o \in Streams : Len(buffer'[o]) <= Capacity
    <3>1. CASE Len(buffer[s]) < Capacity
      <4>1. buffer' = [buffer EXCEPT ![s] = Append(buffer[s], p)] /\ dropped' = dropped
        BY <2>1, <3>1
      <4>2. Len(Append(buffer[s], p)) <= Capacity
        BY <2>3, <3>1, BrokerAssumption
      <4>3. QED
        BY <2>2, <2>3, <4>1, <4>2
    <3>2. CASE ~(Len(buffer[s]) < Capacity)
      <4>1. buffer' = buffer /\ dropped' = [dropped EXCEPT ![s] = dropped[s] \cup {p}]
        BY <2>1, <3>2
      <4>2. QED
        BY <2>2, <4>1
    <3>3. QED
      BY <3>1, <3>2
  <2>5. QED
    BY <1>6, <2>1, <2>4 DEF Offer
<1>7. ASSUME NEW p \in Publishers, Return(p) PROVE TypeOK'
  BY <1>7 DEF Return
<1>8. CASE UNCHANGED vars
  BY <1>8 DEF vars
<1>9. QED
  BY <1>1, <1>2, <1>3, <1>4, <1>5, <1>6, <1>7, <1>8 DEF Next, PublisherStep

(***************************************************************************)
(* The map changes only when no publisher is in its loop, so a publisher's *)
(* channels stay in the map until it has visited them.                     *)
(***************************************************************************)
LEMMA LockStep ==
  ASSUME IInv, [Next]_vars PROVE MapMatchesStreams' /\ VisitsClients' /\ ~panicked'
<1> USE DEF IInv, TypeOK, MapMatchesStreams, VisitsClients, Move, Step
<1>1. ASSUME NEW s \in Streams, Announce(s) \/ Join(s) \/ Disconnect(s) \/ Deliver(s)
      PROVE  MapMatchesStreams' /\ VisitsClients' /\ ~panicked'
  BY <1>1 DEF Announce, Join, Disconnect, Deliver
<1>2. ASSUME NEW s \in Streams, WriterStep(s)
      PROVE  MapMatchesStreams' /\ VisitsClients' /\ ~panicked'
  <2>1. \A p \in Publishers : todo[p] = {} /\ todo'[p] = {}
    BY <1>2 DEF WriterStep, Subscribe, Unsubscribe, NoReader
  <2>2. MapMatchesStreams'
    BY <1>2 DEF WriterStep, Subscribe, Unsubscribe
  <2>3. ~panicked'
    BY <1>2 DEF WriterStep, Subscribe, Unsubscribe
  <2>4. QED
    BY <2>1, <2>2, <2>3
<1>3. ASSUME NEW p \in Publishers, Publish(p) \/ RLock(p) \/ Return(p)
      PROVE  MapMatchesStreams' /\ VisitsClients' /\ ~panicked'
  <2>1. UNCHANGED <<clients, closed, conn, panicked>>
    BY <1>3 DEF Publish, RLock, Return
  <2>2. CASE Publish(p) \/ Return(p)
    <3>1. todo' = todo /\ todo[p] = {} /\ pub' = [pub EXCEPT ![p] = pub'[p]]
      BY <2>2 DEF Publish, Return
    <3>2. QED
      BY <2>1, <3>1
  <2>3. CASE RLock(p)
    <3>1. todo' = [todo EXCEPT ![p] = clients] /\ pub' = [pub EXCEPT ![p] = "sending"]
      BY <2>3 DEF RLock
    <3>2. QED
      BY <2>1, <3>1
  <2>4. QED
    BY <1>3, <2>2, <2>3
<1>4. ASSUME NEW p \in Publishers, Offer(p)
      PROVE  MapMatchesStreams' /\ VisitsClients' /\ ~panicked'
  <2>1. PICK s \in todo[p] : /\ todo' = [todo EXCEPT ![p] = @ \ {s}]
                             /\ panicked' = (panicked \/ s \in closed)
    BY <1>4 DEF Offer
  <2>2. s \notin closed
    BY <2>1
  <2>3. QED
    BY <1>4, <2>1, <2>2 DEF Offer
<1>5. CASE UNCHANGED vars
  BY <1>5 DEF vars
<1>6. QED
  BY <1>1, <1>2, <1>3, <1>4, <1>5 DEF Next, PublisherStep

LEMMA InitIInv == ASSUME Init PROVE IInv
<1>1. TypeOK
  <2>1. <<>> \in Seq(Publishers) /\ Len(<<>>) <= Capacity
    BY BrokerAssumption
  <2>2. \A s \in Streams : buffer[s] = <<>>
    BY DEF Init
  <2>3. \A s \in Streams : Len(buffer[s]) <= Capacity
    BY <2>1, <2>2
  <2>4. buffer \in [Streams -> Seq(Publishers)] /\ sent \in [Streams -> Seq(Publishers)]
    BY <2>1 DEF Init
  <2>5. QED
    BY <2>3, <2>4 DEF Init, TypeOK
<1>2. QED
  BY <1>1 DEF Init, IInv, MapMatchesStreams, VisitsClients

LEMMA Invariance == Spec => []IInv
<1>1. IInv /\ [Next]_vars => IInv'
  BY TypeStep, LockStep DEF IInv
<1>2. QED
  BY <1>1, InitIInv, PTL DEF Spec

(***************************************************************************)
(* Type correctness of the broker; no channel holds more than its capacity.*)
(***************************************************************************)
THEOREM BrokerTyping == Spec => []TypeOK
  BY Invariance, PTL DEF IInv

(***************************************************************************)
(* However streams come and go, no publisher sends on a closed channel.    *)
(***************************************************************************)
THEOREM ClosedChannelsUntouched == Spec => []NoSendOnClosedChannel
<1>1. IInv => NoSendOnClosedChannel
  BY DEF IInv, MapMatchesStreams, VisitsClients, NoSendOnClosedChannel
<1>2. QED
  BY <1>1, Invariance, PTL

-------------------------------------------------------------------------------
(* Loss and order.                                                           *)

(***************************************************************************)
(* A publisher's loop visits only whom it set out to visit, and whoever is *)
(* on record as earlier than another has returned.                         *)
(***************************************************************************)
LoopsAreRecorded ==
  /\ \A p \in Publishers :
       /\ todo[p] \subseteq offered[p]
       /\ pub[p] \in {"idle", "locking"} => offered[p] = {}
       /\ \A q \in earlier[p] : pub[q] = "done"
  /\ \A p \in Publishers : pub[p] = "done" => todo[p] = {}

DeliveryInv == IInv /\ LoopsAreRecorded /\ NothingElseIsLost /\ PublicationOrder

\* What a stream has sent and still holds, as one sequence.
LEMMA ArrivedSeq == ASSUME TypeOK, NEW s \in Streams PROVE Arrived(s) \in Seq(Publishers)
  BY DEF TypeOK, Arrived

\* The first of the held events, put behind those sent.
LEMMA HeadMoved ==
  ASSUME NEW a \in Seq(Publishers), NEW b \in Seq(Publishers), b # <<>>
  PROVE  Append(a, Head(b)) \o Tail(b) = a \o b
<1>1. /\ Len(b) \in Nat \ {0} /\ Len(a) \in Nat /\ Head(b) = b[1] /\ Head(b) \in Publishers
      /\ Tail(b) \in Seq(Publishers) /\ Len(Tail(b)) = Len(b) - 1
      /\ \A i \in 1 .. Len(b) - 1 : Tail(b)[i] = b[i + 1]
  OBVIOUS
<1>2. /\ Append(a, Head(b)) \in Seq(Publishers) /\ Len(Append(a, Head(b))) = Len(a) + 1
      /\ Append(a, Head(b))[Len(a) + 1] = Head(b)
      /\ \A i \in 1 .. Len(a) : Append(a, Head(b))[i] = a[i]
  BY <1>1
<1>3. ASSUME NEW c \in Seq(Publishers), NEW d \in Seq(Publishers)
      PROVE  /\ c \o d \in Seq(Publishers) /\ Len(c \o d) = Len(c) + Len(d)
             /\ \A i \in 1 .. Len(c) + Len(d) :
                  (c \o d)[i] = IF i <= Len(c) THEN c[i] ELSE d[i - Len(c)]
  BY ConcatProperties
<1> DEFINE left == Append(a, Head(b)) \o Tail(b)
           right == a \o b
<1>4. left \in Seq(Publishers) /\ right \in Seq(Publishers) /\ Len(left) = Len(right)
      /\ Len(right) = Len(a) + Len(b)
  BY <1>1, <1>2, <1>3
<1>5. ASSUME NEW i \in 1 .. Len(right) PROVE left[i] = right[i]
  <2>1. CASE i <= Len(a)
    BY <1>1, <1>2, <1>3, <1>4, <2>1
  <2>2. CASE i = Len(a) + 1
    BY <1>1, <1>2, <1>3, <1>4, <2>2
  <2>3. CASE i > Len(a) + 1
    <3>1. left[i] = Tail(b)[i - (Len(a) + 1)] /\ right[i] = b[i - Len(a)]
      BY <1>1, <1>2, <1>3, <1>4, <2>3
    <3>2. i - (Len(a) + 1) \in 1 .. Len(b) - 1
      BY <1>1, <1>4, <2>3
    <3>3. QED
      BY <1>1, <3>1, <3>2
  <2>4. QED
    BY <1>1, <1>4, <2>1, <2>2, <2>3
<1>6. QED
  BY <1>4, <1>5, SeqEqual

\* Delivering moves an event from the channel to the client: what has arrived stays as it is.
LEMMA DeliveredIsArrived ==
  ASSUME TypeOK, NEW s \in Streams, Deliver(s), NEW o \in Streams
  PROVE  Arrived(o)' = Arrived(o)
<1>1. CASE o # s
  BY <1>1 DEF Deliver, TypeOK, Arrived
<1>2. CASE o = s
  <2>1. /\ sent[s] \in Seq(Publishers) /\ buffer[s] \in Seq(Publishers) /\ buffer[s] # <<>>
        /\ sent'[s] = Append(sent[s], Head(buffer[s])) /\ buffer'[s] = Tail(buffer[s])
    BY DEF Deliver, TypeOK
  <2>2. Append(sent[s], Head(buffer[s])) \o Tail(buffer[s]) = sent[s] \o buffer[s]
    BY <2>1, HeadMoved
  <2>3. QED
    BY <1>2, <2>1, <2>2 DEF Arrived
<1>3. QED
  BY <1>1, <1>2

\* An event offered to a channel with room arrives last.
LEMMA AppendedLast ==
  ASSUME NEW a \in Seq(Publishers), NEW b \in Seq(Publishers), NEW p \in Publishers
  PROVE  a \o Append(b, p) = Append(a \o b, p)
  OBVIOUS

\* The elements of a sequence with one more at its end, and their positions.
LEMMA OneMore ==
  ASSUME NEW a \in Seq(Publishers), NEW p \in Publishers
  PROVE  /\ ToSet(Append(a, p)) = ToSet(a) \cup {p}
         /\ p \notin ToSet(a) /\ IsInjective(a) => IsInjective(Append(a, p))
         /\ Len(Append(a, p)) = Len(a) + 1 /\ Append(a, p)[Len(a) + 1] = p
         /\ \A i \in 1 .. Len(a) : Append(a, p)[i] = a[i]
<1>1. /\ Len(Append(a, p)) = Len(a) + 1 /\ Append(a, p)[Len(a) + 1] = p
      /\ \A i \in 1 .. Len(a) : Append(a, p)[i] = a[i]
      /\ DOMAIN a = 1 .. Len(a) /\ DOMAIN Append(a, p) = 1 .. Len(a) + 1 /\ Len(a) \in Nat
  OBVIOUS
<1>2. ToSet(Append(a, p)) = ToSet(a) \cup {p}
  BY <1>1 DEF ToSet
<1>3. ASSUME p \notin ToSet(a), IsInjective(a) PROVE IsInjective(Append(a, p))
  BY <1>1, <1>3 DEF ToSet, IsInjective
<1>4. QED
  BY <1>1, <1>2, <1>3

\* A step of the stream, or of a publisher that offers nothing, in which no event arrives.
LEMMA NothingArrives ==
  ASSUME DeliveryInv, UNCHANGED <<dropped, earlier>>, \A s \in Streams : Arrived(s)' = Arrived(s),
         \A p \in Publishers : offered'[p] \ todo'[p] = offered[p] \ todo[p]
  PROVE  NothingElseIsLost' /\ PublicationOrder'
  BY DEF DeliveryInv, NothingElseIsLost, PublicationOrder

LEMMA DeliveryStep ==
  ASSUME DeliveryInv, [Next]_vars
  PROVE  LoopsAreRecorded' /\ NothingElseIsLost' /\ PublicationOrder'
<1> USE DEF DeliveryInv, IInv, Move, Step
<1>1. ASSUME NEW s \in Streams, Announce(s) \/ Join(s) \/ WriterStep(s) \/ Disconnect(s)
      PROVE  LoopsAreRecorded' /\ NothingElseIsLost' /\ PublicationOrder'
  <2>1. UNCHANGED <<buffer, pub, todo, sent, dropped, offered, earlier>>
    BY <1>1 DEF Announce, Join, WriterStep, Subscribe, Unsubscribe, Disconnect, history
  <2>2. LoopsAreRecorded'
    BY <2>1 DEF LoopsAreRecorded
  <2>3. QED
    BY <2>1, <2>2, NothingArrives DEF Arrived
<1>2. ASSUME NEW s \in Streams, Deliver(s)
      PROVE  LoopsAreRecorded' /\ NothingElseIsLost' /\ PublicationOrder'
  <2>1. UNCHANGED <<pub, todo, dropped, offered, earlier>>
    BY <1>2 DEF Deliver, history
  <2>2. LoopsAreRecorded'
    BY <2>1 DEF LoopsAreRecorded
  <2>3. QED
    BY <1>2, <2>1, <2>2, NothingArrives, DeliveredIsArrived
<1>3. ASSUME NEW p \in Publishers, Publish(p)
      PROVE  LoopsAreRecorded' /\ NothingElseIsLost' /\ PublicationOrder'
  <2>1. /\ UNCHANGED <<buffer, todo, sent, dropped, offered>>
        /\ pub' = [pub EXCEPT ![p] = "locking"] /\ pub[p] = "idle"
        /\ earlier' = [earlier EXCEPT ![p] = {o \in Publishers : pub[o] = "done"}]
    BY <1>3 DEF Publish
  <2>2. LoopsAreRecorded'
    BY <2>1 DEF LoopsAreRecorded, TypeOK
  <2>3. \A s \in Streams : p \notin ToSet(Arrived(s))
    BY <2>1 DEF NothingElseIsLost, LoopsAreRecorded
  <2>4. NothingElseIsLost'
    BY <2>1 DEF NothingElseIsLost, Arrived
  <2>5. ASSUME NEW s \in Streams, NEW i \in 1 .. Len(Arrived(s)), NEW j \in 1 .. Len(Arrived(s)), i < j
        PROVE  Arrived(s)[j] \notin earlier'[Arrived(s)[i]]
    <3>1. Arrived(s)[i] # p /\ Arrived(s)[i] \in Publishers
      BY <2>3, ArrivedSeq DEF ToSet
    <3>2. earlier'[Arrived(s)[i]] = earlier[Arrived(s)[i]]
      BY <2>1, <3>1 DEF TypeOK
    <3>3. QED
      BY <2>5, <3>2 DEF PublicationOrder
  <2>6. PublicationOrder'
    BY <2>1, <2>5 DEF PublicationOrder, Arrived
  <2>7. QED
    BY <2>2, <2>4, <2>6
<1>4. ASSUME NEW p \in Publishers, RLock(p)
      PROVE  LoopsAreRecorded' /\ NothingElseIsLost' /\ PublicationOrder'
  <2>1. /\ UNCHANGED <<buffer, sent, dropped, earlier>>
        /\ pub' = [pub EXCEPT ![p] = "sending"] /\ pub[p] = "locking"
        /\ todo' = [todo EXCEPT ![p] = clients] /\ offered' = [offered EXCEPT ![p] = clients]
    BY <1>4 DEF RLock
  <2>2. LoopsAreRecorded'
    BY <2>1 DEF LoopsAreRecorded, TypeOK
  <2>3. \A q \in Publishers : offered'[q] \ todo'[q] = offered[q] \ todo[q]
    BY <2>1 DEF LoopsAreRecorded, TypeOK
  <2>4. QED
    BY <2>1, <2>2, <2>3, NothingArrives DEF Arrived
<1>5. ASSUME NEW p \in Publishers, Offer(p)
      PROVE  LoopsAreRecorded' /\ NothingElseIsLost' /\ PublicationOrder'
  <2>1. PICK s \in todo[p] :
          /\ todo' = [todo EXCEPT ![p] = @ \ {s}]
          /\ IF Len(buffer[s]) < Capacity
             THEN buffer' = [buffer EXCEPT ![s] = Append(@, p)] /\ UNCHANGED dropped
             ELSE dropped' = [dropped EXCEPT ![s] = @ \cup {p}] /\ UNCHANGED buffer
    BY <1>5 DEF Offer
  <2>2. s \in Streams /\ pub[p] = "sending" /\ UNCHANGED <<pub, sent, offered, earlier>>
    BY <1>5, <2>1 DEF Offer, TypeOK
  <2>3. LoopsAreRecorded'
    BY <2>1, <2>2 DEF LoopsAreRecorded, TypeOK
  <2>4. /\ s \in offered[p] /\ p \notin ToSet(Arrived(s)) \cup dropped[s]
        /\ \A q \in Publishers, o \in Streams :
             o \in offered'[q] \ todo'[q] <=> o \in offered[q] \ todo[q] \/ (q = p /\ o = s)
    BY <2>1, <2>2 DEF LoopsAreRecorded, NothingElseIsLost, TypeOK
  <2>5. CASE Len(buffer[s]) < Capacity
    <3>1. /\ \A o \in Streams \ {s} : Arrived(o)' = Arrived(o)
          /\ dropped' = dropped
      BY <2>1, <2>2, <2>5 DEF Arrived, TypeOK
    <3>2. Arrived(s)' = Append(Arrived(s), p)
      <4>1. buffer'[s] = Append(buffer[s], p) /\ sent'[s] = sent[s]
        BY <2>1, <2>2, <2>5 DEF TypeOK
      <4>2. QED
        BY <2>2, <4>1, AppendedLast DEF Arrived, TypeOK
    <3>3. Arrived(s) \in Seq(Publishers) /\ IsInjective(Arrived(s))
      BY <2>2, ArrivedSeq DEF NothingElseIsLost
    <3>4. ToSet(Arrived(s)') = ToSet(Arrived(s)) \cup {p} /\ IsInjective(Arrived(s)')
      BY <2>4, <3>2, <3>3, OneMore
    <3>5. NothingElseIsLost'
      BY <2>2, <2>4, <3>1, <3>4 DEF NothingElseIsLost
    <3>6. \A i \in 1 .. Len(Arrived(s)) : p \notin earlier[Arrived(s)[i]]
      <4>1. \A i \in 1 .. Len(Arrived(s)) : Arrived(s)[i] \in Publishers
        BY <3>3
      <4>2. QED
        BY <2>2, <4>1 DEF LoopsAreRecorded
    <3>7. ASSUME NEW i \in 1 .. Len(Arrived(s)'), NEW j \in 1 .. Len(Arrived(s)'), i < j
          PROVE  Arrived(s)'[j] \notin earlier[Arrived(s)'[i]]
      <4>1. /\ i \in 1 .. Len(Arrived(s)) /\ Len(Arrived(s)) \in Nat
            /\ j \in 1 .. Len(Arrived(s)) \/ j = Len(Arrived(s)) + 1
        BY <3>2, <3>3, <3>7, OneMore
      <4>2. Arrived(s)'[i] = Arrived(s)[i]
        BY <3>2, <3>3, <4>1, OneMore
      <4>3. CASE j = Len(Arrived(s)) + 1
        BY <3>2, <3>3, <3>6, <4>1, <4>2, <4>3, OneMore
      <4>4. CASE j \in 1 .. Len(Arrived(s))
        BY <2>2, <3>2, <3>3, <3>7, <4>1, <4>2, <4>4, OneMore DEF PublicationOrder
      <4>5. QED
        BY <4>1, <4>3, <4>4
    <3>8. PublicationOrder'
      BY <2>2, <3>1, <3>7 DEF PublicationOrder
    <3>9. QED
      BY <2>3, <3>5, <3>8
  <2>6. CASE ~(Len(buffer[s]) < Capacity)
    <3>1. /\ \A o \in Streams : Arrived(o)' = Arrived(o)
          /\ dropped'[s] = dropped[s] \cup {p} /\ \A o \in Streams \ {s} : dropped'[o] = dropped[o]
      BY <2>1, <2>2, <2>6 DEF Arrived, TypeOK
    <3>2. NothingElseIsLost'
      BY <2>2, <2>4, <3>1 DEF NothingElseIsLost
    <3>3. PublicationOrder'
      BY <2>2, <3>1 DEF PublicationOrder
    <3>4. QED
      BY <2>3, <3>2, <3>3
  <2>7. QED
    BY <2>5, <2>6
<1>6. ASSUME NEW p \in Publishers, Return(p)
      PROVE  LoopsAreRecorded' /\ NothingElseIsLost' /\ PublicationOrder'
  <2>1. /\ UNCHANGED <<buffer, todo, sent, dropped, offered, earlier>>
        /\ pub' = [pub EXCEPT ![p] = "done"] /\ todo[p] = {}
    BY <1>6 DEF Return, history
  <2>2. LoopsAreRecorded'
    BY <2>1 DEF LoopsAreRecorded, TypeOK
  <2>3. QED
    BY <2>1, <2>2, NothingArrives DEF Arrived
<1>7. CASE UNCHANGED vars
  <2>1. LoopsAreRecorded'
    BY <1>7 DEF vars, history, LoopsAreRecorded
  <2>2. QED
    BY <1>7, <2>1, NothingArrives DEF vars, history, Arrived
<1>8. QED
  BY <1>1, <1>2, <1>3, <1>4, <1>5, <1>6, <1>7 DEF Next, PublisherStep

LEMMA Delivery == Spec => []DeliveryInv
<1>1. ASSUME Init PROVE DeliveryInv
  <2>1. LoopsAreRecorded
    BY <1>1 DEF Init, LoopsAreRecorded
  <2>2. \A s \in Streams : Arrived(s) = <<>>
    BY <1>1 DEF Init, Arrived
  <2>3. NothingElseIsLost /\ PublicationOrder
    BY <1>1, <2>2 DEF Init, NothingElseIsLost, PublicationOrder, ToSet, IsInjective
  <2>4. QED
    BY <1>1, <2>1, <2>3, InitIInv DEF DeliveryInv
<1>2. DeliveryInv /\ [Next]_vars => DeliveryInv'
  BY TypeStep, LockStep, DeliveryStep DEF DeliveryInv, IInv
<1>3. QED
  BY <1>1, <1>2, PTL DEF Spec

(***************************************************************************)
(* Whoever is in the map when an event is published gets it exactly once,  *)
(* or its channel was full: subscribing and leaving lose nothing else.     *)
(***************************************************************************)
THEOREM OnlyFullChannelsLose == Spec => []NothingElseIsLost
  BY Delivery, PTL DEF DeliveryInv

(***************************************************************************)
(* No stream ever receives an event before one whose Publish had returned  *)
(* when its own began.                                                     *)
(***************************************************************************)
THEOREM OrderOfPublication == Spec => []PublicationOrder
  BY Delivery, PTL DEF DeliveryInv

===============================================================================
