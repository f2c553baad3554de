------------------------------- MODULE SSEBroker -------------------------------
(***************************************************************************)
(* sse.Broker (internal/sse/broker.go) and the streams that read from it   *)
(* (SSEHandler.Stream, internal/handler/sse.go).                           *)
(*                                                                         *)
(* A stream announces itself to its client, subscribes, forwards events    *)
(* until the client leaves, and unsubscribes.  Subscribe and Unsubscribe   *)
(* hold the broker's RWMutex for writing.  Each HTTP request that changed  *)
(* a ticket publishes one event: it holds the mutex for reading while it   *)
(* offers the event to every client's channel in any order, and drops it   *)
(* where the channel is full.  A goroutine that has called Lock keeps new  *)
(* readers out (sync.RWMutex).                                             *)
(*                                                                         *)
(* Heartbeats carry no event and are left out.  An event is named by the   *)
(* publisher that publishes it.                                            *)
(***************************************************************************)
EXTENDS Integers, Sequences, SequencesExt

CONSTANTS
  Streams, Publishers,
  Capacity     \* of a client's channel: 16 in the code

ASSUME BrokerAssumption == Capacity \in Nat \ {0}

VARIABLES
  clients,     \* Broker.clients: the streams whose channel is in the map
  buffer,      \* the events in each stream's channel
  closed,      \* the streams whose channel is closed
  conn,        \* where each stream is
  pub,         \* where each publisher is
  todo,        \* the clients each publisher's loop has still to visit
  sent,        \* the events each stream has written to its client
  dropped,     \* history: the events each stream's full channel refused
  offered,     \* history: the clients in the map when each publisher's loop began
  earlier,     \* history: the publishers that had returned when each one started
  panicked     \* a publisher has sent on a closed channel

vars == <<clients, buffer, closed, conn, pub, todo, sent, dropped, offered, earlier, panicked>>

history == <<dropped, offered, earlier>>

TypeOK ==
  /\ clients \subseteq Streams
  /\ buffer \in [Streams -> Seq(Publishers)]
  /\ \A s \in Streams : Len(buffer[s]) <= Capacity
  /\ closed \subseteq Streams
  /\ conn \in [Streams -> {"idle", "connected", "joining", "open", "leaving", "gone"}]
  /\ pub \in [Publishers -> {"idle", "locking", "sending", "done"}]
  /\ todo \in [Publishers -> SUBSET Streams]
  /\ sent \in [Streams -> Seq(Publishers)]
  /\ dropped \in [Streams -> SUBSET Publishers]
  /\ offered \in [Publishers -> SUBSET Streams]
  /\ earlier \in [Publishers -> SUBSET Publishers]
  /\ panicked \in BOOLEAN

Init ==
  /\ clients = {}
  /\ buffer = [s \in Streams |-> <<>>]
  /\ closed = {}
  /\ conn = [s \in Streams |-> "idle"]
  /\ pub = [p \in Publishers |-> "idle"]
  /\ todo = [p \in Publishers |-> {}]
  /\ sent = [s \in Streams |-> <<>>]
  /\ dropped = [s \in Streams |-> {}]
  /\ offered = [p \in Publishers |-> {}]
  /\ earlier = [p \in Publishers |-> {}]
  /\ panicked = FALSE

Move(s, from, to) == conn[s] = from /\ conn' = [conn EXCEPT ![s] = to]

Step(p, from, to) == pub[p] = from /\ pub' = [pub EXCEPT ![p] = to]

NoReader == \A p \in Publishers : pub[p] # "sending"

WriterWaiting == \E s \in Streams : conn[s] \in {"joining", "leaving"}

-------------------------------------------------------------------------------
(* A stream.                                                                 *)

\* ": connected" is written and flushed.
Announce(s) ==
  /\ Move(s, "idle", "connected")
  /\ UNCHANGED <<clients, buffer, closed, pub, todo, sent, history, panicked>>

\* Subscribe calls Lock.
Join(s) ==
  /\ Move(s, "connected", "joining")
  /\ UNCHANGED <<clients, buffer, closed, pub, todo, sent, history, panicked>>

Subscribe(s) ==
  /\ NoReader
  /\ Move(s, "joining", "open")
  /\ clients' = clients \cup {s}
  /\ UNCHANGED <<buffer, closed, pub, todo, sent, history, panicked>>

DeliverNewest(s) ==
  /\ conn[s] = "open"
  /\ buffer[s] # <<>>
  /\ sent' = [sent EXCEPT ![s] = Append(@, Last(buffer[s]))]
  /\ buffer' = [buffer EXCEPT ![s] = Front(@)]
  /\ UNCHANGED <<clients, closed, conn, pub, todo, history, panicked>>

Deliver(s) ==
  /\ conn[s] = "open"
  /\ buffer[s] # <<>>
  /\ sent' = [sent EXCEPT ![s] = Append(@, Head(buffer[s]))]
  /\ buffer' = [buffer EXCEPT ![s] = Tail(@)]
  /\ UNCHANGED <<clients, closed, conn, pub, todo, history, panicked>>

\* The client's request context is done: select may see it before a buffered event.
Disconnect(s) ==
  /\ Move(s, "open", "leaving")
  /\ UNCHANGED <<clients, buffer, closed, pub, todo, sent, history, panicked>>

UnsubscribeUnlocked(s) ==
  /\ Move(s, "leaving", "gone")
  /\ clients' = clients \ {s}
  /\ closed' = closed \cup {s}
  /\ UNCHANGED <<buffer, pub, todo, sent, history, panicked>>

Unsubscribe(s) ==
  /\ NoReader
  /\ Move(s, "leaving", "gone")
  /\ clients' = clients \ {s}
  /\ closed' = closed \cup {s}
  /\ UNCHANGED <<buffer, pub, todo, sent, history, panicked>>

-------------------------------------------------------------------------------
(* A publisher.                                                              *)

\* Publish calls RLock.
Publish(p) ==
  /\ Step(p, "idle", "locking")
  /\ earlier' = [earlier EXCEPT ![p] = {o \in Publishers : pub[o] = "done"}]
  /\ UNCHANGED <<clients, buffer, closed, conn, todo, sent, dropped, offered, panicked>>

RLock(p) ==
  /\ ~WriterWaiting
  /\ Step(p, "locking", "sending")
  /\ todo' = [todo EXCEPT ![p] = clients]
  /\ offered' = [offered EXCEPT ![p] = clients]
  /\ UNCHANGED <<clients, buffer, closed, conn, sent, dropped, earlier, panicked>>

OfferBlocking(p) ==
  /\ pub[p] = "sending"
  /\ \E s \in todo[p] :
       /\ Len(buffer[s]) < Capacity
       /\ todo' = [todo EXCEPT ![p] = @ \ {s}]
       /\ buffer' = [buffer EXCEPT ![s] = Append(@, p)]
  /\ UNCHANGED <<clients, closed, conn, pub, sent, history, panicked>>

OfferOverwriting(p) ==
  /\ pub[p] = "sending"
  /\ \E s \in todo[p] :
       /\ todo' = [todo EXCEPT ![p] = @ \ {s}]
       /\ buffer' = [buffer EXCEPT ![s] =
                       IF Len(@) < Capacity THEN Append(@, p) ELSE Append(Tail(@), p)]
  /\ UNCHANGED <<clients, closed, conn, pub, sent, history, panicked>>

OfferUnbounded(p) ==
  /\ pub[p] = "sending"
  /\ \E s \in todo[p] :
       /\ todo' = [todo EXCEPT ![p] = @ \ {s}]
       /\ buffer' = [buffer EXCEPT ![s] = Append(@, p)]
  /\ UNCHANGED <<clients, closed, conn, pub, sent, history, panicked>>

\* select { case ch <- ev: default: }
Offer(p) ==
  /\ pub[p] = "sending"
  /\ \E s \in todo[p] :
       /\ todo' = [todo EXCEPT ![p] = @ \ {s}]
       /\ panicked' = (panicked \/ s \in closed)
       /\ IF Len(buffer[s]) < Capacity
          THEN buffer' = [buffer EXCEPT ![s] = Append(@, p)] /\ UNCHANGED dropped
          ELSE dropped' = [dropped EXCEPT ![s] = @ \cup {p}] /\ UNCHANGED buffer
  /\ UNCHANGED <<clients, closed, conn, pub, sent, offered, earlier>>

\* The loop has visited every client: RUnlock.
Return(p) ==
  /\ todo[p] = {}
  /\ Step(p, "sending", "done")
  /\ UNCHANGED <<clients, buffer, closed, conn, todo, sent, history, panicked>>

PublisherStep(p) == RLock(p) \/ Offer(p) \/ Return(p)
WriterStep(s) == Subscribe(s) \/ Unsubscribe(s)

Next ==
  \/ \E s \in Streams :
       Announce(s) \/ Join(s) \/ WriterStep(s) \/ Deliver(s) \/ Disconnect(s)
  \/ \E p \in Publishers : Publish(p) \/ PublisherStep(p)

Spec == Init /\ [][Next]_vars

\* Publishers and goroutines at the mutex run; nothing makes a client read or leave.
FairSpec ==
  /\ Spec
  /\ \A p \in Publishers : WF_vars(PublisherStep(p))
  /\ \A s \in Streams : WF_vars(WriterStep(s))

-------------------------------------------------------------------------------
(* Properties.                                                               *)

(***************************************************************************)
(* No publisher sends on a closed channel (a panic in Go): a stream never  *)
(* leaves the map and closes its channel under a publisher's loop.         *)
(***************************************************************************)
NoSendOnClosedChannel ==
  ~panicked /\ \A p \in Publishers : todo[p] \cap closed = {}

Arrived(s) == sent[s] \o buffer[s]

(***************************************************************************)
(* Every client in the map when an event is published gets the event       *)
(* exactly once, unless its channel was full and refused it; streams that  *)
(* subscribe or leave meanwhile change nothing for the others.             *)
(***************************************************************************)
NothingElseIsLost ==
  \A s \in Streams :
    /\ IsInjective(Arrived(s))
    /\ ToSet(Arrived(s)) \cap dropped[s] = {}
    /\ \A p \in Publishers :
         s \in offered[p] \ todo[p] <=> p \in ToSet(Arrived(s)) \cup dropped[s]

(***************************************************************************)
(* A stream sees events in the order they were published: an event never   *)
(* arrives before one whose Publish had returned when its own began.       *)
(***************************************************************************)
PublicationOrder ==
  \A s \in Streams :
    LET a == Arrived(s) IN
    \A i, j \in 1 .. Len(a) : i < j => a[j] \notin earlier[a[i]]

(***************************************************************************)
(* "SSE delivery must never block or fail a domain operation": whenever    *)
(* publishers are under way, all of them come to have returned, although   *)
(* no client ever reads.                                                   *)
(***************************************************************************)
EveryPublishReturns ==
  (\E p \in Publishers : pub[p] \in {"locking", "sending"})
    ~> (\A p \in Publishers : pub[p] \in {"idle", "done"})

(***************************************************************************)
(* Clients that disconnect all come to be removed from the map, however    *)
(* many publishers hold the lock or wait for it.                           *)
(***************************************************************************)
EveryLeaverIsRemoved ==
  (\E s \in Streams : conn[s] = "leaving") ~> (\A s \in Streams : conn[s] # "leaving")

-------------------------------------------------------------------------------
(* The inductive invariant behind NoSendOnClosedChannel, part by part.       *)

\* A channel is in the map while its stream is, and closed when its stream has left.
MapMatchesStreams ==
  /\ clients = {s \in Streams : conn[s] \in {"open", "leaving"}}
  /\ closed = {s \in Streams : conn[s] = "gone"}

\* A publisher visits channels of the map only, and only under the read lock.
VisitsClients ==
  \A p \in Publishers : todo[p] \subseteq clients /\ (pub[p] # "sending" => todo[p] = {})

IInv ==
  /\ TypeOK
  /\ MapMatchesStreams
  /\ VisitsClients
  /\ ~panicked

===============================================================================
