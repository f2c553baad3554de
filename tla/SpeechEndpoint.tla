---------------------------- MODULE SpeechEndpoint ----------------------------
(***************************************************************************)
(* GET /tts: middleware.RateLimiter and service.TTSService.                *)
(*                                                                         *)
(* The limiter keeps, by client address, the times of the requests it let  *)
(* through in the last window, and changes them under its mutex.  A        *)
(* request that passes looks its text up in the audio cache, has it spoken *)
(* by the external service on a miss, and stores the audio; the mutex of   *)
(* the cache is free while the service works, so requests for one text may *)
(* all miss.  The cache drops its oldest text when it is full.             *)
(***************************************************************************)
EXTENDS Integers, Sequences, SequencesExt, FiniteSets

CONSTANTS
  Listeners,   \* requests to the endpoint
  Addresses,   \* values of r.RemoteAddr
  Texts,
  NoText,
  Limit,       \* requests let through in a window
  Window,      \* in clock ticks
  CacheMax,    \* ttsCacheMax
  LastTick     \* bound on the clock

ASSUME SpeechAssumption ==
  /\ Limit \in Nat \ {0} /\ Window \in Nat \ {0} /\ CacheMax \in Nat \ {0}
  /\ LastTick \in Nat
  /\ NoText \notin Texts

VARIABLES
  clock,
  recent,    \* RateLimiter.requests
  spoken,    \* the keys of TTSService.cache
  order,     \* TTSService.order
  stage,     \* where each request is
  text,      \* the text it asks for, until it is done
  passed,    \* history: when the limiter let requests of an address through
  refusals   \* history: refusals with the number of requests in the window then

speechVars == <<clock, recent, spoken, order, stage, text, passed, refusals>>

SpeechTypeOK ==
  /\ clock \in 0 .. LastTick
  /\ recent \in [Addresses -> Seq(0 .. LastTick)]
  /\ spoken \subseteq Texts
  /\ order \in Seq(Texts)
  /\ stage \in [Listeners -> {"new", "lookup", "speak", "store", "done"}]
  /\ text \in [Listeners -> Texts \cup {NoText}]

SpeechInit ==
  /\ clock = 0
  /\ recent = [a \in Addresses |-> <<>>]
  /\ spoken = {} /\ order = <<>>
  /\ stage = [l \in Listeners |-> "new"]
  /\ text = [l \in Listeners |-> NoText]
  /\ passed = [a \in Addresses |-> <<>>]
  /\ refusals = {}

SpeechTick ==
  /\ clock < LastTick
  /\ clock' = clock + 1
  /\ UNCHANGED <<recent, spoken, order, stage, text, passed, refusals>>

-------------------------------------------------------------------------------
(* The limiter.                                                              *)

InWindow(t) == t > clock - Window

\* The loop that keeps the times still in the window, in order.
StillRecent(times) ==
  LET kept[i \in 0 .. Len(times)] ==
        IF i = 0 THEN <<>>
        ELSE IF InWindow(times[i]) THEN Append(kept[i - 1], times[i]) ELSE kept[i - 1] IN
    kept[Len(times)]

Filtered(a) == StillRecent(recent[a])

Admit(l, a, txt) ==
  /\ stage[l] = "new"
  /\ Len(Filtered(a)) < Limit
  /\ recent' = [recent EXCEPT ![a] = Append(Filtered(a), clock)]
  /\ passed' = [passed EXCEPT ![a] = Append(@, clock)]
  /\ stage' = [stage EXCEPT ![l] = "lookup"]
  /\ text' = [text EXCEPT ![l] = txt]
  /\ UNCHANGED <<clock, spoken, order, refusals>>

RefuseAndRecord(l, a) ==
  /\ stage[l] = "new"
  /\ Len(Filtered(a)) >= Limit
  /\ recent' = [recent EXCEPT ![a] = Append(Filtered(a), clock)]
  /\ refusals' = refusals \cup {[addr |-> a, at |-> clock]}
  /\ stage' = [stage EXCEPT ![l] = "done"]
  /\ UNCHANGED <<clock, spoken, order, text, passed>>

\* The filter writes in place over the old times, and a refusal leaves the slice at its old length.
Refuse(l, a) ==
  /\ stage[l] = "new"
  /\ Len(Filtered(a)) >= Limit
  /\ LET kept == Filtered(a) IN
       recent' = [recent EXCEPT ![a] = kept \o SubSeq(@, Len(kept) + 1, Len(@))]
  /\ refusals' = refusals \cup {[addr |-> a, at |-> clock]}
  /\ stage' = [stage EXCEPT ![l] = "done"]
  /\ UNCHANGED <<clock, spoken, order, text, passed>>

-------------------------------------------------------------------------------
(* Synthesize.                                                               *)

Go(l, to) ==
  /\ stage' = [stage EXCEPT ![l] = to]
  /\ text' = IF to = "done" THEN [text EXCEPT ![l] = NoText] ELSE text

\* getCache(text).
Find(l) ==
  /\ stage[l] = "lookup"
  /\ Go(l, IF text[l] \in spoken THEN "done" ELSE "speak")
  /\ UNCHANGED <<clock, recent, spoken, order, passed, refusals>>

\* synthEdge: the service answers with audio, or with an error or none.
Speak(l) ==
  /\ stage[l] = "speak"
  /\ Go(l, "store") \/ Go(l, "done")
  /\ UNCHANGED <<clock, recent, spoken, order, passed, refusals>>

KeepUnchecked(l) ==
  /\ stage[l] = "store"
  /\ LET full == Len(order) >= CacheMax IN
       /\ spoken' = (IF full THEN spoken \ {Head(order)} ELSE spoken) \cup {text[l]}
       /\ order' = Append(IF full THEN Tail(order) ELSE order, text[l])
  /\ Go(l, "done")
  /\ UNCHANGED <<clock, recent, passed, refusals>>

\* putCache(text, audio).
Keep(l) ==
  /\ stage[l] = "store"
  /\ IF text[l] \in spoken
       THEN UNCHANGED <<spoken, order>>
       ELSE LET full == Len(order) >= CacheMax IN
              /\ spoken' = (IF full THEN spoken \ {Head(order)} ELSE spoken) \cup {text[l]}
              /\ order' = Append(IF full THEN Tail(order) ELSE order, text[l])
  /\ Go(l, "done")
  /\ UNCHANGED <<clock, recent, passed, refusals>>

SpeechNext ==
  \/ SpeechTick
  \/ \E l \in Listeners :
       \/ \E a \in Addresses : Refuse(l, a) \/ \E txt \in Texts : Admit(l, a, txt)
       \/ Find(l) \/ Speak(l) \/ Keep(l)

SpeechSpec == SpeechInit /\ [][SpeechNext]_speechVars

-------------------------------------------------------------------------------
(* Properties.                                                               *)

\* The requests of address a let through in the window that ends at t.
PassedIn(a, t) == {i \in DOMAIN passed[a] : passed[a][i] \in (t - Window + 1) .. t}

(***************************************************************************)
(* "maks 60 permintaan / menit": no window, wherever it starts, has more   *)
(* than Limit requests of an address that were let through, and a request  *)
(* is refused only at the end of a window that has as many: refused ones   *)
(* do not count.                                                           *)
(***************************************************************************)
LimitIsExact ==
  \A a \in Addresses :
    /\ \A t \in 0 .. clock : Cardinality(PassedIn(a, t)) <= Limit
    /\ \A f \in refusals : f.addr = a => Cardinality(PassedIn(a, f.at)) >= Limit

(***************************************************************************)
(* Concurrent misses of one text leave the cache in order: the eviction    *)
(* order lists exactly the texts that are cached, each once, and no more   *)
(* than CacheMax of them, so an eviction frees what it is meant to free.   *)
(***************************************************************************)
EvictionOrderIsExact ==
  /\ IsInjective(order)
  /\ spoken = ToSet(order)
  /\ Len(order) <= CacheMax

===============================================================================
