----------------------------- MODULE QueueService -----------------------------
(***************************************************************************)
(* service.QueueService (internal/service/queue.go): the layer between the *)
(* HTTP handlers and the ticket table.                                     *)
(*                                                                         *)
(* A mutation runs its repository operation, reads the ticket back,        *)
(* invalidates the list cache and publishes the ticket to the SSE broker,  *)
(* in this order and in separate steps; any error ends it there.  A read   *)
(* looks in the cache, and on a miss fetches from the table and stores     *)
(* what it fetched, in separate steps.  Requests interleave freely, and    *)
(* the one server process may be restarted.                                *)
(*                                                                         *)
(* The table is the atomic one of TicketLifecycle, which TicketNumbering   *)
(* and TicketDesk implement.  Every query joins the name of the user who   *)
(* called the ticket, which UserService changes at any time; it knows      *)
(* nothing of this cache.                                                  *)
(***************************************************************************)
EXTENDS Integers, FiniteSets

CONSTANTS
  Tickets, Requests, NoTicket,
  Users, Names,   \* the accounts that call tickets, and what they may be named
  Ratings,
  Null,       \* NULL in a column
  Keys,       \* the cache keys in use: see Shown
  NoEntry,    \* a key the cache does not hold; a request that has fetched nothing
  NoPayload,  \* a request that has not read its ticket
  NoInput,
  MayFail     \* whether database statements may fail and the server may restart

ASSUME ServiceAssumption ==
  /\ Keys \subseteq {"all", "active", "last"}
  /\ MayFail \in BOOLEAN
  /\ NoTicket \notin Tickets
  /\ Null \notin Users \cup Ratings

VARIABLES
  status, rating, caller,   \* the ticket table: status, rating and user_id
  called,      \* the ticket each request took from the queue
  name,        \* users.name
  cache,       \* QueueService.listCache, by key
  pc,          \* where each request is
  asked,       \* its operation and input
  target,      \* the ticket a mutation is about
  payload,     \* the row it will return and publish
  fetched,     \* what a read fetched from the table
  overtaken,   \* history: reads whose fetch an Invalidate has followed
  lateFill,    \* history: keys stored by an overtaken read since the last Invalidate
  missed,      \* history: a change committed and its request ended without Invalidate
  renamed,     \* history: users renamed since the last Invalidate
  settled      \* history: tickets whose columns have been published, or never will be: the
               \* request that changed them last failed

table == <<status, rating, caller, called>>
history == <<overtaken, lateFill, missed, renamed, settled>>
vars == <<table, name, cache, pc, asked, target, payload, fetched, history>>

Rated == {t \in Tickets : rating[t] # Null}

Store == INSTANCE TicketLifecycle WITH rated <- Rated

Changes == {"create", "complete", "skip", "recall", "rate"}

Input ==
  [op : Changes \ {"rate"}, ticket : Tickets]
    \cup [op : {"rate"}, ticket : Tickets, rating : Ratings]
    \cup [op : {"call"}, user : Users]
    \cup [op : {"read"}, key : Keys]

Mutating == {"look", "commit", "get", "invalidate", "publish"}
Reading == {"lookup", "fetch", "store"}

\* The columns of a ticket itself.
Columns(t) == [status |-> status[t], rating |-> rating[t], caller |-> caller[t]]

\* u.name AS staff, of the LEFT JOIN.
StaffOf(t) == IF caller[t] = Null THEN Null ELSE name[caller[t]]

\* A ticket as the readers and the subscribers see it.
RowOf(t) == [ticket |-> Columns(t), staff |-> StaffOf(t)]

Rows ==
  [ticket : [status : Store!Statuses, rating : Ratings \cup {Null}, caller : Users \cup {Null}],
   staff : Names \cup {Null}]

\* What List and Last answer: rows by ticket.
Lists == UNION {[shown -> Rows] : shown \in SUBSET Tickets}

(***************************************************************************)
(* The tickets a key's list contains.  List is keyed by its filter, of     *)
(* which no filter ("all") and active=true ("active") stand for the rest.  *)
(* Last is stored under "last": its answer is one of the finished tickets, *)
(* and stands here for all of them, of which it is a function.             *)
(***************************************************************************)
Shown(k) ==
  {t \in Tickets :
     status[t] \in CASE k = "all" -> Store!Statuses \ {"absent"}
                     [] k = "active" -> {"waiting", "calling", "serving"}
                     [] k = "last" -> {"completed", "skipped"}}

ReadWithoutStaff(k) == [t \in Shown(k) |-> Columns(t)]

\* repository.List and Last.
Read(k) == [t \in Shown(k) |-> RowOf(t)]

TypeOK ==
  /\ status \in [Tickets -> Store!Statuses]
  /\ rating \in [Tickets -> Ratings \cup {Null}]
  /\ caller \in [Tickets -> Users \cup {Null}]
  /\ name \in [Users -> Names]
  /\ called \in [Requests -> Tickets \cup {NoTicket}]
  /\ cache \in [Keys -> Lists \cup {NoEntry}]
  /\ pc \in [Requests -> {"idle", "over"} \cup Mutating \cup Reading]
  /\ asked \in [Requests -> Input \cup {NoInput}]
  /\ target \in [Requests -> Tickets \cup {NoTicket}]
  /\ payload \in [Requests -> Rows \cup {NoPayload}]
  /\ fetched \in [Requests -> Lists \cup {NoEntry}]
  /\ overtaken \subseteq Requests
  /\ lateFill \subseteq Keys
  /\ missed \in BOOLEAN
  /\ renamed \subseteq Users
  /\ settled \subseteq Tickets

\* The server starts on a table that holds any tickets, with an empty cache.
Init ==
  /\ rating \in [Tickets -> Ratings \cup {Null}]
  /\ Store!Init
  /\ caller \in [Tickets -> Users \cup {Null}]
  /\ \A t \in Tickets : status[t] \in {"absent", "waiting"} => caller[t] = Null
  /\ name \in [Users -> Names]
  /\ cache = [k \in Keys |-> NoEntry]
  /\ pc = [r \in Requests |-> "idle"]
  /\ asked = [r \in Requests |-> NoInput]
  /\ target = [r \in Requests |-> NoTicket]
  /\ payload = [r \in Requests |-> NoPayload]
  /\ fetched = [r \in Requests |-> NoEntry]
  /\ overtaken = {} /\ lateFill = {} /\ missed = FALSE /\ renamed = {}
  /\ settled = Tickets

Goto(r, l) == pc' = [pc EXCEPT ![r] = l]

\* The request returns, with an answer or an error, and its variables are gone.
Return(r) ==
  /\ Goto(r, "over")
  /\ asked' = [asked EXCEPT ![r] = NoInput]
  /\ target' = [target EXCEPT ![r] = NoTicket]
  /\ payload' = [payload EXCEPT ![r] = NoPayload]
  /\ fetched' = [fetched EXCEPT ![r] = NoEntry]
  /\ overtaken' = overtaken \ {r}

-------------------------------------------------------------------------------
(* Mutations: Create, CreateGuest, CallNext, Complete, Skip, Recall, Rate.   *)

\* Create and CreateGuest differ in what they find: a guest token may have its ticket.
Submit(r, in) ==
  /\ pc[r] = "idle"
  /\ asked' = [asked EXCEPT ![r] = in]
  /\ target' = [target EXCEPT ![r] = IF in.op \in Changes THEN in.ticket ELSE NoTicket]
  /\ Goto(r, CASE in.op = "read" -> "lookup"
               [] in.op \in {"create", "recall"} -> "look"
               [] OTHER -> "commit")
  /\ UNCHANGED <<table, name, cache, payload, fetched, history>>

\* The statuses in which the operation changes ticket t.
Ready(op) ==
  CASE op = "call" -> {"waiting"}
    [] op = "create" -> {"absent"}
    [] op = "complete" -> {"calling", "serving"}
    [] op = "skip" -> {"waiting", "calling"}
    [] op = "recall" -> {"skipped"}
    [] op = "rate" -> {"completed"}

\* CreateGuest's fast path and Recall read the ticket before they change it, or instead.
Look(r) ==
  /\ pc[r] = "look"
  /\ LET t == target[r]
         op == asked[r].op
         answered == (op = "create" /\ status[t] # "absent")
                       \/ (op = "recall" /\ status[t] \in {"calling", "serving"})
         allowed == status[t] \in Ready(op) IN
       \/ /\ answered
          /\ payload' = [payload EXCEPT ![r] = RowOf(t)]
          /\ Goto(r, "invalidate")
          /\ UNCHANGED <<asked, target, fetched, overtaken>>
       \/ /\ ~answered /\ allowed
          /\ Goto(r, "commit")
          /\ UNCHANGED <<asked, target, payload, fetched, overtaken>>
       \/ /\ ~answered /\ ~allowed
          /\ Return(r)
  /\ UNCHANGED <<table, name, cache, lateFill, missed, renamed, settled>>

\* The step the repository operation makes on the table.
StoreStep(r, t) ==
  \/ /\ asked[r].op = "call"
     /\ UNCHANGED rating
     /\ Store!Call(r, t)
     /\ caller' = [caller EXCEPT ![t] = asked[r].user]
  \/ /\ asked[r].op = "rate"
     /\ rating' = [rating EXCEPT ![t] = asked[r].rating]
     /\ Store!Rate(t)
     /\ UNCHANGED caller
  \/ /\ UNCHANGED <<rating, caller>>
     /\ \/ asked[r].op = "create" /\ Store!Arrive(t)
        \/ asked[r].op = "complete" /\ Store!Complete(t)
        \/ asked[r].op = "skip" /\ Store!Skip(t)
        \/ asked[r].op = "recall" /\ Store!Recall(t)

CommitReturningOldRow(r) ==
  /\ pc[r] = "commit"
  /\ \E t \in Tickets :
       /\ asked[r].op = "call" \/ t = target[r]
       /\ StoreStep(r, t)
       /\ target' = [target EXCEPT ![r] = t]
       /\ payload' = [payload EXCEPT ![r] = RowOf(t)]
       /\ settled' = settled \ {t}
  /\ Goto(r, "invalidate")
  /\ UNCHANGED <<name, cache, asked, fetched, overtaken, lateFill, missed, renamed>>

\* The repository's transaction or statement takes effect.
Commit(r) ==
  /\ pc[r] = "commit"
  /\ \E t \in Tickets :
       /\ asked[r].op = "call" \/ t = target[r]
       /\ StoreStep(r, t)
       /\ target' = [target EXCEPT ![r] = t]
       /\ settled' = settled \ {t}
  /\ Goto(r, "get")
  /\ UNCHANGED <<name, cache, asked, payload, fetched, overtaken, lateFill, missed, renamed>>

\* The operation changes nothing: another submission won the guest ticket, the ticket's status
\* refuses, or a call is not allowed to the user or finds every waiting ticket locked.
NoChange(r) ==
  /\ pc[r] = "commit"
  /\ asked[r].op # "call" => status[target[r]] \notin Ready(asked[r].op)
  /\ \/ /\ asked[r].op = "create"
        /\ Goto(r, "get")
        /\ UNCHANGED <<asked, target, payload, fetched, overtaken>>
     \/ asked[r].op # "create" /\ Return(r)
  /\ UNCHANGED <<table, name, cache, lateFill, missed, renamed, settled>>

\* repo.Get(ctx, id) after the commit: the row as it is now.
ReadBack(r) ==
  /\ pc[r] = "get"
  /\ payload' = [payload EXCEPT ![r] = RowOf(target[r])]
  /\ Goto(r, "invalidate")
  /\ UNCHANGED <<table, name, cache, asked, target, fetched, history>>

InvalidateLists(r) ==
  /\ pc[r] = "invalidate"
  /\ cache' = [k \in Keys |-> IF k = "last" THEN cache[k] ELSE NoEntry]
  /\ overtaken' = overtaken \cup {o \in Requests : pc[o] = "store"}
  /\ lateFill' = {}
  /\ missed' = FALSE
  /\ renamed' = {}
  /\ Goto(r, "publish")
  /\ UNCHANGED <<table, name, asked, target, payload, fetched, settled>>

\* listCache.Invalidate().
Invalidate(r) ==
  /\ pc[r] = "invalidate"
  /\ cache' = [k \in Keys |-> NoEntry]
  /\ overtaken' = overtaken \cup {o \in Requests : pc[o] = "store"}
  /\ lateFill' = {}
  /\ missed' = FALSE
  /\ renamed' = {}
  /\ Goto(r, "publish")
  /\ UNCHANGED <<table, name, asked, target, payload, fetched, settled>>

\* sse.PublishJSON(broker, name, q).
Publish(r) ==
  /\ pc[r] = "publish"
  /\ settled' = IF payload[r].ticket = Columns(target[r]) THEN settled \cup {target[r]} ELSE settled
  /\ Return(r)
  /\ UNCHANGED <<table, name, cache, lateFill, missed, renamed>>

-------------------------------------------------------------------------------
(* Reads: List and Last.                                                     *)

Lookup(r) ==
  /\ pc[r] = "lookup"
  /\ \/ cache[asked[r].key] # NoEntry /\ Return(r)
     \/ /\ cache[asked[r].key] = NoEntry
        /\ Goto(r, "fetch")
        /\ UNCHANGED <<asked, target, payload, fetched, overtaken>>
  /\ UNCHANGED <<table, name, cache, lateFill, missed, renamed, settled>>

Fetch(r) ==
  /\ pc[r] = "fetch"
  /\ fetched' = [fetched EXCEPT ![r] = Read(asked[r].key)]
  /\ Goto(r, "store")
  /\ UNCHANGED <<table, name, cache, asked, target, payload, history>>

\* listCache.Set(key, v).
Fill(r) ==
  /\ pc[r] = "store"
  /\ cache' = [cache EXCEPT ![asked[r].key] = fetched[r]]
  /\ lateFill' = IF r \in overtaken THEN lateFill \cup {asked[r].key}
                 ELSE lateFill \ {asked[r].key}
  /\ Return(r)
  /\ UNCHANGED <<table, name, missed, renamed, settled>>

-------------------------------------------------------------------------------
(* Failures.                                                                 *)

\* A statement fails, or its caller has left: the request returns before Invalidate and Publish.
\* Failing at "get" also stands for a commit whose acknowledgement is lost.
Fail(r) ==
  /\ MayFail
  /\ pc[r] \in {"look", "commit", "get", "fetch"}
  /\ missed' = (missed \/ pc[r] = "get")
  /\ settled' = IF pc[r] = "get" THEN settled \cup {target[r]} ELSE settled
  /\ Return(r)
  /\ UNCHANGED <<table, name, cache, lateFill, renamed>>

Active(r) == pc[r] \in Mutating \cup Reading

\* The server process ends, with its cache and its requests, and is started again.
Restart ==
  /\ MayFail
  /\ \E r \in Requests : Active(r)
  /\ cache' = [k \in Keys |-> NoEntry]
  /\ pc' = [r \in Requests |-> IF Active(r) THEN "over" ELSE pc[r]]
  /\ asked' = [r \in Requests |-> NoInput]
  /\ target' = [r \in Requests |-> NoTicket]
  /\ payload' = [r \in Requests |-> NoPayload]
  /\ fetched' = [r \in Requests |-> NoEntry]
  /\ settled' = settled \cup {target[r] : r \in {o \in Requests :
                                                  pc[o] \in {"get", "invalidate", "publish"}}}
  /\ overtaken' = {} /\ lateFill' = {} /\ missed' = FALSE /\ renamed' = {}
  /\ UNCHANGED <<table, name>>

(***************************************************************************)
(* UserService.Update gives an account another name; it invalidates and    *)
(* publishes nothing.  A user whom a ticket names cannot be deleted, by    *)
(* the foreign key, and the deletion of another one changes no row.        *)
(***************************************************************************)
RenameUser(u, n) ==
  /\ name[u] # n
  /\ name' = [name EXCEPT ![u] = n]
  /\ renamed' = renamed \cup {u}
  /\ UNCHANGED <<table, cache, pc, asked, target, payload, fetched, overtaken, lateFill, missed,
                 settled>>

Progress(r) ==
  \/ Look(r) \/ Commit(r) \/ NoChange(r) \/ ReadBack(r) \/ Invalidate(r) \/ Publish(r)
  \/ Lookup(r) \/ Fetch(r) \/ Fill(r)

Next ==
  \/ \E r \in Requests : (\E in \in Input : Submit(r, in)) \/ Progress(r) \/ Fail(r)
  \/ \E u \in Users, n \in Names : RenameUser(u, n)
  \/ Restart

Spec == Init /\ [][Next]_vars

-------------------------------------------------------------------------------
(* Properties.                                                               *)

\* A mutation has changed the table and its Invalidate is still to come.
Pending(r) == pc[r] \in {"get", "invalidate"}

\* A list has the tickets of its key with their own columns, and the names of users not renamed.
UpToNames(list, k) ==
  /\ DOMAIN list = Shown(k)
  /\ \A t \in Shown(k) :
       /\ list[t].ticket = Columns(t)
       /\ list[t].staff = StaffOf(t) \/ caller[t] \in renamed

(***************************************************************************)
(* A cached list differs from the table in its tickets, or in a column of  *)
(* a ticket, only while a mutation is on its way from commit to            *)
(* Invalidate, or after one failed on that way, or when a read stored what *)
(* it had fetched before an Invalidate.  The name of a ticket's caller may *)
(* also be an old one when the user was renamed since the last Invalidate. *)
(***************************************************************************)
StaleIsExplained ==
  \A k \in Keys :
    cache[k] # NoEntry /\ ~UpToNames(cache[k], k)
      => missed \/ k \in lateFill \/ \E r \in Requests : Pending(r)

(***************************************************************************)
(* The columns a ticket has have been published, or will be by a request   *)
(* that is still running, or the request that changed them last failed:    *)
(* events may be out of order, and an old row be the last to arrive, but   *)
(* the last change of a ticket is not forgotten.  The new name of a user   *)
(* is published by nobody.                                                 *)
(***************************************************************************)
ChangeIsAnnounced ==
  \A t \in Tickets :
    t \in settled
      \/ \E r \in Requests :
           /\ target[r] = t
           /\ \/ pc[r] = "get"
              \/ pc[r] \in {"invalidate", "publish"} /\ payload[r].ticket = Columns(t)

Quiet == \A r \in Requests : ~Active(r)

(***************************************************************************)
(* "Freshness comes from explicit Invalidate() calls on every write",      *)
(* "so the next Get repopulates from the source of truth": when no request *)
(* is running, what the cache holds is what the table holds.               *)
(***************************************************************************)
CacheIsFresh == Quiet => \A k \in Keys : cache[k] \in {NoEntry, Read(k)}

-------------------------------------------------------------------------------
(* The inductive invariant behind StaleIsExplained, part by part.            *)

\* A request is only at a step of the operation it was asked for.
AtOwnStep ==
  \A r \in Requests :
    /\ pc[r] = "idle" => target[r] = NoTicket
    /\ pc[r] \in Reading => asked[r] \in [op : {"read"}, key : Keys]
    /\ pc[r] \in Mutating => asked[r] \in Input /\ asked[r].op # "read"
    /\ pc[r] \in Mutating /\ (pc[r] # "commit" \/ asked[r].op # "call") => target[r] \in Tickets

\* What a read has fetched is explained as the cache is, while no Invalidate follows.
FetchIsExplained ==
  \A r \in Requests :
    pc[r] = "store" /\ r \notin overtaken /\ ~UpToNames(fetched[r], asked[r].key)
      => missed \/ \E o \in Requests : Pending(o)

IInv ==
  /\ TypeOK
  /\ AtOwnStep
  /\ FetchIsExplained
  /\ StaleIsExplained

===============================================================================
