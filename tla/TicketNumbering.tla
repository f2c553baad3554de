---------------------------- MODULE TicketNumbering ----------------------------
(***************************************************************************)
(* Issuing tickets: repository.QueueRepository.Create and CreateGuest      *)
(* (internal/repository/queue.go), one action per SQL statement, run by    *)
(* any number of concurrent HTTP requests over PostgreSQL at its default   *)
(* isolation level, READ COMMITTED.                                        *)
(*                                                                         *)
(* What the statements share: the table of committed tickets, the table of *)
(* services, the unique index on guest_token (migration 008), and one      *)
(* transaction-scoped advisory lock per service.  A statement sees what    *)
(* other transactions have committed when it starts.  A request may be     *)
(* cut off after any statement (its client leaves, the connection or the   *)
(* server process dies); a commit may then have happened or not.           *)
(***************************************************************************)
EXTENDS Integers, FiniteSetsExt

CONSTANTS
  Requests, Services, Tokens, NoToken, NoTicket, Base,
  NoOne,     \* nobody holds an advisory lock
  NoDraft,   \* a request that has no uncommitted row
  LastDay    \* bound: midnight passes at most LastDay times

ASSUME NumberingAssumption ==
  /\ Base \in Nat /\ Base >= 2
  /\ NoToken \notin Tokens /\ NoTicket \notin Requests /\ NoOne \notin Requests
  /\ LastDay \in Nat

VARIABLES
  queues,   \* the committed rows of table queues
  active,   \* services.is_active, by service
  today,    \* CURRENT_DATE
  lock,     \* lock[s]: the request whose transaction holds pg_advisory_xact_lock of s
  pc,       \* the statement each request is at
  asked,    \* its input: service and guest token (NoToken for Create)
  txDay,    \* the date of NOW() and CURRENT_DATE in its transaction: its BEGIN
  draft,    \* the row its transaction has inserted and not committed
  answer    \* the ticket it returned

vars == <<queues, active, today, lock, pc, asked, txDay, draft, answer>>

\* The contract this module implements, and the arithmetic of numbers they share.
Roll == INSTANCE TicketRoll WITH roll <- queues

Printable == Roll!Printable
Ticket == Roll!Ticket
Numbers(s, d) == Roll!Numbers(queues, s, d)

Running == {"fastpath", "prefix", "begin", "lock", "insert", "commit", "winner", "readback"}

Input == [svc : Services, token : Tokens \cup {NoToken}]

TypeOK ==
  /\ queues \subseteq Ticket
  /\ active \in [Services -> BOOLEAN]
  /\ today \in 0 .. LastDay
  /\ lock \in [Services -> Requests \cup {NoOne}]
  /\ pc \in [Requests -> {"idle", "done", "failed"} \cup Running]
  /\ asked \in [Requests -> Input]
  /\ txDay \in [Requests -> 0 .. LastDay]
  /\ draft \in [Requests -> Ticket \cup {NoDraft}]
  /\ answer \in [Requests -> Requests \cup {NoTicket}]

Init ==
  /\ queues = {}
  /\ active \in [Services -> BOOLEAN]
  /\ today = 0
  /\ lock = [s \in Services |-> NoOne]
  /\ pc = [r \in Requests |-> "idle"]
  /\ asked \in [Requests -> Input]
  /\ txDay = [r \in Requests |-> 0]
  /\ draft = [r \in Requests |-> NoDraft]
  /\ answer = [r \in Requests |-> NoTicket]

-------------------------------------------------------------------------------
(* The statements of a request.                                              *)

Goto(r, l) == pc' = [pc EXCEPT ![r] = l]

\* COMMIT and ROLLBACK both end the transaction and with it the advisory lock.
Unlocked(r) == [s \in Services |-> IF lock[s] = r THEN NoOne ELSE lock[s]]

\* POST /queues and POST /queues/guest.
Submit(r) ==
  /\ pc[r] = "idle"
  /\ Goto(r, IF asked[r].token = NoToken THEN "prefix" ELSE "fastpath")
  /\ UNCHANGED <<queues, active, today, lock, asked, txDay, draft, answer>>

Return(r, t) ==
  /\ answer' = [answer EXCEPT ![r] = t.id]
  /\ Goto(r, "done")

Holding(token) == {t \in queues : t.token = token}

\* CreateGuest first looks for the token's ticket.
FastPath(r) ==
  /\ pc[r] = "fastpath"
  /\ \/ \E t \in Holding(asked[r].token) : Return(r, t)
     \/ Holding(asked[r].token) = {} /\ Goto(r, "prefix") /\ UNCHANGED answer
  /\ UNCHANGED <<queues, active, today, lock, asked, txDay, draft>>

\* SELECT code FROM services WHERE key = $1 AND is_active, outside the transaction.
ReadPrefix(r) ==
  /\ pc[r] = "prefix"
  /\ Goto(r, IF active[asked[r].svc] THEN "begin" ELSE "failed")
  /\ UNCHANGED <<queues, active, today, lock, asked, txDay, draft, answer>>

\* BEGIN fixes NOW() and CURRENT_DATE, before the wait for the lock.
Begin(r) ==
  /\ pc[r] = "begin"
  /\ txDay' = [txDay EXCEPT ![r] = today]
  /\ Goto(r, "lock")
  /\ UNCHANGED <<queues, active, today, lock, asked, draft, answer>>

AcquireLockShared(r) ==
  /\ pc[r] = "lock"
  /\ lock' = [lock EXCEPT ![asked[r].svc] = r]
  /\ Goto(r, "insert")
  /\ UNCHANGED <<queues, active, today, asked, txDay, draft, answer>>

AcquireLock(r) ==
  /\ pc[r] = "lock"
  /\ lock[asked[r].svc] = NoOne
  /\ lock' = [lock EXCEPT ![asked[r].svc] = r]
  /\ Goto(r, "insert")
  /\ UNCHANGED <<queues, active, today, asked, txDay, draft, answer>>

NewRowOfDay(r) ==
  [id |-> r, svc |-> asked[r].svc, day |-> txDay[r],
   num |-> Roll!Lpad(1 + Max({0} \cup {t.num : t \in {u \in queues : u.day = txDay[r]}})),
   token |-> asked[r].token]

NewRowUnpadded(r) ==
  [id |-> r, svc |-> asked[r].svc, day |-> txDay[r],
   num |-> 1 + Max({0} \cup Numbers(asked[r].svc, txDay[r])), token |-> asked[r].token]

NewRowSkippingOne(r) ==
  [id |-> r, svc |-> asked[r].svc, day |-> txDay[r],
   num |-> Roll!Lpad(2 + Max({0} \cup Numbers(asked[r].svc, txDay[r]))), token |-> asked[r].token]

\* The row INSERT ... SELECT computes from the committed tickets.
NewRow(r) ==
  [id |-> r, svc |-> asked[r].svc, day |-> txDay[r],
   num |-> Roll!NextNumber(queues, asked[r].svc, txDay[r]), token |-> asked[r].token]

\* Another transaction has inserted the token and not ended: the unique index waits for it.
TokenInFlight(r) ==
  /\ asked[r].token # NoToken
  /\ \E o \in Requests \ {r} : pc[o] = "commit" /\ asked[o].token = asked[r].token

InsertUnindexed(r) ==
  /\ pc[r] = "insert"
  /\ Roll!Unused(queues, asked[r].token)
  /\ draft' = [draft EXCEPT ![r] = NewRow(r)]
  /\ Goto(r, "commit")
  /\ UNCHANGED <<queues, active, today, lock, asked, txDay, answer>>

Insert(r) ==
  /\ pc[r] = "insert"
  /\ ~TokenInFlight(r)
  /\ Roll!Unused(queues, asked[r].token)
  /\ draft' = [draft EXCEPT ![r] = NewRow(r)]
  /\ Goto(r, "commit")
  /\ UNCHANGED <<queues, active, today, lock, asked, txDay, answer>>

\* ON CONFLICT (guest_token) DO NOTHING returns no row: roll back, find the winner.
LoseRace(r) ==
  /\ pc[r] = "insert"
  /\ ~TokenInFlight(r)
  /\ ~Roll!Unused(queues, asked[r].token)
  /\ lock' = Unlocked(r)
  /\ Goto(r, "winner")
  /\ UNCHANGED <<queues, active, today, asked, txDay, draft, answer>>

FindWinner(r) ==
  /\ pc[r] = "winner"
  /\ \E t \in Holding(asked[r].token) : Return(r, t)
  /\ UNCHANGED <<queues, active, today, lock, asked, txDay, draft>>

EndTransactionKeepingLock(r) ==
  /\ lock' = lock
  /\ draft' = [draft EXCEPT ![r] = NoDraft]

EndTransaction(r) ==
  /\ lock' = Unlocked(r)
  /\ draft' = [draft EXCEPT ![r] = NoDraft]

Commit(r) ==
  /\ pc[r] = "commit"
  /\ queues' = queues \cup {draft[r]}
  /\ EndTransaction(r)
  /\ Goto(r, "readback")
  /\ UNCHANGED <<active, today, asked, txDay, answer>>

\* r.Get(ctx, id) after the commit.
ReadBack(r) ==
  /\ pc[r] = "readback"
  /\ \E t \in queues : t.id = r /\ Return(r, t)
  /\ UNCHANGED <<queues, active, today, lock, asked, txDay, draft>>

\* A statement fails: the request returns the error, the deferred Rollback ends its transaction.
Fail(r) ==
  /\ pc[r] \in Running
  /\ EndTransaction(r)
  /\ Goto(r, "failed")
  /\ UNCHANGED <<queues, active, today, asked, txDay, answer>>

\* The commit happens and its acknowledgement is lost: the request still returns an error.
CommitUnacknowledged(r) ==
  /\ pc[r] = "commit"
  /\ queues' = queues \cup {draft[r]}
  /\ EndTransaction(r)
  /\ Goto(r, "failed")
  /\ UNCHANGED <<active, today, asked, txDay, answer>>

-------------------------------------------------------------------------------
(* The surroundings.                                                         *)

\* An admin's PATCH /services/{key} with is_active.
ToggleService(s) ==
  /\ active' = [active EXCEPT ![s] = ~active[s]]
  /\ UNCHANGED <<queues, today, lock, pc, asked, txDay, draft, answer>>

Midnight ==
  /\ today < LastDay
  /\ today' = today + 1
  /\ UNCHANGED <<queues, active, lock, pc, asked, txDay, draft, answer>>

Progress(r) ==
  \/ FastPath(r) \/ ReadPrefix(r) \/ Begin(r) \/ AcquireLock(r) \/ Insert(r)
  \/ LoseRace(r) \/ FindWinner(r) \/ Commit(r) \/ ReadBack(r)

Next ==
  \/ \E r \in Requests :
       Submit(r) \/ Progress(r) \/ Fail(r) \/ CommitUnacknowledged(r)
  \/ \E s \in Services : ToggleService(s)
  \/ Midnight

Spec == Init /\ [][Next]_vars

\* A goroutine runs while it can, and PostgreSQL grants a free lock to a waiter.
FairSpec == Spec /\ \A r \in Requests : WF_vars(Progress(r))

-------------------------------------------------------------------------------
(* Properties.                                                               *)

Exhausted(s, d) == Base * Base - 1 \in Numbers(s, d)

(***************************************************************************)
(* Two tickets of one service and day never carry the same number, however *)
(* the requests interleave, until the last two-digit number is out; from   *)
(* then on every further ticket is printed as number Base ("A-10").        *)
(***************************************************************************)
NumbersDistinct ==
  \A t, u \in queues :
    t # u /\ t.svc = u.svc /\ t.day = u.day /\ t.num = u.num
      => t.num = Base /\ Exhausted(t.svc, t.day)

(***************************************************************************)
(* No number of a service and day is missing below one that was issued,    *)
(* although transactions fail, lose the token race or span midnight.       *)
(***************************************************************************)
NumbersGapless ==
  \A t \in queues : \A n \in 1 .. t.num : n \in Numbers(t.svc, t.day)

\* A guest token is allocated to one ticket at most.
OneTicketPerToken ==
  \A t, u \in queues : t.token = u.token /\ t.token # NoToken => t = u

(***************************************************************************)
(* Submitting a guest token any number of times, concurrently, for the     *)
(* same or another service, or again after an error, allocates at most one *)
(* ticket, and every submission that is answered gets that ticket.         *)
(***************************************************************************)
GuestIdempotent ==
  /\ OneTicketPerToken
  /\ \A r, o \in Requests :
       /\ pc[r] = "done" /\ pc[o] = "done"
       /\ asked[r].token = asked[o].token /\ asked[r].token # NoToken
       => answer[r] = answer[o]

(***************************************************************************)
(* Statement by statement, under failures, issuing behaves as if every     *)
(* ticket were issued in one atomic step (TicketRoll).                     *)
(***************************************************************************)
Refinement == Roll!Spec

(***************************************************************************)
(* A submitted request is answered or fails: the advisory lock and the     *)
(* unique index never leave it waiting for ever.                           *)
(***************************************************************************)
EveryRequestEnds ==
  \A r \in Requests : pc[r] \in Running ~> pc[r] \in {"done", "failed"}

\* Those whose transactions a request waits for: the holder of the advisory lock, and whoever has
\* inserted its token and not ended.
WaitsFor(r) ==
  {o \in Requests :
     \/ pc[r] = "lock" /\ lock[asked[r].svc] = o
     \/ pc[r] = "insert" /\ o # r /\ pc[o] = "commit"
        /\ asked[r].token # NoToken /\ asked[o].token = asked[r].token}

(***************************************************************************)
(* Waiting is never in a circle and never for the dead: a request waits    *)
(* for a transaction under way, which waits at most for one that is about  *)
(* to commit, and that for none; and what a request looks up after its     *)
(* transaction, its own ticket or the winner's, is there.                  *)
(***************************************************************************)
WaitsEnd ==
  \A r \in Requests :
    /\ \A o \in WaitsFor(r) :
         /\ pc[o] \in {"insert", "commit"}
         /\ \A q \in WaitsFor(o) : pc[q] = "commit" /\ WaitsFor(q) = {}
    /\ pc[r] = "winner" => Holding(asked[r].token) # {}
    /\ pc[r] = "readback" => \E t \in queues : t.id = r

(***************************************************************************)
(* "Create inserts a new queue ticket with a per-(day,service) sequence    *)
(* number": in a sequence no number comes twice.                           *)
(***************************************************************************)
SequenceNumbers ==
  \A t, u \in queues :
    t # u /\ t.svc = u.svc /\ t.day = u.day => t.num # u.num

-------------------------------------------------------------------------------
(* The inductive invariant behind these properties, part by part.            *)

\* Whoever is past the lock holds the lock of its service.
LockHeld == \A r \in Requests : pc[r] \in {"insert", "commit"} => lock[asked[r].svc] = r

\* What a transaction has computed stays what it would compute now, until it ends.
DraftCurrent ==
  \A r \in Requests :
    pc[r] = "commit" =>
      /\ draft[r] = NewRow(r)
      /\ Roll!Unused(queues, asked[r].token)
      /\ ~TokenInFlight(r)

\* A ticket is its request's, which is past its commit.
RowsOfRequests ==
  \A t \in queues :
    /\ pc[t.id] \in {"readback", "done", "failed"}
    /\ t.svc = asked[t.id].svc
    /\ t.token = asked[t.id].token
    /\ \A u \in queues : t.id = u.id => t = u

AnswersAreTickets ==
  \A r \in Requests :
    IF pc[r] = "done"
    THEN \E t \in queues :
           /\ answer[r] = t.id
           /\ t.id = r \/ (t.token = asked[r].token /\ t.token # NoToken)
    ELSE answer[r] = NoTicket

\* Only a guest request looks for a token's ticket.
GuestAtToken == \A r \in Requests : pc[r] \in {"fastpath", "winner"} => asked[r].token # NoToken

\* The numbers of a service and day are 1 .. k for some printable k.
NumbersFromOne ==
  \A s \in Services, d \in 0 .. LastDay :
    \E k \in 0 .. (Base * Base - 1) : Numbers(s, d) = 1 .. k

IInv ==
  /\ TypeOK
  /\ LockHeld
  /\ DraftCurrent
  /\ RowsOfRequests
  /\ AnswersAreTickets
  /\ NumbersFromOne
  /\ NumbersDistinct
  /\ OneTicketPerToken
  /\ GuestAtToken

===============================================================================
