------------------------------ MODULE TicketDesk ------------------------------
(***************************************************************************)
(* Working through the queue: CallNext, Complete, Skip, Recall and Rate of *)
(* repository.QueueRepository and service.QueueService, one action per SQL *)
(* statement, run by concurrent HTTP requests over PostgreSQL at READ      *)
(* COMMITTED.                                                              *)
(*                                                                         *)
(* CallNext is a transaction: it locks the oldest waiting ticket that no   *)
(* other transaction has locked, stamps it and commits.  The others are    *)
(* single statements: where the status they see allows them they wait for  *)
(* a transaction that has the ticket locked, and test the status again     *)
(* when they get it.  A request may be cut off after any statement; then   *)
(* its transaction is rolled back, unless its commit was under way.        *)
(*                                                                         *)
(* Inputs the handlers refuse before the first statement are left out.     *)
(***************************************************************************)
EXTENDS Integers, FiniteSets

CONSTANTS
  Tickets, Requests, Services, Counters,
  Users,        \* accounts that call tickets
  Admins,       \* those with role admin
  NoTicket, NoOne, NoInput,
  AnyService,   \* a call with an empty service_type
  NoCounter,    \* queues.counter_id IS NULL
  Vacant,       \* counters.staff_id IS NULL
  Deleted       \* a counter that is no longer in the table

ASSUME DeskAssumption ==
  /\ NoTicket \notin Tickets /\ NoOne \notin Requests /\ NoCounter \notin Counters
  /\ Admins \subseteq Users /\ Vacant \notin Users /\ Deleted \notin Users \cup {Vacant}
  /\ AnyService \notin Services

VARIABLES
  row,       \* the committed row of each ticket
  rowLock,   \* the request whose transaction has a row locked FOR UPDATE
  staff,     \* counters.staff_id, by counter
  pc,        \* the statement each request is at
  asked,     \* its operation and input
  pick,      \* the ticket its transaction picked
  called     \* the ticket its committed call took from the queue

vars == <<row, rowLock, staff, pc, asked, pick, called>>

Statuses == {"absent", "waiting", "calling", "serving", "completed", "skipped"}

\* Places in the order of created_at; 0 is before every ticket the API issues.
Places == 1 .. Cardinality(Tickets)

Row == [status : Statuses, svc : Services, createdAt : {0} \cup Places,
        counter : Counters \cup {NoCounter}, rated : BOOLEAN]

Updates == {"complete", "skip", "recall"}

CallInput == [op : {"call"}, user : Users, counter : Counters, svc : Services \cup {AnyService}]

TicketInput == [op : Updates \cup {"rate"}, ticket : Tickets]

Running == {"owner", "pick", "stamp", "commit", "get", "update", "rate", "readback"}

TypeOK ==
  /\ row \in [Tickets -> Row]
  /\ rowLock \in [Tickets -> Requests \cup {NoOne}]
  /\ staff \in [Counters -> Users \cup {Vacant, Deleted}]
  /\ pc \in [Requests -> {"idle", "done", "failed"} \cup Running]
  /\ asked \in [Requests -> CallInput \cup TicketInput \cup {NoInput}]
  /\ pick \in [Requests -> Tickets \cup {NoTicket}]
  /\ called \in [Requests -> Tickets \cup {NoTicket}]

Blank(status, s, place) ==
  [status |-> status, svc |-> s, createdAt |-> place, counter |-> NoCounter, rated |-> FALSE]

Absent == {Blank("absent", s, 0) : s \in Services}

\* cmd/seed writes tickets of every status: all but the waiting ones have a counter, and
\* the completed ones a rating.
Seeded ==
  {Blank("waiting", s, 0) : s \in Services}
    \cup [status : {"calling", "serving", "skipped"}, svc : Services, createdAt : {0},
          counter : Counters, rated : {FALSE}]
    \cup [status : {"completed"}, svc : Services, createdAt : {0},
          counter : Counters, rated : {TRUE}]

Init ==
  /\ row \in [Tickets -> Absent \cup Seeded]
  /\ rowLock = [t \in Tickets |-> NoOne]
  /\ staff \in [Counters -> Users \cup {Vacant}]
  /\ pc = [r \in Requests |-> "idle"]
  /\ asked = [r \in Requests |-> NoInput]
  /\ pick = [r \in Requests |-> NoTicket]
  /\ called = [r \in Requests |-> NoTicket]

Goto(r, l) == pc' = [pc EXCEPT ![r] = l]

-------------------------------------------------------------------------------
(* POST /queues/call.                                                        *)

SubmitCall(r, in) ==
  /\ pc[r] = "idle"
  /\ asked' = [asked EXCEPT ![r] = in]
  /\ Goto(r, IF in.user \in Admins THEN "pick" ELSE "owner")
  /\ UNCHANGED <<row, rowLock, staff, pick, called>>

\* CounterStaffID: a staff user calls only from the counter assigned to them.
CheckOwner(r) ==
  /\ pc[r] = "owner"
  /\ Goto(r, IF staff[asked[r].counter] = asked[r].user THEN "pick" ELSE "failed")
  /\ UNCHANGED <<row, rowLock, staff, asked, pick, called>>

Callable(r) ==
  {t \in Tickets : /\ row[t].status = "waiting"
                   /\ asked[r].svc \in {AnyService, row[t].svc}
                   /\ rowLock[t] = NoOne}

PickTicketPlainSelect(r) ==
  /\ pc[r] = "pick"
  /\ \E t \in Callable(r) :
       /\ \A u \in Callable(r) : row[t].createdAt <= row[u].createdAt
       /\ pick' = [pick EXCEPT ![r] = t]
  /\ Goto(r, "stamp")
  /\ UNCHANGED <<row, rowLock, staff, asked, called>>

\* BEGIN; SELECT ... ORDER BY created_at ASC FOR UPDATE SKIP LOCKED LIMIT 1.
PickTicket(r) ==
  /\ pc[r] = "pick"
  /\ \E t \in Callable(r) :
       /\ \A u \in Callable(r) : row[t].createdAt <= row[u].createdAt
       /\ rowLock' = [rowLock EXCEPT ![t] = r]
       /\ pick' = [pick EXCEPT ![r] = t]
  /\ Goto(r, "stamp")
  /\ UNCHANGED <<row, staff, asked, called>>

NothingToCall(r) ==
  /\ pc[r] = "pick"
  /\ Callable(r) = {}
  /\ Goto(r, "failed")
  /\ UNCHANGED <<row, rowLock, staff, asked, pick, called>>

StampWithoutForeignKey(r) ==
  /\ pc[r] = "stamp"
  /\ Goto(r, "commit")
  /\ UNCHANGED <<row, rowLock, staff, asked, pick, called>>

\* The UPDATE writes an uncommitted version; its foreign key needs the counter (migration 001).
Stamp(r) ==
  /\ pc[r] = "stamp"
  /\ staff[asked[r].counter] # Deleted
  /\ Goto(r, "commit")
  /\ UNCHANGED <<row, rowLock, staff, asked, pick, called>>

\* COMMIT and ROLLBACK release the row lock.
Unlocked(r) == [t \in Tickets |-> IF rowLock[t] = r THEN NoOne ELSE rowLock[t]]

StampRefusedLeakingLock(r) ==
  /\ pc[r] = "stamp"
  /\ staff[asked[r].counter] = Deleted
  /\ Goto(r, "failed")
  /\ UNCHANGED <<row, rowLock, staff, asked, pick, called>>

\* A counter that does not exist: the deferred Rollback gives the ticket back.
StampRefused(r) ==
  /\ pc[r] = "stamp"
  /\ staff[asked[r].counter] = Deleted
  /\ rowLock' = Unlocked(r)
  /\ Goto(r, "failed")
  /\ UNCHANGED <<row, staff, asked, pick, called>>

TakeTicketSwapped(r) ==
  /\ row' = [row EXCEPT ![pick[r]].status = "calling",
                        ![pick[r]].counter = asked[r].user]
  /\ called' = [called EXCEPT ![r] = pick[r]]
  /\ rowLock' = Unlocked(r)

\* The ticket becomes the counter's.
TakeTicket(r) ==
  /\ row' = [row EXCEPT ![pick[r]].status = "calling",
                        ![pick[r]].counter = asked[r].counter]
  /\ called' = [called EXCEPT ![r] = pick[r]]
  /\ rowLock' = Unlocked(r)

CommitCall(r) ==
  /\ pc[r] = "commit"
  /\ TakeTicket(r)
  /\ Goto(r, "readback")
  /\ UNCHANGED <<staff, asked, pick>>

\* The commit happens and its acknowledgement is lost.
CommitUnacknowledged(r) ==
  /\ pc[r] = "commit"
  /\ TakeTicket(r)
  /\ Goto(r, "failed")
  /\ UNCHANGED <<staff, asked, pick>>

-------------------------------------------------------------------------------
(* POST /queues/{id}/complete, skip, recall and rate.                        *)

SubmitTicket(r, in) ==
  /\ pc[r] = "idle"
  /\ asked' = [asked EXCEPT ![r] = in]
  /\ Goto(r, CASE in.op = "recall" -> "get"
               [] in.op = "rate" -> "rate"
               [] OTHER -> "update")
  /\ UNCHANGED <<row, rowLock, staff, pick, called>>

\* Recall looks first: an active ticket is only announced again.
LookBeforeRecall(r) ==
  /\ pc[r] = "get"
  /\ LET status == row[asked[r].ticket].status IN
       Goto(r, CASE status \in {"calling", "serving"} -> "done"
                 [] status = "skipped" -> "update"
                 [] OTHER -> "failed")
  /\ UNCHANGED <<row, rowLock, staff, asked, pick, called>>

AllowedReopening(op) == CASE op = "complete" -> {"calling", "serving"}
                          [] op = "skip" -> {"waiting", "calling", "completed"}
                          [] op = "recall" -> {"skipped"}

Allowed(op) == CASE op = "complete" -> {"calling", "serving"}
                 [] op = "skip" -> {"waiting", "calling"}
                 [] op = "recall" -> {"skipped"}

Target(op) == CASE op = "complete" -> "completed"
                [] op = "skip" -> "skipped"
                [] op = "recall" -> "calling"

UpdateStatusByIdOnly(r) ==
  /\ pc[r] = "update"
  /\ LET t == asked[r].ticket
         op == asked[r].op IN
       /\ rowLock[t] = NoOne
       /\ row[t].status # "absent"
       /\ row' = [row EXCEPT ![t].status = Target(op)]
  /\ Goto(r, "readback")
  /\ UNCHANGED <<rowLock, staff, asked, pick, called>>

\* UPDATE queues SET status WHERE id AND status IN (allowed).
UpdateStatus(r) ==
  /\ pc[r] = "update"
  /\ LET t == asked[r].ticket
         op == asked[r].op IN
       /\ rowLock[t] = NoOne
       /\ row[t].status \in Allowed(op)
       /\ row' = [row EXCEPT ![t].status = Target(op)]
  /\ Goto(r, "readback")
  /\ UNCHANGED <<rowLock, staff, asked, pick, called>>

\* UPDATE queues SET rating WHERE id AND status = 'completed'.
Rate(r) ==
  /\ pc[r] = "rate"
  /\ LET t == asked[r].ticket IN
       /\ rowLock[t] = NoOne
       /\ row[t].status = "completed"
       /\ row' = [row EXCEPT ![t].rated = TRUE]
  /\ Goto(r, "readback")
  /\ UNCHANGED <<rowLock, staff, asked, pick, called>>

\* No row was affected: not found, or a conflict.  A row whose committed status refuses is
\* passed over, locked or not.
Conflict(r) ==
  /\ pc[r] \in {"update", "rate"}
  /\ row[asked[r].ticket].status \notin
       IF pc[r] = "rate" THEN {"completed"} ELSE Allowed(asked[r].op)
  /\ Goto(r, "failed")
  /\ UNCHANGED <<row, rowLock, staff, asked, pick, called>>

\* r.Get(ctx, id): what the request will return and announce.
ReadBack(r) ==
  /\ pc[r] = "readback"
  /\ Goto(r, "done")
  /\ UNCHANGED <<row, rowLock, staff, asked, pick, called>>

\* A statement fails: the request returns the error, its transaction is rolled back.
Fail(r) ==
  /\ pc[r] \in Running
  /\ rowLock' = Unlocked(r)
  /\ Goto(r, "failed")
  /\ UNCHANGED <<row, staff, asked, pick, called>>

-------------------------------------------------------------------------------
(* The surroundings.                                                         *)

\* A ticket is issued (TicketNumbering): its created_at is the start of a transaction,
\* which may commit after younger ones.
Arrive(t) ==
  /\ row[t].status = "absent"
  /\ \E place \in Places :
       /\ \A u \in Tickets : row[u].createdAt # place
       /\ row' = [row EXCEPT ![t] = Blank("waiting", row[t].svc, place)]
  /\ UNCHANGED <<rowLock, staff, pc, asked, pick, called>>

\* PATCH /counters/{id}: an admin assigns the counter to someone or to nobody.
Assign(c, u) ==
  /\ staff[c] # Deleted
  /\ staff' = [staff EXCEPT ![c] = u]
  /\ UNCHANGED <<row, rowLock, pc, asked, pick, called>>

\* DELETE /counters/{id}: the foreign key refuses while a ticket, committed or not, refers to it.
DeleteCounter(c) ==
  /\ staff[c] # Deleted
  /\ \A t \in Tickets : row[t].counter # c
  /\ \A r \in Requests : pc[r] = "commit" => asked[r].counter # c
  /\ staff' = [staff EXCEPT ![c] = Deleted]
  /\ UNCHANGED <<row, rowLock, pc, asked, pick, called>>

Progress(r) ==
  \/ CheckOwner(r) \/ PickTicket(r) \/ NothingToCall(r) \/ Stamp(r) \/ StampRefused(r)
  \/ CommitCall(r)
  \/ LookBeforeRecall(r) \/ UpdateStatus(r) \/ Rate(r) \/ Conflict(r) \/ ReadBack(r)

Next ==
  \/ \E r \in Requests :
       \/ \E in \in CallInput : SubmitCall(r, in)
       \/ \E in \in TicketInput : SubmitTicket(r, in)
       \/ Progress(r) \/ Fail(r) \/ CommitUnacknowledged(r)
  \/ \E t \in Tickets : Arrive(t)
  \/ \E c \in Counters : DeleteCounter(c) \/ \E u \in Users \cup {Vacant} : Assign(c, u)

Spec == Init /\ [][Next]_vars

\* A goroutine runs while it can, and PostgreSQL grants a free row lock to a waiter.
FairSpec == Spec /\ \A r \in Requests : WF_vars(Progress(r))

-------------------------------------------------------------------------------
(* Properties.                                                               *)

(***************************************************************************)
(* Two calls never take the same ticket from the queue, whatever runs      *)
(* between a call's pick and its commit, and although skipped tickets are  *)
(* brought back.                                                           *)
(***************************************************************************)
CalledOnce ==
  \A r, o \in Requests : r # o /\ called[r] # NoTicket => called[r] # called[o]

(***************************************************************************)
(* A rating belongs to a completed ticket: no sequence of operations moves *)
(* a rated ticket back to the desk.                                        *)
(***************************************************************************)
RatedIsCompleted ==
  \A t \in Tickets :
    row[t].rated => row[t].status = "completed"

(***************************************************************************)
(* A ticket never refers to a deleted counter, although a counter can be   *)
(* deleted between a call's ownership check and its commit.                *)
(***************************************************************************)
CounterExists ==
  \A t \in Tickets : row[t].counter # NoCounter => staff[row[t].counter] # Deleted

(***************************************************************************)
(* Statement by statement, under failures, the desk behaves as if every    *)
(* operation were one atomic step on one ticket (TicketLifecycle).         *)
(***************************************************************************)
Lifecycle == INSTANCE TicketLifecycle WITH
  status <- [t \in Tickets |-> row[t].status],
  rated <- {t \in Tickets : row[t].rated}

Refinement == Lifecycle!Spec

(***************************************************************************)
(* Every request ends: no row lock is left behind for it to wait on.       *)
(***************************************************************************)
EveryRequestEnds ==
  \A r \in Requests : pc[r] \in Running ~> pc[r] \in {"done", "failed"}

(***************************************************************************)
(* "CallNext transitions it to calling, stamps the counter/user/called_at" *)
(* and the seeding tool writes calling tickets with "counter/user/rating   *)
(* consistent with its status": a calling ticket names its counter, which  *)
(* the display announces.                                                  *)
(***************************************************************************)
CallingIsStamped ==
  \A t \in Tickets :
    row[t].status = "calling" => row[t].counter # NoCounter

-------------------------------------------------------------------------------
(* The inductive invariant behind these properties, part by part.            *)

\* A request is only at a statement of the operation it was asked for.
AtOwnStatement ==
  \A r \in Requests :
    /\ pc[r] \in {"owner", "pick", "stamp", "commit"} => asked[r] \in CallInput
    /\ pc[r] \in {"get", "update"} => asked[r] \in [op : Updates, ticket : Tickets]
    /\ pc[r] = "rate" => asked[r] \in TicketInput

\* Between its pick and its commit a call has its ticket locked, and the ticket is waiting.
PickedIsWaiting ==
  \A r \in Requests :
    pc[r] \in {"stamp", "commit"} =>
      pick[r] \in Tickets /\ rowLock[pick[r]] = r /\ row[pick[r]].status = "waiting"

\* A called ticket has left the queue for good.
CalledHasLeft ==
  \A r \in Requests :
    /\ called[r] # NoTicket => row[called[r]].status \notin {"absent", "waiting"}
    /\ pc[r] \notin {"readback", "done", "failed"} => called[r] = NoTicket

\* A call past its UPDATE keeps its counter from being deleted.
StampedCounterExists ==
  \A r \in Requests : pc[r] = "commit" => staff[asked[r].counter] # Deleted

IInv ==
  /\ TypeOK
  /\ AtOwnStatement
  /\ PickedIsWaiting
  /\ CalledHasLeft
  /\ CalledOnce
  /\ RatedIsCompleted
  /\ StampedCounterExists
  /\ CounterExists

===============================================================================
