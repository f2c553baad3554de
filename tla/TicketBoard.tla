----------------------------- MODULE TicketBoard -----------------------------
(***************************************************************************)
(* The times written on a ticket and the query that reads them back: Last  *)
(* of repository.QueueRepository (internal/repository/queue.go), the       *)
(* ticket the Display TV keeps showing when nothing is active.             *)
(*                                                                         *)
(* NOW() is the start of a statement's transaction.  CallNext starts one,  *)
(* may wait, and stamps called_at with its start; a ticket's created_at is *)
(* likewise the start of the transaction that inserted it.  The UPDATE of  *)
(* Complete is a transaction of its own: it looks for the ticket as it     *)
(* starts, may wait for the row, tests the status of the row again and     *)
(* stamps completed_at with its start.  Skip and Recall stamp no time.     *)
(* The rest of each operation is the atomic one of TicketLifecycle.        *)
(***************************************************************************)
EXTENDS Integers

CONSTANTS
  Tickets, Requests, NoTicket,
  LastInstant   \* bound: the clock ticks at most LastInstant times

ASSUME BoardAssumption == LastInstant \in Nat

VARIABLES
  status, rated, called,
  clock,        \* the database's clock
  began,        \* NOW() in the transaction of each CallNext
  completing,   \* NOW() in the UPDATE that is completing each ticket
  createdAt, calledAt, completedAt,   \* the times of each ticket
  finishedAt    \* history: when a ticket was last completed or skipped

Null == 0

table == <<status, rated, called>>
times == <<createdAt, calledAt, completedAt, finishedAt>>
vars == <<table, clock, began, completing, times>>

Store == INSTANCE TicketLifecycle

Instants == 1 .. LastInstant

TypeOK ==
  /\ status \in [Tickets -> Store!Statuses]
  /\ clock \in 1 .. LastInstant + 1
  /\ began \in [Requests -> Instants \cup {Null}]
  /\ completing \in [Tickets -> Instants \cup {Null}]
  /\ createdAt \in [Tickets -> Instants \cup {Null}]
  /\ \A t \in Tickets : createdAt[t] = Null <=> status[t] = "absent"   \* NOT NULL
  /\ calledAt \in [Tickets -> Instants \cup {Null}]
  /\ completedAt \in [Tickets -> Instants \cup {Null}]
  /\ finishedAt \in [Tickets -> Instants \cup {Null}]

\* An empty table.
Init ==
  /\ Store!Init
  /\ status = [t \in Tickets |-> "absent"]
  /\ clock = 1
  /\ began = [r \in Requests |-> Null]
  /\ completing = [t \in Tickets |-> Null]
  /\ createdAt = [t \in Tickets |-> Null]
  /\ calledAt = [t \in Tickets |-> Null]
  /\ completedAt = [t \in Tickets |-> Null]
  /\ finishedAt = [t \in Tickets |-> Null]

\* Every step takes place at an instant of its own.
Tick == clock \in Instants /\ clock' = clock + 1

CreateWithoutTime(t) ==
  /\ Tick
  /\ Store!Arrive(t)
  /\ UNCHANGED <<began, completing, times>>

Create(t) ==
  /\ Tick
  /\ Store!Arrive(t)
  /\ \E start \in 1 .. clock :
       /\ \A u \in Tickets : createdAt[u] # start
       /\ createdAt' = [createdAt EXCEPT ![t] = start]
  /\ UNCHANGED <<began, completing, calledAt, completedAt, finishedAt>>

BeginCall(r) ==
  /\ Tick
  /\ began[r] = Null
  /\ began' = [began EXCEPT ![r] = clock]
  /\ UNCHANGED <<table, completing, times>>

\* The oldest waiting ticket is called (TicketDesk says what concurrent calls do).
CallNext(r, t) ==
  /\ Tick
  /\ began[r] # Null
  /\ \A u \in Tickets : status[u] = "waiting" => createdAt[t] <= createdAt[u]
  /\ Store!Call(r, t)
  /\ calledAt' = [calledAt EXCEPT ![t] = began[r]]
  /\ UNCHANGED <<began, completing, createdAt, completedAt, finishedAt>>

\* Of the UPDATEs that are completing a ticket one has effect; it may have started as the last.
BeginComplete(t) ==
  /\ Tick
  /\ status[t] \in {"calling", "serving"}
  /\ completing' = [completing EXCEPT ![t] = clock]
  /\ UNCHANGED <<table, began, times>>

Complete(t) ==
  /\ Tick
  /\ completing[t] # Null
  /\ Store!Complete(t)
  /\ completedAt' = [completedAt EXCEPT ![t] = completing[t]]
  /\ finishedAt' = [finishedAt EXCEPT ![t] = clock]
  /\ UNCHANGED <<began, completing, createdAt, calledAt>>

Skip(t) ==
  /\ Tick
  /\ Store!Skip(t)
  /\ finishedAt' = [finishedAt EXCEPT ![t] = clock]
  /\ UNCHANGED <<began, completing, createdAt, calledAt, completedAt>>

RecallRestamping(t) ==
  /\ Tick
  /\ Store!Move(t, {"skipped", "completed"}, "calling")
  /\ calledAt' = [calledAt EXCEPT ![t] = clock]
  /\ UNCHANGED <<rated, called, began, completing, createdAt, completedAt, finishedAt>>

Recall(t) ==
  /\ Tick
  /\ Store!Recall(t)
  /\ UNCHANGED <<began, completing, times>>

Next ==
  \/ \E r \in Requests : BeginCall(r) \/ \E t \in Tickets : CallNext(r, t)
  \/ \E t \in Tickets : Create(t) \/ BeginComplete(t) \/ Complete(t) \/ Skip(t) \/ Recall(t)

Spec == Init /\ [][Next]_vars

-------------------------------------------------------------------------------
(* The query.                                                                *)

Finished == {t \in Tickets : status[t] \in {"completed", "skipped"}}

StampOldestFirst(t) ==
  IF createdAt[t] # Null THEN createdAt[t]
  ELSE IF calledAt[t] # Null THEN calledAt[t] ELSE completedAt[t]

\* COALESCE(completed_at, called_at, created_at).
Stamp(t) ==
  IF completedAt[t] # Null THEN completedAt[t]
  ELSE IF calledAt[t] # Null THEN calledAt[t] ELSE createdAt[t]

\* The tickets Last may return: more than one only if their times are equal.
Last == {t \in Finished : \A u \in Finished : Stamp(u) <= Stamp(t)}

-------------------------------------------------------------------------------
(* Properties.                                                               *)

(***************************************************************************)
(* Completing a ticket puts it on the board at once, whatever was skipped, *)
(* recalled or called by slow transactions before, unless another ticket   *)
(* was finished after the UPDATE that completes this one had started.      *)
(***************************************************************************)
CompletedIsShown ==
  [][\A t \in Tickets :
       status[t] # "completed" /\ status'[t] = "completed" =>
         \/ Last' = {t}
         \/ \E u \in Finished' \ {t} : finishedAt'[u] > completing[t]]_vars

(***************************************************************************)
(* The service time the analytics average, completed_at - called_at, is    *)
(* never negative, also for tickets that were skipped and recalled.        *)
(***************************************************************************)
ServiceTimeIsPositive ==
  \A t \in Tickets :
    calledAt[t] # Null /\ completedAt[t] # Null => calledAt[t] < completedAt[t]


===============================================================================
