--------------------------- MODULE TicketDeskProofs ---------------------------
(***************************************************************************)
(* Proofs about TicketDesk, for every set of tickets, requests, services,  *)
(* counters and users.                                                     *)
(***************************************************************************)
EXTENDS TicketDesk, TLAPS

(***************************************************************************)
(* Statements that move one request along and touch no row and no counter. *)
(***************************************************************************)
Quiet(r) ==
  \/ \E in \in CallInput : SubmitCall(r, in)
  \/ \E in \in TicketInput : SubmitTicket(r, in)
  \/ CheckOwner(r) \/ NothingToCall(r) \/ Stamp(r) \/ LookBeforeRecall(r) \/ Conflict(r)
  \/ ReadBack(r)

Aborts(r) == StampRefused(r) \/ Fail(r)

Commits(r) == CommitCall(r) \/ CommitUnacknowledged(r)

CounterAdmin(c) == DeleteCounter(c) \/ \E u \in Users \cup {Vacant} : Assign(c, u)

\* Every step is one of these.
LEMMA Steps ==
  ASSUME Next
  PROVE  \/ \E r \in Requests : \/ Quiet(r) \/ Aborts(r) \/ Commits(r) \/ PickTicket(r)
                                \/ UpdateStatus(r) \/ Rate(r)
         \/ \E t \in Tickets : Arrive(t)
         \/ \E c \in Counters : CounterAdmin(c)
BY DEF Next, Progress, Quiet, Aborts, Commits, CounterAdmin

\* What the quiet statements leave alone.
LEMMA QuietFrame ==
  ASSUME NEW r \in Requests, Quiet(r)
  PROVE  UNCHANGED <<row, rowLock, staff, pick, called>>
BY DEF Quiet, SubmitCall, SubmitTicket, CheckOwner, NothingToCall, Stamp, LookBeforeRecall,
       Conflict, ReadBack

\* The inputs of the desk are told apart by their operation.
LEMMA InputKinds == /\ \A in \in CallInput : in.op = "call" /\ in.counter \in Counters
                    /\ \A in \in TicketInput : in.ticket \in Tickets
                    /\ [op : Updates, ticket : Tickets] \subseteq TicketInput
BY DEF CallInput, TicketInput, Updates

LEMMA TypeStep == ASSUME IInv, Next PROVE TypeOK'
<1> USE DEF IInv, TypeOK, Running
<1>1. ASSUME NEW r \in Requests, Quiet(r) PROVE TypeOK'
  BY <1>1 DEF Quiet, SubmitCall, SubmitTicket, CheckOwner, NothingToCall, Stamp, LookBeforeRecall,
              Conflict, ReadBack, Goto
<1>2. ASSUME NEW r \in Requests, Aborts(r) PROVE TypeOK'
  BY <1>2 DEF Aborts, StampRefused, Fail, Unlocked, Goto
<1>3. ASSUME NEW r \in Requests, Commits(r) PROVE TypeOK'
  <2>1. pc[r] = "commit" /\ pick[r] \in Tickets /\ asked[r].counter \in Counters
    BY <1>3, InputKinds DEF Commits, CommitCall, CommitUnacknowledged, PickedIsWaiting, AtOwnStatement
  <2>2. row' \in [Tickets -> Row]
    BY <1>3, <2>1 DEF Commits, CommitCall, CommitUnacknowledged, TakeTicket, Row, Statuses
  <2>3. QED
    BY <1>3, <2>1, <2>2 DEF Commits, CommitCall, CommitUnacknowledged, TakeTicket, Unlocked, Goto
<1>4. ASSUME NEW r \in Requests, PickTicket(r) PROVE TypeOK'
  BY <1>4 DEF PickTicket, Callable, Goto
<1>5. ASSUME NEW r \in Requests, UpdateStatus(r) PROVE TypeOK'
  <2>1. asked[r].ticket \in Tickets /\ Target(asked[r].op) \in Statuses
    BY <1>5 DEF UpdateStatus, AtOwnStatement, Updates, Target, Statuses
  <2>2. row' \in [Tickets -> Row]
    <3>1. [row[asked[r].ticket] EXCEPT !.status = Target(asked[r].op)] \in Row
      BY <2>1 DEF Row
    <3>2. row' = [row EXCEPT ![asked[r].ticket] =
                    [row[asked[r].ticket] EXCEPT !.status = Target(asked[r].op)]]
      BY <1>5 DEF UpdateStatus
    <3>3. QED
      BY <2>1, <3>1, <3>2
  <2>3. QED
    BY <1>5, <2>2 DEF UpdateStatus, Goto
<1>6. ASSUME NEW r \in Requests, Rate(r) PROVE TypeOK'
  <2>1. asked[r].ticket \in Tickets
    BY <1>6, InputKinds DEF Rate, AtOwnStatement
  <2> DEFINE t == asked[r].ticket
  <2>2. [row[t] EXCEPT !.rated = TRUE] \in Row
    <3>1. row[t] \in Row
      BY <2>1
    <3>2. QED
      BY <3>1, Zenon DEF Row
  <2>3. row' = [row EXCEPT ![t] = [row[t] EXCEPT !.rated = TRUE]]
    BY <1>6, <2>1 DEF Rate
  <2>4. row' \in [Tickets -> Row]
    BY <2>1, <2>2, <2>3
  <2>5. QED
    BY <1>6, <2>4 DEF Rate, Goto
<1>7. ASSUME NEW t \in Tickets, Arrive(t) PROVE TypeOK'
  <2>1. row' \in [Tickets -> Row]
    BY <1>7 DEF Arrive, Blank, Row, Statuses
  <2>2. QED
    BY <1>7, <2>1 DEF Arrive
<1>8. ASSUME NEW c \in Counters, CounterAdmin(c) PROVE TypeOK'
  BY <1>8 DEF CounterAdmin, DeleteCounter, Assign
<1>9. QED
  BY <1>1, <1>2, <1>3, <1>4, <1>5, <1>6, <1>7, <1>8, Steps

LEMMA StatementStep == ASSUME IInv, Next PROVE AtOwnStatement'
<1> USE DEF IInv, TypeOK, AtOwnStatement, Running
<1>1. ASSUME NEW r \in Requests, NEW in \in CallInput, SubmitCall(r, in) PROVE AtOwnStatement'
  BY <1>1 DEF SubmitCall, Goto
<1>2. ASSUME NEW r \in Requests, NEW in \in TicketInput, SubmitTicket(r, in) PROVE AtOwnStatement'
  <2>1. in.op # "rate" => in \in [op : Updates, ticket : Tickets]
    BY DEF TicketInput, Updates
  <2>2. QED
    BY <1>2, <2>1 DEF SubmitTicket, Goto
<1>3. ASSUME NEW r \in Requests,
             CheckOwner(r) \/ NothingToCall(r) \/ Stamp(r) \/ LookBeforeRecall(r) \/ Conflict(r)
             \/ ReadBack(r)
      PROVE  AtOwnStatement'
  BY <1>3 DEF CheckOwner, NothingToCall, Stamp, LookBeforeRecall, Conflict, ReadBack, Goto
<1>4. ASSUME NEW r \in Requests,
             Aborts(r) \/ Commits(r) \/ PickTicket(r) \/ UpdateStatus(r) \/ Rate(r)
      PROVE  AtOwnStatement'
  BY <1>4 DEF Aborts, StampRefused, Fail, Commits, CommitCall, CommitUnacknowledged, PickTicket,
              UpdateStatus, Rate, Goto
<1>5. ASSUME NEW t \in Tickets, Arrive(t) PROVE AtOwnStatement'
  BY <1>5 DEF Arrive
<1>6. ASSUME NEW c \in Counters, CounterAdmin(c) PROVE AtOwnStatement'
  BY <1>6 DEF CounterAdmin, DeleteCounter, Assign
<1>7. QED
  BY <1>1, <1>2, <1>3, <1>4, <1>5, <1>6, Steps DEF Quiet

(***************************************************************************)
(* Nothing else changes the row a call has locked: the statements that     *)
(* write rows wait for the lock.                                           *)
(***************************************************************************)
LEMMA PickStep == ASSUME IInv, Next PROVE PickedIsWaiting'
<1> USE DEF IInv, TypeOK, PickedIsWaiting, Running
<1>1. ASSUME NEW r \in Requests, Quiet(r) PROVE PickedIsWaiting'
  <2>1. UNCHANGED <<row, rowLock, pick>>
    BY <1>1, QuietFrame
  <2>2. \A o \in Requests : pc'[o] \in {"stamp", "commit"} => pc[o] \in {"stamp", "commit"}
    BY <1>1 DEF Quiet, SubmitCall, SubmitTicket, CheckOwner, NothingToCall, Stamp,
                LookBeforeRecall, Conflict, ReadBack, Goto
  <2>3. QED
    BY <2>1, <2>2
<1>2. ASSUME NEW r \in Requests, Aborts(r) PROVE PickedIsWaiting'
  BY <1>2 DEF Aborts, StampRefused, Fail, Unlocked, Goto
<1>3. ASSUME NEW r \in Requests, Commits(r) PROVE PickedIsWaiting'
  BY <1>3 DEF Commits, CommitCall, CommitUnacknowledged, TakeTicket, Unlocked, Goto
<1>4. ASSUME NEW r \in Requests, PickTicket(r) PROVE PickedIsWaiting'
  BY <1>4, DeskAssumption DEF PickTicket, Callable, Goto
<1>5. ASSUME NEW r \in Requests, UpdateStatus(r) \/ Rate(r) PROVE PickedIsWaiting'
  BY <1>5, DeskAssumption DEF UpdateStatus, Rate, Goto
<1>6. ASSUME NEW t \in Tickets, Arrive(t) PROVE PickedIsWaiting'
  BY <1>6 DEF Arrive
<1>7. ASSUME NEW c \in Counters, CounterAdmin(c) PROVE PickedIsWaiting'
  BY <1>7 DEF CounterAdmin, DeleteCounter, Assign
<1>8. QED
  BY <1>1, <1>2, <1>3, <1>4, <1>5, <1>6, <1>7, Steps

\* A ticket that was called never waits again, so no later pick finds it.
LEMMA CalledStep == ASSUME IInv, Next PROVE CalledHasLeft' /\ CalledOnce'
<1> USE DEF IInv, TypeOK, CalledHasLeft, CalledOnce, Running
<1>1. ASSUME NEW r \in Requests, Quiet(r) PROVE CalledHasLeft' /\ CalledOnce'
  <2>1. UNCHANGED <<row, called>>
    BY <1>1, QuietFrame
  <2>2. \A o \in Requests : pc'[o] \notin {"readback", "done", "failed"}
                             => pc[o] \notin {"readback", "done", "failed"}
    BY <1>1 DEF Quiet, SubmitCall, SubmitTicket, CheckOwner, NothingToCall, Stamp,
                LookBeforeRecall, Conflict, ReadBack, Goto
  <2>3. QED
    BY <2>1, <2>2
<1>2. ASSUME NEW r \in Requests, Aborts(r) \/ PickTicket(r) PROVE CalledHasLeft' /\ CalledOnce'
  BY <1>2 DEF Aborts, StampRefused, Fail, PickTicket, Goto
<1>3. ASSUME NEW r \in Requests, Commits(r) PROVE CalledHasLeft' /\ CalledOnce'
  <2>1. /\ pc[r] = "commit" /\ TakeTicket(r)
        /\ pc'[r] \in {"readback", "failed"} /\ \A o \in Requests \ {r} : pc'[o] = pc[o]
    BY <1>3 DEF Commits, CommitCall, CommitUnacknowledged, Goto
  <2>2. pick[r] \in Tickets /\ row[pick[r]].status = "waiting" /\ called[r] = NoTicket
    BY <2>1 DEF PickedIsWaiting
  <2>3. \A o \in Requests : called[o] # pick[r]
    BY <2>2, DeskAssumption
  <2>4. \A t \in Tickets : row[t].status \notin {"absent", "waiting"}
                            => row'[t].status \notin {"absent", "waiting"}
    BY <2>1 DEF TakeTicket, Row
  <2>5. row'[pick[r]].status = "calling" /\ called' = [called EXCEPT ![r] = pick[r]]
    BY <2>1, <2>2 DEF TakeTicket, Row
  <2>6. QED
    BY <2>1, <2>2, <2>3, <2>4, <2>5
<1>4. ASSUME NEW r \in Requests, UpdateStatus(r) PROVE CalledHasLeft' /\ CalledOnce'
  <2>1. \A t \in Tickets : row[t].status \notin {"absent", "waiting"}
                            => row'[t].status \notin {"absent", "waiting"}
    <3>1. Target(asked[r].op) \notin {"absent", "waiting"}
      BY <1>4 DEF UpdateStatus, AtOwnStatement, Updates, Target
    <3>2. QED
      BY <1>4, <3>1 DEF UpdateStatus, Row
  <2>2. UNCHANGED called /\ pc' = [pc EXCEPT ![r] = "readback"]
    BY <1>4 DEF UpdateStatus, Goto
  <2>3. QED
    BY <2>1, <2>2
<1>5. ASSUME NEW r \in Requests, Rate(r) PROVE CalledHasLeft' /\ CalledOnce'
  <2>1. \A t \in Tickets : row'[t].status = row[t].status
    BY <1>5 DEF Rate, Row
  <2>2. UNCHANGED called /\ pc' = [pc EXCEPT ![r] = "readback"]
    BY <1>5 DEF Rate, Goto
  <2>3. QED
    BY <2>1, <2>2
<1>6. ASSUME NEW t \in Tickets, Arrive(t) PROVE CalledHasLeft' /\ CalledOnce'
  BY <1>6 DEF Arrive
<1>7. ASSUME NEW c \in Counters, CounterAdmin(c) PROVE CalledHasLeft' /\ CalledOnce'
  BY <1>7 DEF CounterAdmin, DeleteCounter, Assign
<1>8. QED
  BY <1>1, <1>2, <1>3, <1>4, <1>5, <1>6, <1>7, Steps

\* Completed is final: no operation allows it as a current status except a rating.
LEMMA RatedStep == ASSUME IInv, Next PROVE RatedIsCompleted'
<1> USE DEF IInv, TypeOK, RatedIsCompleted
<1>1. ASSUME NEW r \in Requests, Quiet(r) PROVE RatedIsCompleted'
  BY <1>1, QuietFrame
<1>2. ASSUME NEW r \in Requests, Aborts(r) \/ PickTicket(r) PROVE RatedIsCompleted'
  BY <1>2 DEF Aborts, StampRefused, Fail, PickTicket
<1>3. ASSUME NEW r \in Requests, Commits(r) PROVE RatedIsCompleted'
  <2>1. pick[r] \in Tickets /\ row[pick[r]].status = "waiting" /\ TakeTicket(r)
    BY <1>3 DEF Commits, CommitCall, CommitUnacknowledged, PickedIsWaiting
  <2>2. QED
    BY <2>1 DEF TakeTicket, Row
<1>4. ASSUME NEW r \in Requests, UpdateStatus(r) PROVE RatedIsCompleted'
  <2>1. asked[r].op \in Updates /\ row[asked[r].ticket].status \in Allowed(asked[r].op)
    BY <1>4 DEF UpdateStatus, AtOwnStatement
  <2>2. row[asked[r].ticket].status # "completed"
    BY <2>1 DEF Allowed, Updates
  <2>3. QED
    BY <1>4, <2>2 DEF UpdateStatus, Row
<1>5. ASSUME NEW r \in Requests, Rate(r) PROVE RatedIsCompleted'
  BY <1>5 DEF Rate, Row
<1>6. ASSUME NEW t \in Tickets, Arrive(t) PROVE RatedIsCompleted'
  BY <1>6 DEF Arrive, Blank
<1>7. ASSUME NEW c \in Counters, CounterAdmin(c) PROVE RatedIsCompleted'
  BY <1>7 DEF CounterAdmin, DeleteCounter, Assign
<1>8. QED
  BY <1>1, <1>2, <1>3, <1>4, <1>5, <1>6, <1>7, Steps

\* A deletion is refused while a ticket, or a call past its UPDATE, refers to the counter.
LEMMA CounterStep == ASSUME IInv, Next PROVE StampedCounterExists' /\ CounterExists'
<1> USE DEF IInv, TypeOK, StampedCounterExists, CounterExists, Running
<1>1. ASSUME NEW r \in Requests, Quiet(r) PROVE StampedCounterExists' /\ CounterExists'
  <2>1. UNCHANGED <<row, staff>>
    BY <1>1, QuietFrame
  <2>2. ASSUME NEW o \in Requests, pc'[o] = "commit" PROVE staff[asked'[o].counter] # Deleted
    <3>1. asked'[o] = asked[o] /\ (pc[o] = "commit" \/ Stamp(o))
      BY <1>1, <2>2 DEF Quiet, SubmitCall, SubmitTicket, CheckOwner, NothingToCall, Stamp,
                        LookBeforeRecall, Conflict, ReadBack, Goto
    <3>2. QED
      BY <3>1 DEF Stamp
  <2>3. QED
    BY <2>1, <2>2
<1>2. ASSUME NEW r \in Requests, Aborts(r) \/ PickTicket(r)
      PROVE  StampedCounterExists' /\ CounterExists'
  BY <1>2 DEF Aborts, StampRefused, Fail, PickTicket, Goto
<1>3. ASSUME NEW r \in Requests, Commits(r) PROVE StampedCounterExists' /\ CounterExists'
  <2>1. /\ pc[r] = "commit" /\ TakeTicket(r) /\ UNCHANGED <<staff, asked>>
        /\ \A o \in Requests : pc'[o] = "commit" => pc[o] = "commit"
    BY <1>3 DEF Commits, CommitCall, CommitUnacknowledged, Goto
  <2>2. staff[asked[r].counter] # Deleted /\ pick[r] \in Tickets
    BY <2>1 DEF PickedIsWaiting
  <2>3. \A t \in Tickets : row'[t].counter \in {row[t].counter, asked[r].counter}
    BY <2>1, <2>2 DEF TakeTicket, Row
  <2>4. QED
    BY <2>1, <2>2, <2>3
<1>4. ASSUME NEW r \in Requests, UpdateStatus(r) \/ Rate(r)
      PROVE  StampedCounterExists' /\ CounterExists'
  <2>1. /\ UNCHANGED <<staff, asked>>
        /\ \A o \in Requests : pc'[o] = "commit" => pc[o] = "commit"
    BY <1>4 DEF UpdateStatus, Rate, Goto
  <2>2. \A t \in Tickets : row'[t].counter = row[t].counter
    BY <1>4 DEF UpdateStatus, Rate, Row
  <2>3. QED
    BY <2>1, <2>2
<1>5. ASSUME NEW t \in Tickets, Arrive(t) PROVE StampedCounterExists' /\ CounterExists'
  BY <1>5 DEF Arrive, Blank
<1>6. ASSUME NEW c \in Counters, CounterAdmin(c) PROVE StampedCounterExists' /\ CounterExists'
  <2>1. UNCHANGED <<row, pc, asked>>
    BY <1>6 DEF CounterAdmin, DeleteCounter, Assign
  <2>2. CASE DeleteCounter(c)
    BY <2>1, <2>2 DEF DeleteCounter
  <2>3. ASSUME NEW u \in Users \cup {Vacant}, Assign(c, u)
        PROVE  StampedCounterExists' /\ CounterExists'
    BY <2>1, <2>3, DeskAssumption DEF Assign
  <2>4. QED
    BY <1>6, <2>2, <2>3 DEF CounterAdmin
<1>7. QED
  BY <1>1, <1>2, <1>3, <1>4, <1>5, <1>6, Steps

-------------------------------------------------------------------------------
(* The theorems.                                                             *)

LEMMA InitIInv == Init => IInv
<1> SUFFICES ASSUME Init PROVE IInv
  OBVIOUS
<1>1. \A x \in Absent \cup Seeded : x \in Row /\ (x.rated => x.status = "completed")
  <2>1. ASSUME NEW s \in Services, NEW st \in {"absent", "waiting"}
        PROVE  Blank(st, s, 0) \in Row /\ ~Blank(st, s, 0).rated
    BY Zenon DEF Blank, Row, Statuses
  <2>2. \A x \in Absent \cup {Blank("waiting", s, 0) : s \in Services} : x \in Row /\ ~x.rated
    BY <2>1, Zenon DEF Absent
  <2>3. \A x \in [status : {"calling", "serving", "skipped"}, svc : Services, createdAt : {0},
                  counter : Counters, rated : {FALSE}] : x \in Row /\ ~x.rated
    BY DEF Row, Statuses
  <2>4. \A x \in [status : {"completed"}, svc : Services, createdAt : {0},
                  counter : Counters, rated : {TRUE}] : x \in Row /\ x.status = "completed"
    BY DEF Row, Statuses
  <2>5. QED
    BY <2>2, <2>3, <2>4, Zenon DEF Seeded
<1>2. \A t \in Tickets : row[t] \in Row /\ (row[t].rated => row[t].status = "completed")
  BY <1>1 DEF Init
<1>3. TypeOK
  BY <1>2 DEF Init, TypeOK
<1>4. AtOwnStatement /\ PickedIsWaiting /\ StampedCounterExists
  BY DEF Init, AtOwnStatement, PickedIsWaiting, StampedCounterExists
<1>5. CalledHasLeft /\ CalledOnce
  BY DEF Init, CalledHasLeft, CalledOnce
<1>6. RatedIsCompleted
  BY <1>2 DEF RatedIsCompleted
<1>7. CounterExists
  <2>1. \A c \in Counters : staff[c] # Deleted
    BY DeskAssumption DEF Init
  <2>2. \A t \in Tickets : row[t].counter \in Counters \cup {NoCounter}
    BY <1>3 DEF TypeOK, Row
  <2>3. QED
    BY <2>1, <2>2 DEF CounterExists
<1>8. QED
  BY <1>3, <1>4, <1>5, <1>6, <1>7 DEF IInv

LEMMA StepIInv == IInv /\ [Next]_vars => IInv'
<1>1. ASSUME IInv, Next PROVE IInv'
  BY <1>1, TypeStep, StatementStep, PickStep, CalledStep, RatedStep, CounterStep DEF IInv
<1>2. ASSUME IInv, UNCHANGED vars PROVE IInv'
  BY <1>2 DEF vars, IInv, TypeOK, AtOwnStatement, PickedIsWaiting, CalledHasLeft, CalledOnce,
              RatedIsCompleted, StampedCounterExists, CounterExists
<1>3. QED
  BY <1>1, <1>2

LEMMA Invariance == Spec => []IInv
BY InitIInv, StepIInv, PTL DEF Spec

\* Every reachable state of the desk is well typed.
THEOREM DeskTyping == Spec => []TypeOK
BY Invariance, PTL DEF IInv

\* For any number of concurrent callers, no ticket is taken from the queue twice.
THEOREM NoTicketCalledTwice == Spec => []CalledOnce
BY Invariance, PTL DEF IInv

\* A rated ticket is completed, and stays so.
THEOREM RatingsAreFinal == Spec => []RatedIsCompleted
BY Invariance, PTL DEF IInv

\* No ticket refers to a deleted counter.
THEOREM CountersExist == Spec => []CounterExists
BY Invariance, PTL DEF IInv

(***************************************************************************)
(* A row is locked only by a call between its pick and its end, and only   *)
(* the row it picked: the call itself waits for nothing, so whoever waits  *)
(* for the row gets it, and no circle of locks can close.                  *)
(***************************************************************************)
LocksAreOfCalls ==
  \A t \in Tickets :
    rowLock[t] # NoOne => pc[rowLock[t]] \in {"stamp", "commit"} /\ pick[rowLock[t]] = t

\* A lock is taken at the pick and returned by every end of the transaction.
LEMMA LocksStep == ASSUME IInv, LocksAreOfCalls, [Next]_vars PROVE LocksAreOfCalls'
<1> USE DeskAssumption DEF IInv, TypeOK, LocksAreOfCalls, Running
<1>1. ASSUME NEW r \in Requests, Quiet(r) PROVE LocksAreOfCalls'
  <2>1. UNCHANGED <<rowLock, pick>>
    BY <1>1, QuietFrame
  <2>2. \A o \in Requests : pc[o] \in {"stamp", "commit"} => pc'[o] \in {"stamp", "commit"}
    BY <1>1 DEF Quiet, SubmitCall, SubmitTicket, CheckOwner, NothingToCall, Stamp,
                LookBeforeRecall, Conflict, ReadBack, Goto
  <2>3. QED
    BY <2>1, <2>2
<1>2. ASSUME NEW r \in Requests, Aborts(r) PROVE LocksAreOfCalls'
  BY <1>2 DEF Aborts, StampRefused, Fail, Unlocked, Goto
<1>3. ASSUME NEW r \in Requests, Commits(r) PROVE LocksAreOfCalls'
  BY <1>3 DEF Commits, CommitCall, CommitUnacknowledged, TakeTicket, Unlocked, Goto
<1>4. ASSUME NEW r \in Requests, PickTicket(r) PROVE LocksAreOfCalls'
  BY <1>4 DEF PickTicket, Callable, Goto
<1>5. ASSUME NEW r \in Requests, UpdateStatus(r) \/ Rate(r) PROVE LocksAreOfCalls'
  BY <1>5 DEF UpdateStatus, Rate, Goto
<1>6. CASE UNCHANGED <<rowLock, pc, pick>>
  BY <1>6
<1>7. QED
  BY <1>1, <1>2, <1>3, <1>4, <1>5, <1>6, Steps DEF Arrive, CounterAdmin, DeleteCounter, Assign, vars

(***************************************************************************)
(* For any number of callers and tickets, whatever fails, a row stays      *)
(* locked only while the call that picked it is on its way to its end.     *)
(***************************************************************************)
THEOREM NoLockIsLeftBehind == Spec => []LocksAreOfCalls
<1>1. Init => LocksAreOfCalls
  BY DEF Init, LocksAreOfCalls
<1>2. QED
  BY <1>1, LocksStep, Invariance, PTL DEF Spec

(***************************************************************************)
(* The desk implements the atomic ticket life cycle.                       *)
(***************************************************************************)
THEOREM ImplementsLifecycle == Spec => Refinement
<1> DEFINE status == [t \in Tickets |-> row[t].status]
           rated == {t \in Tickets : row[t].rated}
<1>1. ASSUME Init PROVE Lifecycle!Init
  <2>1. IInv
    BY <1>1, InitIInv
  <2>2. status \in [Tickets -> Lifecycle!Statuses]
    BY <2>1 DEF IInv, TypeOK, Row, Statuses, Lifecycle!Statuses
  <2>3. rated \subseteq {t \in Tickets : status[t] = "completed"}
    BY <2>1 DEF IInv, RatedIsCompleted
  <2>4. QED
    BY <1>1, <2>2, <2>3 DEF Init, Lifecycle!Init
<1>2. ASSUME IInv, Next PROVE [Lifecycle!Next]_(Lifecycle!lifecycleVars)
  <2> USE <1>2 DEF IInv, TypeOK
  <2>1. ASSUME UNCHANGED <<row, called>> PROVE UNCHANGED Lifecycle!lifecycleVars
    BY <2>1 DEF Lifecycle!lifecycleVars
  <2>2. ASSUME NEW r \in Requests, Quiet(r) \/ Aborts(r) \/ PickTicket(r)
        PROVE  UNCHANGED <<row, called>>
    BY <2>2, QuietFrame DEF Aborts, StampRefused, Fail, PickTicket
  <2>3. ASSUME NEW c \in Counters, CounterAdmin(c) PROVE UNCHANGED <<row, called>>
    BY <2>3 DEF CounterAdmin, DeleteCounter, Assign
  <2>4. ASSUME NEW r \in Requests, Commits(r) PROVE Lifecycle!Next
    <3>1. pc[r] = "commit" /\ TakeTicket(r)
      BY <2>4 DEF Commits, CommitCall, CommitUnacknowledged
    <3>2. PICK t \in Tickets : t = pick[r] /\ row[t].status = "waiting"
      BY <3>1 DEF PickedIsWaiting
    <3>3. called[r] = NoTicket /\ \A o \in Requests : called[o] # t
      BY <3>1, <3>2, DeskAssumption DEF CalledHasLeft
    <3>4. status' = [status EXCEPT ![t] = "calling"] /\ rated' = rated
      BY <3>1, <3>2 DEF TakeTicket, Row
    <3>5. called' = [called EXCEPT ![r] = t]
      BY <3>1, <3>2 DEF TakeTicket
    <3>6. Lifecycle!Call(r, t)
      BY <3>2, <3>3, <3>4, <3>5 DEF Lifecycle!Call, Lifecycle!Move
    <3>7. QED
      BY <3>6 DEF Lifecycle!Next
  <2>5. ASSUME NEW r \in Requests, UpdateStatus(r) PROVE Lifecycle!Next
    <3> DEFINE t == asked[r].ticket
               op == asked[r].op
    <3>1. t \in Tickets /\ op \in Updates /\ row[t].status \in Allowed(op)
      BY <2>5 DEF UpdateStatus, AtOwnStatement
    <3>2. /\ status' = [status EXCEPT ![t] = Target(op)]
          /\ rated' = rated /\ called' = called
      BY <2>5, <3>1 DEF UpdateStatus, Row
    <3>3. CASE op = "complete"
      BY <3>1, <3>2, <3>3 DEF Allowed, Target, Lifecycle!Complete, Lifecycle!Move, Lifecycle!Next
    <3>4. CASE op = "skip"
      BY <3>1, <3>2, <3>4 DEF Allowed, Target, Lifecycle!Skip, Lifecycle!Move, Lifecycle!Next
    <3>5. CASE op = "recall"
      BY <3>1, <3>2, <3>5 DEF Allowed, Target, Lifecycle!Recall, Lifecycle!Move, Lifecycle!Next
    <3>6. QED
      BY <3>1, <3>3, <3>4, <3>5 DEF Updates
  <2>6. ASSUME NEW r \in Requests, Rate(r) PROVE Lifecycle!Next
    <3> DEFINE t == asked[r].ticket
    <3>1. t \in Tickets /\ row[t].status = "completed"
      BY <2>6, InputKinds DEF Rate, AtOwnStatement
    <3>2. status' = status /\ rated' = rated \cup {t} /\ called' = called
      BY <2>6, <3>1 DEF Rate, Row
    <3>3. QED
      BY <3>1, <3>2 DEF Lifecycle!Rate, Lifecycle!Next
  <2>7. ASSUME NEW t \in Tickets, Arrive(t) PROVE Lifecycle!Next
    <3>1. row[t].status = "absent" /\ called' = called
      BY <2>7 DEF Arrive
    <3>2. ~row[t].rated
      BY <3>1 DEF RatedIsCompleted
    <3>3. PICK place : row' = [row EXCEPT ![t] = Blank("waiting", row[t].svc, place)]
      BY <2>7 DEF Arrive
    <3>4. /\ row'[t].status = "waiting" /\ row'[t].rated = FALSE
          /\ \A u \in Tickets \ {t} : row'[u] = row[u]
      BY <3>3 DEF Blank
    <3>5. status' = [status EXCEPT ![t] = "waiting"] /\ rated' = rated
      BY <3>2, <3>4
    <3>6. QED
      BY <3>1, <3>5 DEF Lifecycle!Arrive, Lifecycle!Move, Lifecycle!Next
  <2>8. QED
    BY <2>1, <2>2, <2>3, <2>4, <2>5, <2>6, <2>7, Steps
<1>3. ASSUME UNCHANGED vars PROVE UNCHANGED Lifecycle!lifecycleVars
  BY <1>3 DEF vars, Lifecycle!lifecycleVars
<1>4. QED
  BY <1>1, <1>2, <1>3, Invariance, PTL DEF Spec, Refinement, Lifecycle!Spec

===============================================================================
