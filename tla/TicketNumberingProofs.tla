------------------------- MODULE TicketNumberingProofs -------------------------
(***************************************************************************)
(* Proofs about TicketNumbering, for every set of requests, services and   *)
(* tokens and every radix.                                                 *)
(***************************************************************************)
EXTENDS TicketNumbering, TLAPS

-------------------------------------------------------------------------------
(* Numbers.                                                                  *)

\* The square of the radix, the first number that needs three digits.
LEMMA RadixSquare == /\ Base * Base \in Nat
                     /\ Base < Base * Base
                     /\ (Base * Base) \div Base = Base
<1>1. Base \in Nat /\ Base >= 2
  BY NumberingAssumption
<1>2. Base * Base \in Nat /\ Base < Base * Base
  BY <1>1, SMT
<1>3. (Base * Base) \div Base = Base
  BY <1>1, SMT
<1>4. QED
  BY <1>2, <1>3

\* MAX over the numbers 1 .. k, with COALESCE's 0, is k.
LEMMA MaxOfRange == ASSUME NEW k \in Nat PROVE Max({0} \cup 1 .. k) = k
<1>1. k \in {0} \cup 1 .. k /\ \A y \in {0} \cup 1 .. k : k >= y
  BY SMT
<1>2. \A x \in {0} \cup 1 .. k : (\A y \in {0} \cup 1 .. k : x >= y) => x = k
  BY <1>1, SMT
<1>3. QED
  BY <1>1, <1>2 DEF Max

(***************************************************************************)
(* The next number of a service that has issued 1 .. k: k + 1, or the      *)
(* radix once k is the last two-digit number.                              *)
(***************************************************************************)
LEMMA NextAfterRange ==
  ASSUME NEW s, NEW d, NEW k \in 0 .. (Base * Base - 1), Numbers(s, d) = 1 .. k
  PROVE  /\ Roll!NextNumber(queues, s, d) \in Printable
         /\ k < Base * Base - 1 => Roll!NextNumber(queues, s, d) = k + 1
         /\ k = Base * Base - 1 => Roll!NextNumber(queues, s, d) = Base
<1> DEFINE n == Roll!NextNumber(queues, s, d)
<1>1. k \in Nat /\ Base \in Nat /\ Base >= 2
  BY NumberingAssumption, RadixSquare, SMT
<1>2. Max({0} \cup Numbers(s, d)) = k
  BY <1>1, MaxOfRange
<1>3. n = Roll!Lpad(1 + k)
  BY <1>2 DEF Roll!NextNumber, Numbers, Roll!Max, Max
<1>4. CASE k < Base * Base - 1
  <2>1. n = k + 1
    BY <1>1, <1>3, <1>4, RadixSquare, SMT DEF Roll!Lpad
  <2>2. QED
    BY <1>1, <1>4, <2>1, RadixSquare, SMT DEF Printable, Roll!Printable
<1>5. CASE k = Base * Base - 1
  <2>1. 1 + k = Base * Base
    BY <1>1, <1>5, RadixSquare, SMT
  <2>2. n = (Base * Base) \div Base
    BY <1>3, <2>1, RadixSquare, SMT DEF Roll!Lpad
  <2>3. n = Base
    BY <2>2, RadixSquare
  <2>4. QED
    BY <1>1, <1>5, <2>3, RadixSquare, SMT DEF Printable, Roll!Printable
<1>6. QED
  BY <1>1, <1>4, <1>5, RadixSquare, SMT

-------------------------------------------------------------------------------
(* Each part of the inductive invariant is preserved by every step.          *)

\* The row a request would insert is a ticket, with a printable number.
LEMMA NewRowIsTicket ==
  ASSUME TypeOK, NumbersFromOne, NEW r \in Requests
  PROVE  NewRow(r) \in Ticket
<1>1. asked[r].svc \in Services /\ asked[r].token \in Tokens \cup {NoToken}
      /\ txDay[r] \in 0 .. LastDay
  BY DEF TypeOK, Input
<1>2. PICK k \in 0 .. (Base * Base - 1) : Numbers(asked[r].svc, txDay[r]) = 1 .. k
  BY <1>1 DEF NumbersFromOne
<1>3. Roll!NextNumber(queues, asked[r].svc, txDay[r]) \in Printable
  BY <1>2, NextAfterRange
<1>4. QED
  BY <1>1, <1>3 DEF NewRow, Ticket, Roll!Ticket, Printable, Roll!Days

\* Commits take a draft that is a ticket.
LEMMA DraftIsTicket ==
  ASSUME TypeOK, NumbersFromOne, DraftCurrent, NEW r \in Requests, pc[r] = "commit"
  PROVE  draft[r] \in Ticket
BY NewRowIsTicket DEF DraftCurrent

LEMMA TypeStep == ASSUME IInv, Next PROVE TypeOK'
<1> USE DEF IInv, TypeOK, Running
<1>1. ASSUME NEW r \in Requests, Submit(r) PROVE TypeOK'
  BY <1>1 DEF Submit, Goto
<1>2. ASSUME NEW r \in Requests, FastPath(r) PROVE TypeOK'
  <2>1. \A t \in queues : t.id \in Requests
    BY DEF Ticket, Roll!Ticket
  <2>2. QED
    BY <1>2, <2>1 DEF FastPath, Goto, Return, Holding
<1>3. ASSUME NEW r \in Requests, ReadPrefix(r) PROVE TypeOK'
  BY <1>3 DEF ReadPrefix, Goto
<1>4. ASSUME NEW r \in Requests, Begin(r) PROVE TypeOK'
  BY <1>4 DEF Begin, Goto
<1>5. ASSUME NEW r \in Requests, AcquireLock(r) PROVE TypeOK'
  BY <1>5 DEF AcquireLock, Goto
<1>6. ASSUME NEW r \in Requests, Insert(r) PROVE TypeOK'
  <2>1. NewRow(r) \in Ticket
    BY NewRowIsTicket
  <2>2. QED
    BY <1>6, <2>1 DEF Insert, Goto
<1>7. ASSUME NEW r \in Requests, LoseRace(r) PROVE TypeOK'
  BY <1>7 DEF LoseRace, Goto, Unlocked
<1>8. ASSUME NEW r \in Requests, FindWinner(r) PROVE TypeOK'
  <2>1. \A t \in queues : t.id \in Requests
    BY DEF Ticket, Roll!Ticket
  <2>2. QED
    BY <1>8, <2>1 DEF FindWinner, Goto, Return, Holding
<1>9. ASSUME NEW r \in Requests, Commit(r) \/ CommitUnacknowledged(r) PROVE TypeOK'
  <2>1. draft[r] \in Ticket
    BY <1>9, DraftIsTicket DEF Commit, CommitUnacknowledged
  <2>2. QED
    BY <1>9, <2>1 DEF Commit, CommitUnacknowledged, EndTransaction, Goto, Unlocked
<1>10. ASSUME NEW r \in Requests, ReadBack(r) PROVE TypeOK'
  <2>1. \A t \in queues : t.id \in Requests
    BY DEF Ticket, Roll!Ticket
  <2>2. QED
    BY <1>10, <2>1 DEF ReadBack, Goto, Return
<1>11. ASSUME NEW r \in Requests, Fail(r) PROVE TypeOK'
  BY <1>11 DEF Fail, EndTransaction, Goto, Unlocked
<1>12. ASSUME NEW s \in Services, ToggleService(s) PROVE TypeOK'
  BY <1>12 DEF ToggleService
<1>13. CASE Midnight
  BY <1>13, NumberingAssumption DEF Midnight
<1>14. QED
  BY <1>1, <1>2, <1>3, <1>4, <1>5, <1>6, <1>7, <1>8, <1>9, <1>10, <1>11, <1>12, <1>13
     DEF Next, Progress

LEMMA LockStep == ASSUME IInv, Next PROVE LockHeld'
<1> USE DEF IInv, TypeOK, LockHeld, Running, Input
<1>1. ASSUME NEW r \in Requests,
             Submit(r) \/ FastPath(r) \/ ReadPrefix(r) \/ Begin(r) \/ FindWinner(r) \/ ReadBack(r)
      PROVE  LockHeld'
  BY <1>1 DEF Submit, FastPath, ReadPrefix, Begin, FindWinner, ReadBack, Goto, Return
<1>2. ASSUME NEW r \in Requests, AcquireLock(r) PROVE LockHeld'
  BY <1>2, NumberingAssumption DEF AcquireLock, Goto
<1>3. ASSUME NEW r \in Requests, Insert(r) PROVE LockHeld'
  BY <1>3 DEF Insert, Goto
<1>4. ASSUME NEW r \in Requests,
             LoseRace(r) \/ Commit(r) \/ CommitUnacknowledged(r) \/ Fail(r)
      PROVE  LockHeld'
  BY <1>4 DEF LoseRace, Commit, CommitUnacknowledged, Fail, EndTransaction, Goto, Unlocked
<1>5. CASE Midnight \/ \E s \in Services : ToggleService(s)
  BY <1>5 DEF Midnight, ToggleService
<1>6. QED
  BY <1>1, <1>2, <1>3, <1>4, <1>5 DEF Next, Progress

(***************************************************************************)
(* While a transaction is between its INSERT and its COMMIT, another one   *)
(* that commits is of another service (the advisory lock) and of another   *)
(* token (the unique index): the draft stays current.                      *)
(***************************************************************************)
LEMMA DraftStep == ASSUME IInv, Next PROVE DraftCurrent'
<1> USE DEF IInv, TypeOK, DraftCurrent, Running, Input, TokenInFlight
<1>1. ASSUME NEW r \in Requests,
             Submit(r) \/ FastPath(r) \/ ReadPrefix(r) \/ Begin(r) \/ AcquireLock(r)
             \/ LoseRace(r) \/ FindWinner(r) \/ ReadBack(r) \/ Fail(r)
      PROVE  DraftCurrent'
  <2> SUFFICES ASSUME NEW o \in Requests, pc'[o] = "commit"
               PROVE  /\ draft'[o] = NewRow(o)'
                      /\ Roll!Unused(queues', asked'[o].token)
                      /\ ~TokenInFlight(o)'
    OBVIOUS
  <2>1. queues' = queues /\ asked' = asked
    BY <1>1 DEF Submit, FastPath, ReadPrefix, Begin, AcquireLock, LoseRace, FindWinner, ReadBack,
                Fail, EndTransaction
  <2>2. o # r /\ pc[o] = "commit" /\ txDay'[o] = txDay[o] /\ draft'[o] = draft[o]
    BY <1>1 DEF Submit, FastPath, ReadPrefix, Begin, AcquireLock, LoseRace, FindWinner, ReadBack,
                Fail, EndTransaction, Goto, Return
  <2>3. \A q \in Requests : pc'[q] = "commit" => pc[q] = "commit"
    BY <1>1 DEF Submit, FastPath, ReadPrefix, Begin, AcquireLock, LoseRace, FindWinner, ReadBack,
                Fail, Goto, Return
  <2>4. NewRow(o)' = NewRow(o)
    BY <2>1, <2>2 DEF NewRow
  <2>5. QED
    BY <2>1, <2>2, <2>3, <2>4
<1>2. ASSUME NEW r \in Requests, Insert(r) PROVE DraftCurrent'
  <2>1. \A o \in Requests : NewRow(o)' = NewRow(o)
    BY <1>2 DEF Insert, NewRow
  <2>2. \A o \in Requests : pc'[o] = "commit" <=> pc[o] = "commit" \/ o = r
    BY <1>2 DEF Insert, Goto
  <2>3. \A o \in Requests \ {r} : pc[o] = "commit" /\ asked[o].token # NoToken
                                 => asked[o].token # asked[r].token
    BY <1>2 DEF Insert
  <2>4. QED
    BY <1>2, <2>1, <2>2, <2>3 DEF Insert
<1>3. ASSUME NEW r \in Requests, Commit(r) \/ CommitUnacknowledged(r) PROVE DraftCurrent'
  <2> SUFFICES ASSUME NEW o \in Requests, pc'[o] = "commit"
               PROVE  /\ draft'[o] = NewRow(o)'
                      /\ Roll!Unused(queues', asked'[o].token)
                      /\ ~TokenInFlight(o)'
    OBVIOUS
  <2>1. /\ pc[r] = "commit" /\ queues' = queues \cup {draft[r]}
        /\ UNCHANGED <<asked, txDay>>
    BY <1>3 DEF Commit, CommitUnacknowledged
  <2>2. o # r /\ pc[o] = "commit" /\ draft'[o] = draft[o]
    BY <1>3 DEF Commit, CommitUnacknowledged, EndTransaction, Goto
  <2>3. \A q \in Requests : pc'[q] = "commit" => pc[q] = "commit"
    BY <1>3 DEF Commit, CommitUnacknowledged, Goto
  <2>4. asked[o].svc # asked[r].svc
    BY <2>1, <2>2 DEF LockHeld
  <2>5. draft[r].svc = asked[r].svc /\ draft[r].token = asked[r].token
    BY <2>1 DEF NewRow
  <2>6. Numbers(asked[o].svc, txDay[o])' = Numbers(asked[o].svc, txDay[o])
    BY <2>1, <2>4, <2>5 DEF Numbers, Roll!Numbers
  <2>7. NewRow(o)' = NewRow(o)
    BY <2>1, <2>6 DEF NewRow, Roll!NextNumber, Numbers
  <2>8. asked[o].token = NoToken \/ asked[o].token # asked[r].token
    BY <2>1, <2>2
  <2>9. Roll!Unused(queues', asked'[o].token)
    BY <2>1, <2>2, <2>5, <2>8 DEF Roll!Unused
  <2>10. QED
    BY <2>1, <2>2, <2>3, <2>7, <2>9
<1>4. CASE Midnight \/ \E s \in Services : ToggleService(s)
  <2>1. UNCHANGED <<queues, pc, asked, txDay, draft>>
    BY <1>4 DEF Midnight, ToggleService
  <2>2. \A o \in Requests : NewRow(o)' = NewRow(o)
    BY <2>1 DEF NewRow
  <2>3. QED
    BY <2>1, <2>2
<1>5. QED
  BY <1>1, <1>2, <1>3, <1>4 DEF Next, Progress

LEMMA RowsStep == ASSUME IInv, Next PROVE RowsOfRequests'
<1> USE DEF IInv, TypeOK, RowsOfRequests, Running
<1>0. \A t \in queues : t.id \in Requests
  BY DEF Ticket, Roll!Ticket
<1>1. ASSUME NEW r \in Requests,
             Submit(r) \/ FastPath(r) \/ ReadPrefix(r) \/ Begin(r) \/ AcquireLock(r) \/ Insert(r)
             \/ LoseRace(r) \/ FindWinner(r) \/ ReadBack(r) \/ Fail(r)
      PROVE  RowsOfRequests'
  BY <1>0, <1>1 DEF Submit, FastPath, ReadPrefix, Begin, AcquireLock, Insert, LoseRace, FindWinner,
                    ReadBack, Fail, Goto, Return
<1>2. ASSUME NEW r \in Requests, Commit(r) \/ CommitUnacknowledged(r) PROVE RowsOfRequests'
  <2>1. /\ pc[r] = "commit" /\ queues' = queues \cup {draft[r]} /\ asked' = asked
        /\ \A o \in Requests : pc'[o] \in {pc[o], "readback", "failed"}
        /\ pc'[r] \in {"readback", "failed"}
    BY <1>2 DEF Commit, CommitUnacknowledged, Goto
  <2>2. draft[r].id = r /\ draft[r].svc = asked[r].svc /\ draft[r].token = asked[r].token
    BY <2>1 DEF DraftCurrent, NewRow
  <2>3. \A t \in queues : t.id # r
    BY <2>1
  <2>4. QED
    BY <1>0, <2>1, <2>2, <2>3
<1>3. CASE Midnight \/ \E s \in Services : ToggleService(s)
  BY <1>3 DEF Midnight, ToggleService
<1>4. QED
  BY <1>1, <1>2, <1>3 DEF Next, Progress

LEMMA AnswersStep == ASSUME IInv, Next PROVE AnswersAreTickets'
<1> USE DEF IInv, TypeOK, AnswersAreTickets, Running
<1>1. ASSUME NEW r \in Requests,
             Submit(r) \/ ReadPrefix(r) \/ Begin(r) \/ AcquireLock(r) \/ Insert(r) \/ LoseRace(r)
             \/ Commit(r) \/ CommitUnacknowledged(r) \/ Fail(r)
      PROVE  AnswersAreTickets'
  <2>1. /\ queues \subseteq queues' /\ asked' = asked /\ answer' = answer
        /\ \A o \in Requests : pc'[o] = "done" <=> pc[o] = "done"
    BY <1>1 DEF Submit, ReadPrefix, Begin, AcquireLock, Insert, LoseRace, Commit,
                CommitUnacknowledged, Fail, Goto
  <2>2. QED
    BY <2>1
<1>2. ASSUME NEW r \in Requests, FastPath(r) \/ FindWinner(r) PROVE AnswersAreTickets'
  <2>1. pc[r] \in {"fastpath", "winner"} /\ queues' = queues /\ asked' = asked
    BY <1>2 DEF FastPath, FindWinner
  <2>2. CASE answer' = answer /\ Goto(r, "prefix")
    BY <2>1, <2>2 DEF Goto
  <2>3. CASE \E t \in Holding(asked[r].token) : Return(r, t)
    <3>1. asked[r].token # NoToken
      BY <2>1 DEF GuestAtToken
    <3>2. QED
      BY <2>1, <2>3, <3>1 DEF Holding, Return, Goto
  <2>4. QED
    BY <1>2, <2>2, <2>3 DEF FastPath, FindWinner
<1>3. ASSUME NEW r \in Requests, ReadBack(r) PROVE AnswersAreTickets'
  BY <1>3 DEF ReadBack, Return, Goto
<1>4. CASE Midnight \/ \E s \in Services : ToggleService(s)
  BY <1>4 DEF Midnight, ToggleService
<1>5. QED
  BY <1>1, <1>2, <1>3, <1>4 DEF Next, Progress

LEMMA GuestStep == ASSUME IInv, Next PROVE GuestAtToken'
<1> USE DEF IInv, TypeOK, GuestAtToken, Input, Running
<1>1. ASSUME NEW r \in Requests,
             Submit(r) \/ FastPath(r) \/ ReadPrefix(r) \/ Begin(r) \/ AcquireLock(r) \/ Insert(r)
             \/ FindWinner(r) \/ ReadBack(r) \/ Fail(r) \/ Commit(r) \/ CommitUnacknowledged(r)
      PROVE  GuestAtToken'
  BY <1>1 DEF Submit, FastPath, ReadPrefix, Begin, AcquireLock, Insert, FindWinner,
              ReadBack, Fail, Commit, CommitUnacknowledged, Goto, Return
<1>2. ASSUME NEW r \in Requests, LoseRace(r) PROVE GuestAtToken'
  BY <1>2 DEF LoseRace, Goto, Roll!Unused
<1>3. CASE Midnight \/ \E s \in Services : ToggleService(s)
  BY <1>3 DEF Midnight, ToggleService
<1>4. QED
  BY <1>1, <1>2, <1>3 DEF Next, Progress

LEMMA TokenStep == ASSUME IInv, Next PROVE OneTicketPerToken'
<1> USE DEF IInv, OneTicketPerToken
<1>1. CASE queues' = queues
  BY <1>1
<1>2. ASSUME NEW r \in Requests, Commit(r) \/ CommitUnacknowledged(r) PROVE OneTicketPerToken'
  <2>1. pc[r] = "commit" /\ queues' = queues \cup {draft[r]}
    BY <1>2 DEF Commit, CommitUnacknowledged
  <2>2. draft[r] = NewRow(r) /\ Roll!Unused(queues, asked[r].token)
    BY <2>1 DEF DraftCurrent
  <2>3. QED
    BY <2>1, <2>2 DEF Roll!Unused, NewRow
<1>3. QED
  BY <1>1, <1>2 DEF Next, Progress, Submit, FastPath, ReadPrefix, Begin, AcquireLock, Insert,
                    LoseRace, FindWinner, ReadBack, Fail, Midnight, ToggleService

(***************************************************************************)
(* A committed number is k + 1 when 1 .. k were given out, or the radix    *)
(* when k is the last two-digit number.                                    *)
(***************************************************************************)
LEMMA NumbersStep == ASSUME IInv, Next PROVE NumbersFromOne' /\ NumbersDistinct'
<1> USE DEF IInv, TypeOK
<1>1. CASE queues' = queues
  BY <1>1 DEF NumbersFromOne, NumbersDistinct, Numbers, Exhausted
<1>2. ASSUME NEW r \in Requests, Commit(r) \/ CommitUnacknowledged(r)
      PROVE  NumbersFromOne' /\ NumbersDistinct'
  <2> DEFINE t == draft[r]
             s == asked[r].svc
             d == txDay[r]
             last == Base * Base - 1
  <2>1. /\ pc[r] = "commit" /\ queues' = queues \cup {t}
        /\ UNCHANGED <<asked, txDay>>
    BY <1>2 DEF Commit, CommitUnacknowledged
  <2>2. t.svc = s /\ t.day = d /\ t.num = Roll!NextNumber(queues, s, d)
    BY <2>1 DEF DraftCurrent, NewRow
  <2>3. s \in Services /\ d \in 0 .. LastDay
    BY DEF Input
  <2>4. PICK k \in 0 .. last : Numbers(s, d) = 1 .. k
    BY <2>3 DEF NumbersFromOne
  <2>5. /\ t.num \in Printable
        /\ k < last => t.num = k + 1
        /\ k = last => t.num = Base
    <3>1. /\ Roll!NextNumber(queues, s, d) \in Printable
          /\ k < last => Roll!NextNumber(queues, s, d) = k + 1
          /\ k = last => Roll!NextNumber(queues, s, d) = Base
      <4> HIDE DEF s, d
      <4>1. QED
        BY <2>4, NextAfterRange, Zenon
    <3>2. QED
      BY <2>2, <3>1, Zenon
  <2>6. k \in Nat /\ last \in Nat /\ Base \in 1 .. last /\ k <= last
    BY RadixSquare, NumberingAssumption
  <2>7. Numbers(s, d)' = 1 .. k \cup {t.num}
    BY <2>1, <2>2, <2>4 DEF Numbers, Roll!Numbers
  <2>8. ASSUME NEW z, NEW e, z # s \/ e # d PROVE Numbers(z, e)' = Numbers(z, e)
    BY <2>1, <2>2, <2>8 DEF Numbers, Roll!Numbers
  <2>9. \E m \in 0 .. last : Numbers(s, d)' = 1 .. m
    <3>1. CASE k < last
      <4>1. 1 .. k \cup {k + 1} = 1 .. (k + 1) /\ k + 1 \in 0 .. last
        BY <2>6, <3>1
      <4>2. QED
        BY <2>5, <2>7, <3>1, <4>1
    <3>2. CASE k = last
      <4>1. 1 .. k \cup {Base} = 1 .. k
        BY <2>6, <3>2
      <4>2. QED
        BY <2>4, <2>5, <2>7, <3>2, <4>1
    <3>3. QED
      BY <2>6, <3>1, <3>2
  <2>10. NumbersFromOne'
    <3> SUFFICES ASSUME NEW z \in Services, NEW e \in 0 .. LastDay
                 PROVE  \E m \in 0 .. last : Numbers(z, e)' = 1 .. m
      BY DEF NumbersFromOne
    <3>1. CASE z = s /\ e = d
      BY <2>1, <2>9, <3>1 DEF Numbers
    <3>2. CASE z # s \/ e # d
      BY <2>8, <3>2 DEF NumbersFromOne
    <3>3. QED
      BY <3>1, <3>2
  <2>11. \A z, e : Exhausted(z, e) => Exhausted(z, e)'
    BY <2>1 DEF Exhausted, Numbers, Roll!Numbers
  <2>12. ASSUME NEW u \in queues, u.svc = s, u.day = d, u.num = t.num
         PROVE  t.num = Base /\ Exhausted(s, d)
    <3>1. t.num \in 1 .. k
      BY <2>4, <2>12 DEF Numbers, Roll!Numbers
    <3>2. k = last
      BY <2>5, <2>6, <3>1
    <3>3. QED
      BY <2>4, <2>5, <2>6, <3>2 DEF Exhausted
  <2>13. NumbersDistinct'
    BY <2>1, <2>2, <2>11, <2>12 DEF NumbersDistinct
  <2>14. QED
    BY <2>10, <2>13
<1>3. QED
  BY <1>1, <1>2 DEF Next, Progress, Submit, FastPath, ReadPrefix, Begin, AcquireLock, Insert,
                    LoseRace, FindWinner, ReadBack, Fail, Midnight, ToggleService

-------------------------------------------------------------------------------
(* The theorems.                                                             *)

LEMMA InitIInv == Init => IInv
<1> SUFFICES ASSUME Init PROVE IInv
  OBVIOUS
<1> USE DEF Init
<1>1. TypeOK
  BY NumberingAssumption DEF TypeOK
<1>2. LockHeld /\ DraftCurrent /\ AnswersAreTickets /\ GuestAtToken
  BY DEF LockHeld, DraftCurrent, AnswersAreTickets, GuestAtToken
<1>3. RowsOfRequests /\ NumbersDistinct /\ OneTicketPerToken
  BY DEF RowsOfRequests, NumbersDistinct, OneTicketPerToken
<1>4. NumbersFromOne
  <2> SUFFICES ASSUME NEW s \in Services, NEW d \in 0 .. LastDay
               PROVE  \E k \in 0 .. (Base * Base - 1) : Numbers(s, d) = 1 .. k
    BY DEF NumbersFromOne
  <2>1. Numbers(s, d) = 1 .. 0
    BY DEF Numbers, Roll!Numbers
  <2>2. 0 \in 0 .. (Base * Base - 1)
    BY RadixSquare, NumberingAssumption
  <2>3. QED
    BY <2>1, <2>2
<1>5. QED
  BY <1>1, <1>2, <1>3, <1>4 DEF IInv

LEMMA StepIInv == IInv /\ [Next]_vars => IInv'
<1>1. ASSUME IInv, Next PROVE IInv'
  BY <1>1, TypeStep, LockStep, DraftStep, RowsStep, AnswersStep, NumbersStep, TokenStep, GuestStep
     DEF IInv
<1>2. ASSUME IInv, UNCHANGED vars PROVE IInv'
  <2> USE <1>2 DEF IInv, vars
  <2>1. TypeOK' /\ LockHeld' /\ AnswersAreTickets' /\ GuestAtToken'
    BY DEF TypeOK, LockHeld, AnswersAreTickets, GuestAtToken
  <2>2. DraftCurrent'
    BY DEF DraftCurrent, NewRow, TokenInFlight
  <2>3. RowsOfRequests' /\ OneTicketPerToken'
    BY DEF RowsOfRequests, OneTicketPerToken
  <2>4. NumbersFromOne' /\ NumbersDistinct'
    BY DEF NumbersFromOne, NumbersDistinct, Numbers, Exhausted
  <2>5. QED
    BY <2>1, <2>2, <2>3, <2>4
<1>3. QED
  BY <1>1, <1>2

LEMMA Invariance == Spec => []IInv
BY InitIInv, StepIInv, PTL DEF Spec

\* Every reachable state of the ticket transactions is well typed.
THEOREM Typing == Spec => []TypeOK
BY Invariance, PTL DEF IInv

(***************************************************************************)
(* For any number of concurrent requests, two tickets of one service and   *)
(* day carry one number only past the last two-digit number.               *)
(***************************************************************************)
THEOREM DistinctNumbers == Spec => []NumbersDistinct
BY Invariance, PTL DEF IInv

\* No number is missing below an issued one.
THEOREM GaplessNumbers == Spec => []NumbersGapless
<1>1. IInv => NumbersGapless
  <2> SUFFICES ASSUME IInv, NEW t \in queues, NEW n \in 1 .. t.num
               PROVE  n \in Numbers(t.svc, t.day)
    BY DEF NumbersGapless
  <2>1. t.svc \in Services /\ t.day \in 0 .. LastDay
    BY DEF IInv, TypeOK, Ticket, Roll!Ticket, Roll!Days
  <2>2. PICK k \in 0 .. (Base * Base - 1) : Numbers(t.svc, t.day) = 1 .. k
    BY <2>1 DEF IInv, NumbersFromOne
  <2>3. t.num \in 1 .. k
    BY <2>2 DEF Numbers, Roll!Numbers
  <2>4. QED
    BY <2>2, <2>3, RadixSquare
<1>2. QED
  BY <1>1, Invariance, PTL

\* A guest token has one ticket, and all its answered submissions got that ticket.
THEOREM GuestTokensIdempotent == Spec => []GuestIdempotent
<1>1. IInv => GuestIdempotent
  <2> SUFFICES ASSUME IInv, NEW r \in Requests, NEW o \in Requests,
                      pc[r] = "done", pc[o] = "done",
                      asked[r].token = asked[o].token, asked[r].token # NoToken
               PROVE  answer[r] = answer[o]
    BY DEF GuestIdempotent, IInv
  <2> USE DEF IInv
  <2>1. PICK t \in queues : /\ answer[r] = t.id
                            /\ t.id = r \/ (t.token = asked[r].token /\ t.token # NoToken)
    BY DEF AnswersAreTickets
  <2>2. PICK u \in queues : /\ answer[o] = u.id
                            /\ u.id = o \/ (u.token = asked[o].token /\ u.token # NoToken)
    BY DEF AnswersAreTickets
  <2>3. t.token = asked[r].token /\ u.token = asked[o].token
    BY <2>1, <2>2 DEF RowsOfRequests
  <2>4. QED
    BY <2>1, <2>2, <2>3 DEF OneTicketPerToken
<1>2. QED
  BY <1>1, Invariance, PTL

\* An advisory lock is held by a request in its transaction.
HeldInside == \A s \in Services : lock[s] # NoOne => pc[lock[s]] \in {"insert", "commit"}

\* What a request looks up after its transaction is in the table.
LookupsFind ==
  \A r \in Requests :
    /\ pc[r] = "winner" => Holding(asked[r].token) # {}
    /\ pc[r] = "readback" => \E t \in queues : t.id = r

LEMMA HeldStep == ASSUME IInv, HeldInside, [Next]_vars PROVE HeldInside'
<1> USE NumberingAssumption DEF IInv, TypeOK, HeldInside, Running, Input
<1>1. ASSUME NEW r \in Requests,
             Submit(r) \/ FastPath(r) \/ ReadPrefix(r) \/ Begin(r) \/ FindWinner(r) \/ ReadBack(r)
      PROVE  HeldInside'
  BY <1>1 DEF Submit, FastPath, ReadPrefix, Begin, FindWinner, ReadBack, Goto, Return
<1>2. ASSUME NEW r \in Requests, AcquireLock(r) \/ Insert(r) PROVE HeldInside'
  BY <1>2 DEF AcquireLock, Insert, Goto
<1>3. ASSUME NEW r \in Requests, LoseRace(r) \/ Commit(r) \/ Fail(r) \/ CommitUnacknowledged(r)
      PROVE  HeldInside'
  BY <1>3 DEF LoseRace, Commit, Fail, CommitUnacknowledged, EndTransaction, Unlocked, Goto
<1>4. CASE UNCHANGED <<lock, pc>>
  BY <1>4
<1>5. QED
  BY <1>1, <1>2, <1>3, <1>4 DEF Next, Progress, ToggleService, Midnight, vars

LEMMA LookupStep == ASSUME IInv, LookupsFind, [Next]_vars PROVE LookupsFind'
<1> USE DEF IInv, TypeOK, LookupsFind, Holding
<1>1. ASSUME NEW r \in Requests,
             Submit(r) \/ FastPath(r) \/ ReadPrefix(r) \/ Begin(r) \/ AcquireLock(r) \/ Insert(r)
             \/ FindWinner(r) \/ ReadBack(r) \/ Fail(r)
      PROVE  LookupsFind'
  <2>1. /\ UNCHANGED <<queues, asked>>
        /\ \A o \in Requests : pc'[o] \in {"winner", "readback"} => pc[o] = pc'[o]
    BY <1>1 DEF Submit, FastPath, ReadPrefix, Begin, AcquireLock, Insert, FindWinner, ReadBack, Fail,
                Goto, Return
  <2>2. QED
    BY <2>1
<1>2. ASSUME NEW r \in Requests, LoseRace(r) PROVE LookupsFind'
  <2>1. UNCHANGED <<queues, asked>> /\ pc' = [pc EXCEPT ![r] = "winner"]
    BY <1>2 DEF LoseRace, Goto
  <2>2. \E t \in queues : t.token = asked[r].token
    BY <1>2 DEF LoseRace, Roll!Unused
  <2>3. QED
    BY <2>1, <2>2
<1>3. ASSUME NEW r \in Requests, Commit(r) \/ CommitUnacknowledged(r) PROVE LookupsFind'
  <2>1. /\ queues' = queues \cup {draft[r]} /\ UNCHANGED asked
        /\ \A o \in Requests \ {r} : pc'[o] = pc[o]
        /\ pc'[r] # "winner"
    BY <1>3 DEF Commit, CommitUnacknowledged, Goto
  <2>2. draft[r].id = r
    BY <1>3 DEF Commit, CommitUnacknowledged, DraftCurrent, NewRow
  <2>3. QED
    BY <2>1, <2>2
<1>4. CASE UNCHANGED <<queues, asked, pc>>
  BY <1>4
<1>5. QED
  BY <1>1, <1>2, <1>3, <1>4 DEF Next, Progress, ToggleService, Midnight, vars

(***************************************************************************)
(* For any requests, services and tokens, a wait for the advisory lock or  *)
(* for a token is at most two transactions long, and the last one of them  *)
(* waits for nothing; no request looks in vain for the ticket it returns.  *)
(***************************************************************************)
THEOREM WaitsAreShort == Spec => []WaitsEnd
<1>1. Init => HeldInside /\ LookupsFind
  BY DEF Init, HeldInside, LookupsFind
<1>2. IInv /\ HeldInside /\ LookupsFind => WaitsEnd
  <2> SUFFICES ASSUME IInv, HeldInside, LookupsFind, NEW r \in Requests
               PROVE  /\ \A o \in WaitsFor(r) :
                           /\ pc[o] \in {"insert", "commit"}
                           /\ \A q \in WaitsFor(o) : pc[q] = "commit" /\ WaitsFor(q) = {}
                      /\ pc[r] = "winner" => Holding(asked[r].token) # {}
                      /\ pc[r] = "readback" => \E t \in queues : t.id = r
    BY DEF WaitsEnd
  <2>1. ASSUME NEW q \in Requests, pc[q] = "commit" PROVE WaitsFor(q) = {}
    BY <2>1 DEF WaitsFor
  <2>2. ASSUME NEW o \in Requests, pc[o] # "lock" PROVE \A q \in WaitsFor(o) : pc[q] = "commit"
    BY <2>2 DEF WaitsFor
  <2>3. ASSUME NEW o \in WaitsFor(r) PROVE pc[o] \in {"insert", "commit"}
    <3>1. asked[r].svc \in Services /\ o # NoOne
      BY NumberingAssumption DEF IInv, TypeOK, Input, WaitsFor
    <3>2. QED
      BY <3>1 DEF WaitsFor, HeldInside
  <2>4. \A o \in Requests : WaitsFor(o) \subseteq Requests
    BY DEF WaitsFor
  <2>5. QED
    BY <2>1, <2>2, <2>3, <2>4 DEF LookupsFind
<1>3. QED
  BY <1>1, <1>2, HeldStep, LookupStep, Invariance, PTL DEF Spec

(***************************************************************************)
(* The transactions implement the atomic ticket roll: a commit, known or   *)
(* unknown to its client, is the roll's Issue, a return is its Answer, and *)
(* every other statement changes nothing a visitor can see.                *)
(***************************************************************************)
THEOREM ImplementsRoll == Spec => Refinement
<1> USE DEF Roll!rollVars
<1>1. Init => Roll!Init
  BY DEF Init, Roll!Init, Input
<1>2. ASSUME IInv, [Next]_vars PROVE [Roll!Next]_(Roll!rollVars)
  <2> USE <1>2 DEF IInv
  <2>1. ASSUME NEW r \in Requests, Commit(r) \/ CommitUnacknowledged(r) PROVE Roll!Next
    <3>1. /\ pc[r] = "commit" /\ queues' = queues \cup {draft[r]}
          /\ UNCHANGED <<asked, answer>>
      BY <2>1 DEF Commit, CommitUnacknowledged
    <3>2. draft[r] = NewRow(r) /\ Roll!Unused(queues, asked[r].token)
      BY <3>1 DEF DraftCurrent
    <3>3. \A t \in queues : t.id # r
      BY <3>1 DEF RowsOfRequests
    <3>4. txDay[r] \in Roll!Days
      BY DEF TypeOK, Roll!Days
    <3>5. Roll!Issue(r, txDay[r])
      BY <3>1, <3>2, <3>3 DEF Roll!Issue, NewRow
    <3>6. QED
      BY <3>4, <3>5 DEF Roll!Next
  <2>2. ASSUME NEW r \in Requests, NEW t \in queues, pc[r] # "done",
               t.id = r \/ (t.token = asked[r].token /\ t.token # NoToken),
               Return(r, t), UNCHANGED <<queues, asked>>
        PROVE  Roll!Next
    <3>1. answer[r] = NoTicket
      BY <2>2 DEF AnswersAreTickets
    <3>2. Roll!Answer(r)
      BY <2>2, <3>1 DEF Roll!Answer, Return
    <3>3. QED
      BY <3>2 DEF Roll!Next
  <2>3. ASSUME NEW r \in Requests, FastPath(r) \/ FindWinner(r)
        PROVE  [Roll!Next]_(Roll!rollVars)
    <3>1. /\ pc[r] \in {"fastpath", "winner"}
          /\ asked[r].token # NoToken
          /\ UNCHANGED <<queues, asked>>
          /\ \/ \E t \in Holding(asked[r].token) : Return(r, t)
             \/ UNCHANGED answer
      BY <2>3 DEF FastPath, FindWinner, GuestAtToken
    <3>2. QED
      BY <2>2, <3>1 DEF Holding
  <2>4. ASSUME NEW r \in Requests, ReadBack(r) PROVE Roll!Next
    <3>1. \E t \in queues : t.id = r /\ Return(r, t) /\ UNCHANGED <<queues, asked>>
      BY <2>4 DEF ReadBack
    <3>2. pc[r] # "done"
      BY <2>4 DEF ReadBack
    <3>3. QED
      BY <2>2, <3>1, <3>2
  <2>5. ASSUME NEW r \in Requests,
               Submit(r) \/ ReadPrefix(r) \/ Begin(r) \/ AcquireLock(r) \/ Insert(r)
               \/ LoseRace(r) \/ Fail(r)
        PROVE  UNCHANGED Roll!rollVars
    BY <2>5 DEF Submit, ReadPrefix, Begin, AcquireLock, Insert, LoseRace, Fail
  <2>6. CASE Midnight \/ \E s \in Services : ToggleService(s)
    BY <2>6 DEF Midnight, ToggleService
  <2>7. CASE UNCHANGED vars
    BY <2>7 DEF vars
  <2>8. QED
    BY <2>1, <2>3, <2>4, <2>5, <2>6, <2>7 DEF Next, Progress
<1>3. QED
  BY <1>1, <1>2, Invariance, PTL DEF Spec, Refinement, Roll!Spec

===============================================================================
