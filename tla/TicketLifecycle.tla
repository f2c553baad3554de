---------------------------- MODULE TicketLifecycle ----------------------------
(***************************************************************************)
(* What calling, finishing, skipping, recalling and rating tickets         *)
(* promises: every operation is one atomic step on one ticket, and a       *)
(* ticket is called from the queue by at most one request.                 *)
(*                                                                         *)
(*   waiting --call--> calling --complete--> completed --rate--> completed *)
(*      |                |  ^                   ^                          *)
(*      +------skip------+  |                   |                          *)
(*              v           |        serving ---+                          *)
(*           skipped --recall                                              *)
(*                                                                         *)
(* No operation sets "serving"; only the seeding tool writes such rows.    *)
(***************************************************************************)
CONSTANTS
  Tickets,    \* rows the table can hold
  Requests,   \* HTTP requests
  NoTicket    \* a request that has called no ticket

VARIABLES
  status,     \* the status of each ticket, "absent" before it is issued
  rated,      \* the tickets that carry a rating
  called      \* the ticket each request took from the queue

lifecycleVars == <<status, rated, called>>

Statuses == {"absent", "waiting", "calling", "serving", "completed", "skipped"}

Init ==
  /\ status \in [Tickets -> Statuses]
  /\ rated \in SUBSET {t \in Tickets : status[t] = "completed"}
  /\ called = [r \in Requests |-> NoTicket]

Move(t, from, to) ==
  /\ status[t] \in from
  /\ status' = [status EXCEPT ![t] = to]

Arrive(t) == Move(t, {"absent"}, "waiting") /\ UNCHANGED <<rated, called>>

Call(r, t) ==
  /\ called[r] = NoTicket
  /\ \A o \in Requests : called[o] # t
  /\ Move(t, {"waiting"}, "calling")
  /\ called' = [called EXCEPT ![r] = t]
  /\ UNCHANGED rated

Complete(t) == Move(t, {"calling", "serving"}, "completed") /\ UNCHANGED <<rated, called>>

Skip(t) == Move(t, {"waiting", "calling"}, "skipped") /\ UNCHANGED <<rated, called>>

Recall(t) == Move(t, {"skipped"}, "calling") /\ UNCHANGED <<rated, called>>

Rate(t) ==
  /\ status[t] = "completed"
  /\ rated' = rated \cup {t}
  /\ UNCHANGED <<status, called>>

Next ==
  \E t \in Tickets :
    \/ Arrive(t) \/ Complete(t) \/ Skip(t) \/ Recall(t) \/ Rate(t)
    \/ \E r \in Requests : Call(r, t)

Spec == Init /\ [][Next]_lifecycleVars

===============================================================================
