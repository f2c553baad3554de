----------------------------- MODULE MCTicketDesk -----------------------------
(* Small instances of TicketDesk for TLC.                                  *)
EXTENDS TicketDesk, TLC

\* Requests, tickets and counters are interchangeable in the safety properties.
Interchangeable ==
  Permutations(Requests) \cup Permutations(Tickets) \cup Permutations(Counters)

===============================================================================
