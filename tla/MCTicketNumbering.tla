-------------------------- MODULE MCTicketNumbering --------------------------
(* Small instances of TicketNumbering for TLC.                             *)
EXTENDS TicketNumbering, TLC

\* Requests, services and tokens are interchangeable in the safety properties.
Interchangeable ==
  Permutations(Requests) \cup Permutations(Services) \cup Permutations(Tokens)

===============================================================================
