---------------------------- MODULE MCQueueService ----------------------------
(* Small instances of QueueService for TLC.                                *)
EXTENDS QueueService, TLC

\* Requests, tickets and names are interchangeable in the safety properties.
Interchangeable == Permutations(Requests) \cup Permutations(Tickets) \cup Permutations(Names)

===============================================================================
