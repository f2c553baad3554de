----------------------------- MODULE MCSSEBroker -----------------------------
(* Small instances of SSEBroker for TLC.                                   *)
EXTENDS SSEBroker, TLC

\* Streams and publishers are interchangeable in the safety properties.
Interchangeable == Permutations(Streams) \cup Permutations(Publishers)

===============================================================================
