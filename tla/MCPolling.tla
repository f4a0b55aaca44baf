------------------------------ MODULE MCPolling ------------------------------
(* Small instances of OrderStatusPolling for TLC.                          *)
EXTENDS OrderStatusPolling, TLC

Symmetry == Permutations(Requests) \cup Permutations(Sessions)
=============================================================================
