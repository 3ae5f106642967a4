---------------------------- MODULE MCHybridClock ----------------------------
(* Instance of HybridClock for TLC: threads and clients are interchangeable.   *)
EXTENDS HybridClock, TLC

Symmetry == Permutations(Threads) \cup Permutations(Clients)
=============================================================================
