---------------------------- MODULE MCAsyncQueue ----------------------------
(* Small instance of AsyncQueue for TLC. *)
EXTENDS AsyncQueue, TLC

CONSTANTS p1, p2, p3, c1, c2
MCProducers == {p1, p2, p3}
MCConsumers == {c1, c2}
Symmetric == Permutations(MCProducers) \cup Permutations(MCConsumers)
=============================================================================
