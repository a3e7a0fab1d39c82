------------------------------ MODULE MCFutex ------------------------------
(* Threads are interchangeable, and so are the queues: with one per thread  *)
(* there is always an unused one.                                          *)
EXTENDS Futex, TLC
Symmetry == Permutations(Threads) \cup Permutations(Queues)
============================================================================
