---------------------------- MODULE MCLifecycle ----------------------------
(* Lifecycle with a main thread and a few others, for TLC. *)
EXTENDS Lifecycle, TLC

CONSTANTS m, t1, t2

MCCodes == {"0", "7", "max"}

\* The other threads are interchangeable.
Symmetry == Permutations(Threads \ {Main})
============================================================================
