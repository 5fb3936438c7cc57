----------------------------- MODULE MCHistory ------------------------------
(***************************************************************************)
(* The instances of History that TLC checks.                               *)
(***************************************************************************)
EXTENDS History, TLC

\* Threads are interchangeable, and no property names one.
ThreadSymmetry == Permutations(Threads)

EveryHazard      == {"threads", "contention", "restart"}
ContendedHazards == {"threads", "contention"}
=============================================================================
