----------------------------- MODULE MCTimeHeap -----------------------------
(* A small instance of TimeHeap for TLC.                                     *)
EXTENDS TimeHeap, TLC

\* The timers are interchangeable.
ItemSymmetry == Permutations(Items)
=============================================================================
