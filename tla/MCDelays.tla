------------------------------- MODULE MCDelays -------------------------------
(* Symmetry for the model checking of Delays: no thread differs from another *)
EXTENDS Delays, TLC

AlikeThreads == Permutations(Threads)
=============================================================================
