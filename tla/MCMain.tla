------------------------------- MODULE MCMain -------------------------------
(* A main thread, two workers, a foreign thread and two pieces of work.    *)
EXTENDS Main, TLC

MCSymmetry == Permutations(Workers) \cup Permutations(Works)
=============================================================================
