---------------------------- MODULE MCOwnership -----------------------------
(* Frames that come and go in four blocks, for TLC.                         *)
EXTENDS Ownership, TLC

MCSymmetry == Permutations(Frames)
=============================================================================
