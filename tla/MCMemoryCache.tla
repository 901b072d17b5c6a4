--------------------------- MODULE MCMemoryCache ---------------------------
(* Two threads and caches of two buckets of two entries, for TLC. *)
EXTENDS MemoryCache, TLC

\* Both ends of a bucket, zero, an oversize block, and one that wraps around.
MCSizes == {0, 1, 64, 65, 200, Word - 1}

MCSymmetry == Permutations(Threads) \cup Permutations(Blocks)
=============================================================================
