------------------------- MODULE MemoryCacheProofs -------------------------
(***************************************************************************)
(* The memory cache proved for any number of threads, blocks, buckets and  *)
(* entries, any word size and any sizes.                                   *)
(***************************************************************************)
EXTENDS MemoryCache, TLAPS

(* A block cached in a bucket was got with the size of that bucket. *)
CachedFit ==
  \A t \in Threads, i \in Buckets, j \in Entries :
    cache[t][i][j] # Null => capacity[cache[t][i][j]] = Alignment * (i + 1)

(* So was a block in use that will go to that bucket when it is freed. *)
UsedFit ==
  \A b \in used :
    /\ request[b] \in Sizes
    /\ Cacheable(request[b]) => capacity[b] = Alignment * (CacheIndex(request[b]) + 1)

IInv == TypeOK /\ NoAliasing /\ NoLeak /\ RequestFits /\ CachedFit /\ UsedFit

(* The bucket of a size has room for it, also when the rounding wraps.     *)
LEMMA BucketFits ==
  ASSUME NEW size \in Sizes, Cacheable(size)
  PROVE  /\ CacheIndex(size) \in Buckets
         /\ AlignedSize(size) = Alignment * (CacheIndex(size) + 1)
         /\ size <= AlignedSize(size)
<1>1. size \in 0 .. Word - 1 /\ Word \in Nat /\ Word % 64 = 0 /\ 64 * CacheCount < Word
  BY CacheAssumption DEF Alignment
<1>2. AlignedSize(size) \in Nat /\ AlignedSize(size) % 64 = 0
  BY <1>1 DEF AlignedSize, Alignment
<1>3. AlignedSize(size) # 0
  BY <1>1, CacheAssumption DEF Cacheable, CacheIndex, Alignment
<1>4. CacheIndex(size) = AlignedSize(size) \div 64 - 1
  BY <1>3 DEF CacheIndex, Alignment
<1>5. AlignedSize(size) >= 64 /\ AlignedSize(size) = 64 * (AlignedSize(size) \div 64)
  BY <1>2, <1>3
<1>6. size <= AlignedSize(size)
  BY <1>1, <1>3 DEF AlignedSize, Alignment
<1>7. AlignedSize(size) \div 64 \in Nat /\ AlignedSize(size) \div 64 >= 1
  BY <1>2, <1>5
<1>8. CacheIndex(size) \in Buckets
  BY <1>4, <1>7, CacheAssumption DEF Cacheable, Buckets
<1>9. AlignedSize(size) = Alignment * (CacheIndex(size) + 1)
  BY <1>4, <1>5, <1>7 DEF Alignment
<1> QED
  BY <1>6, <1>8, <1>9

(* Empty caches and no block in use satisfy the invariant.                 *)
LEMMA InitIInv == Init => IInv
<1> SUFFICES ASSUME Init PROVE IInv
  OBVIOUS
<1>1. \A t \in Threads, i \in Buckets, j \in Entries : cache[t][i][j] = Null
  BY DEF Init, NoEntries
<1>2. TypeOK
  BY DEF Init, TypeOK, NoEntries
<1>3. Cached = {}
  BY <1>1, CacheAssumption DEF Cached, CachedBy
<1> QED
  BY <1>1, <1>2, <1>3 DEF Init, IInv, NoAliasing, NoLeak, RequestFits, CachedFit, UsedFit

(* Allocation: from an entry, or from operator new. *)
LEMMA AllocHitStep ==
  ASSUME IInv, NEW t \in Threads, NEW size \in Sizes, AllocHit(t, size)
  PROVE  IInv'
<1> DEFINE i == CacheIndex(size)
<1>1. i \in Buckets
  BY BucketFits DEF AllocHit
<1>2. PICK j \in Entries :
        /\ cache[t][i][j] # Null
        /\ used' = used \cup {cache[t][i][j]}
        /\ request' = [request EXCEPT ![cache[t][i][j]] = size]
        /\ cache' = [cache EXCEPT ![t][i][j] = Null]
        /\ UNCHANGED <<allocated, capacity>>
  BY DEF AllocHit, FirstFull, TakenOut
<1> DEFINE b == cache[t][i][j]
<1>3. b \in Blocks /\ b \in allocated /\ b \notin used
  BY <1>1, <1>2 DEF IInv, TypeOK, NoAliasing, Cached, CachedBy
<1>4. \A u \in Threads, k \in Buckets, l \in Entries :
        cache'[u][k][l] = IF u = t /\ k = i /\ l = j THEN Null ELSE cache[u][k][l]
  BY <1>1, <1>2 DEF IInv, TypeOK
<1>5. TypeOK'
  BY <1>1, <1>2, <1>3 DEF IInv, TypeOK
<1>6. Cached' = Cached \ {b}
  BY <1>1, <1>2, <1>3, <1>4, CacheAssumption DEF IInv, NoAliasing, Cached, CachedBy
<1>7. NoAliasing'
  BY <1>2, <1>3, <1>4, <1>6 DEF IInv, NoAliasing
<1>8. NoLeak'
  BY <1>2, <1>6 DEF IInv, NoLeak
<1>9. CachedFit'
  BY <1>2, <1>4 DEF IInv, CachedFit
<1>10. capacity[b] = Alignment * (i + 1)
  BY <1>1, <1>2 DEF IInv, CachedFit
<1>11. UsedFit'
  BY <1>2, <1>3, <1>10 DEF IInv, UsedFit, TypeOK, Cacheable, CacheIndex, AlignedSize
<1>12. RequestFits'
  BY <1>2, <1>3, <1>10, BucketFits DEF IInv, RequestFits, TypeOK, AllocHit
<1> QED
  BY <1>5, <1>7, <1>8, <1>9, <1>11, <1>12 DEF IInv

(* operator new hands out a block nobody has, of at least the size asked.  *)
LEMMA NewStep ==
  ASSUME IInv, NEW size \in Sizes, NEW n \in Nat, NEW b \in Blocks, New(b, n, size),
         size <= n, Cacheable(size) => n = Alignment * (CacheIndex(size) + 1)
  PROVE  IInv'
<1>1. b \notin allocated /\ b \notin used /\ b \notin Cached
  BY DEF New, IInv, NoAliasing
<1>2. TypeOK'
  BY DEF New, IInv, TypeOK
<1>3. cache' = cache /\ Cached' = Cached
  BY DEF New, Cached, CachedBy
<1>4. NoAliasing' /\ NoLeak'
  BY <1>1, <1>3 DEF New, IInv, NoAliasing, NoLeak
<1>5. CachedFit'
  <2>1. ASSUME NEW t \in Threads, NEW i \in Buckets, NEW j \in Entries, cache[t][i][j] # Null
        PROVE  cache[t][i][j] \in Blocks /\ cache[t][i][j] # b
    BY <2>1, <1>1 DEF IInv, TypeOK, Cached, CachedBy
  <2> QED
    BY <1>3, <2>1 DEF New, IInv, TypeOK, CachedFit
<1>6. UsedFit' /\ RequestFits'
  BY <1>1 DEF New, IInv, TypeOK, UsedFit, RequestFits, Cacheable, CacheIndex, AlignedSize
<1> QED
  BY <1>2, <1>4, <1>5, <1>6 DEF IInv

(* A miss and an oversize request both go to operator new.                 *)
LEMMA AllocStep ==
  ASSUME IInv, NEW t \in Threads, NEW size \in Sizes,
         AllocMiss(t, size) \/ AllocOversize(t, size)
  PROVE  IInv'
<1>1. size \in Nat
  BY CacheAssumption
<1>2. CASE AllocMiss(t, size)
  <2>1. AlignedSize(size) \in Nat
    BY <1>1, <1>2, BucketFits, CacheAssumption DEF AllocMiss, Buckets, Alignment
  <2> QED
    BY <1>2, <2>1, BucketFits, NewStep DEF AllocMiss
<1>3. CASE AllocOversize(t, size)
  BY <1>1, <1>3, NewStep DEF AllocOversize
<1> QED
  BY <1>2, <1>3

(* Release: into an entry, or to operator delete. *)
LEMMA FreeCachedStep ==
  ASSUME IInv, NEW t \in Threads, NEW b \in Blocks, FreeCached(t, b)
  PROVE  IInv'
<1> DEFINE i == CacheIndex(request[b])
<1>1. b \in used /\ b \in allocated /\ b \notin Cached /\ b # Null
  BY CacheAssumption DEF FreeCached, IInv, NoAliasing
<1>2. i \in Buckets
  BY <1>1, BucketFits DEF FreeCached, IInv, UsedFit
<1>3. PICK j \in Entries :
        cache[t][i][j] = Null /\ cache' = [cache EXCEPT ![t][i][j] = b]
  BY DEF FreeCached, FirstEmpty
<1>4. \A u \in Threads, k \in Buckets, l \in Entries :
        cache'[u][k][l] = IF u = t /\ k = i /\ l = j THEN b ELSE cache[u][k][l]
  BY <1>2, <1>3 DEF IInv, TypeOK
<1>5. used' = used \ {b} /\ UNCHANGED <<allocated, capacity, request>>
  BY DEF FreeCached
<1>6. TypeOK'
  BY <1>2, <1>3, <1>5 DEF IInv, TypeOK
<1>7. \A u \in Threads, k \in Buckets, l \in Entries : cache[u][k][l] # b
  BY <1>1 DEF Cached, CachedBy
<1>8. Cached' = Cached \cup {b}
  BY <1>2, <1>3, <1>4, CacheAssumption DEF Cached, CachedBy
<1>9. NoAliasing'
  BY <1>1, <1>4, <1>5, <1>7, <1>8 DEF IInv, NoAliasing
<1>10. NoLeak'
  BY <1>5, <1>8 DEF IInv, NoLeak
<1>11. CachedFit'
  BY <1>1, <1>4, <1>5 DEF IInv, CachedFit, UsedFit, FreeCached
<1>12. UsedFit' /\ RequestFits'
  BY <1>5 DEF IInv, UsedFit, RequestFits, Cacheable, CacheIndex, AlignedSize
<1> QED
  BY <1>6, <1>9, <1>10, <1>11, <1>12 DEF IInv

(* A block the cache has no entry for is deleted (memory_cache.hpp:109).   *)
LEMMA FreeDeletedStep ==
  ASSUME IInv, NEW t \in Threads, NEW b \in Blocks, FreeDeleted(t, b)
  PROVE  IInv'
<1>1. b \in used /\ b \notin Cached
  BY DEF FreeDeleted, IInv, NoAliasing
<1>2. /\ allocated' = allocated \ {b} /\ used' = used \ {b}
      /\ UNCHANGED <<cache, capacity, request>>
  BY DEF FreeDeleted, Deleted
<1>3. Cached' = Cached
  BY <1>2 DEF Cached, CachedBy
<1> QED
  BY <1>1, <1>2, <1>3 DEF IInv, TypeOK, NoAliasing, NoLeak, RequestFits, CachedFit, UsedFit,
                          Cacheable, CacheIndex, AlignedSize

(* A thread that ends deletes its entries and only those. *)
LEMMA ExitStep ==
  ASSUME IInv, NEW t \in Threads, Exit(t)
  PROVE  IInv'
<1>1. /\ allocated' = allocated \ CachedBy(t)
      /\ cache' = [cache EXCEPT ![t] = NoEntries]
      /\ UNCHANGED <<used, capacity, request>>
  BY DEF Exit, Deleted
<1>2. \A u \in Threads, k \in Buckets, l \in Entries :
        cache'[u][k][l] = IF u = t THEN Null ELSE cache[u][k][l]
  BY <1>1 DEF IInv, TypeOK, NoEntries
<1>3. TypeOK'
  BY <1>1 DEF IInv, TypeOK, NoEntries
<1>4. Cached' = Cached \ CachedBy(t)
  <2>1. \A u \in Threads : u # t => CachedBy(u)' = CachedBy(u) /\ CachedBy(u) \cap CachedBy(t) = {}
    BY <1>2, CacheAssumption DEF IInv, NoAliasing, CachedBy
  <2>2. CachedBy(t)' = {}
    BY <1>2, CacheAssumption DEF CachedBy
  <2> QED
    BY <2>1, <2>2 DEF Cached
<1>5. CachedBy(t) \subseteq Cached
  BY DEF Cached
<1>6. NoAliasing'
  BY <1>1, <1>2, <1>4, <1>5 DEF IInv, NoAliasing
<1>7. NoLeak'
  BY <1>1, <1>4 DEF IInv, NoLeak
<1>8. CachedFit'
  BY <1>1, <1>2 DEF IInv, CachedFit
<1>9. UsedFit' /\ RequestFits'
  BY <1>1 DEF IInv, UsedFit, RequestFits, Cacheable, CacheIndex, AlignedSize
<1> QED
  BY <1>3, <1>6, <1>7, <1>8, <1>9 DEF IInv

(* The inductive invariant holds for any number of threads, blocks, buckets *)
(* and entries (memory_cache.hpp:68-110).                                  *)
THEOREM Inductive == Spec => []IInv
<1>1. IInv /\ [Next]_vars => IInv'
  <2> SUFFICES ASSUME IInv, [Next]_vars PROVE IInv'
    OBVIOUS
  <2>1. CASE UNCHANGED vars
    BY <2>1 DEF vars, IInv, TypeOK, NoAliasing, NoLeak, RequestFits, CachedFit, UsedFit,
                Cached, CachedBy, Cacheable, CacheIndex, AlignedSize
  <2>2. CASE Next
    BY <2>2, AllocHitStep, AllocStep, FreeCachedStep, FreeDeletedStep, ExitStep DEF Next
  <2> QED
    BY <2>1, <2>2
<1> QED
  BY <1>1, InitIInv, PTL DEF Spec

(* No block is in two places, whoever frees it and whichever thread ends. *)
THEOREM Unaliased == Spec => []NoAliasing
<1>1. IInv => NoAliasing
  BY DEF IInv
<1> QED
  BY <1>1, Inductive, PTL

(* Every block handed out is large enough. *)
THEOREM Fits == Spec => []RequestFits
<1>1. IInv => RequestFits
  BY DEF IInv
<1> QED
  BY <1>1, Inductive, PTL

(* No block is lost. *)
THEOREM Leakless == Spec => []NoLeak
<1>1. IInv => NoLeak
  BY DEF IInv
<1> QED
  BY <1>1, Inductive, PTL
=============================================================================
