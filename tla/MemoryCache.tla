---------------------------- MODULE MemoryCache ----------------------------
(***************************************************************************)
(* The thread-local cache of memory blocks that coroutine frames and       *)
(* handlers are allocated from.  Blocks are sorted by size into buckets of *)
(* EntryCount entries.  A block may be freed by another thread than the    *)
(* one that allocated it, and joins the cache of the thread that frees it. *)
(***************************************************************************)
EXTENDS Integers

CONSTANTS
  Threads, Blocks, Null,
  CacheCount,  \* memory_cache::cache_count, 128 in the code
  EntryCount,  \* memory_cache::entry_count, 16 in the code
  Word,        \* bound: 2^w for a size_t of w bits
  Sizes        \* sizes the program asks for

Alignment == 64  \* memory_cache::alignment

ASSUME CacheAssumption ==
  /\ Null \notin Blocks
  /\ CacheCount \in Nat \ {0} /\ EntryCount \in Nat \ {0}
  /\ Word \in Nat /\ Word % Alignment = 0 /\ Alignment * CacheCount < Word
  /\ Sizes \subseteq 0 .. Word - 1

VARIABLES
  cache,     \* the entries of each thread's memory_cache
  allocated, \* blocks got from operator new and not yet deleted
  used,      \* blocks the program holds
  capacity,  \* the size an allocated block was got with
  request    \* the size the program asked for

vars == <<cache, allocated, used, capacity, request>>

Buckets == 0 .. CacheCount - 1
Entries == 1 .. EntryCount
NoEntries == [i \in Buckets |-> [j \in Entries |-> Null]]

TypeOK ==
  /\ cache \in [Threads -> [Buckets -> [Entries -> Blocks \cup {Null}]]]
  /\ allocated \subseteq Blocks
  /\ used \subseteq Blocks
  /\ capacity \in [Blocks -> Nat]
  /\ request \in [Blocks -> Sizes \cup {0}]

Init ==
  /\ cache = [t \in Threads |-> NoEntries]
  /\ allocated = {}
  /\ used = {}
  /\ capacity = [b \in Blocks |-> 0]
  /\ request = [b \in Blocks |-> 0]

\* Arithmetic on size_t wraps around.
RoundedDown(n) == n - (n % Alignment)
AlignedSize(n) ==
  LET up == n + (Alignment - (n % Alignment))
  IN  IF n % Alignment = 0 THEN n ELSE IF up >= Word THEN up - Word ELSE up

CacheIndex(n) ==
  IF AlignedSize(n) = 0 THEN Word - 1 ELSE AlignedSize(n) \div Alignment - 1

Cacheable(n) == CacheIndex(n) < CacheCount

\* The loops stop at the first entry that is, or is not, null.
FirstFull(e, j)  == e[j] # Null /\ \A i \in Entries : i < j => e[i] = Null
FirstEmpty(e, j) == e[j] = Null /\ \A i \in Entries : i < j => e[i] # Null
AllEmpty(e) == \A j \in Entries : e[j] = Null
AllFull(e)  == \A j \in Entries : e[j] # Null

\* operator new of n bytes for a request of size bytes
New(b, n, size) ==
  /\ b \notin allocated
  /\ allocated' = allocated \cup {b}
  /\ used' = used \cup {b}
  /\ capacity' = [capacity EXCEPT ![b] = n]
  /\ request' = [request EXCEPT ![b] = size]
  /\ UNCHANGED cache

\* std::exchange(entry, nullptr)
LeftInPlace(b) == b
TakenOut(b) == Null

AllocHit(t, size) ==
  /\ Cacheable(size)
  /\ LET i == CacheIndex(size)
     IN  \E j \in Entries :
           /\ FirstFull(cache[t][i], j)
           /\ used' = used \cup {cache[t][i][j]}
           /\ request' = [request EXCEPT ![cache[t][i][j]] = size]
           /\ cache' = [cache EXCEPT ![t][i][j] = TakenOut(@)]
  /\ UNCHANGED <<allocated, capacity>>

AllocMiss(t, size) ==
  /\ Cacheable(size)
  /\ AllEmpty(cache[t][CacheIndex(size)])
  /\ \E b \in Blocks : New(b, AlignedSize(size), size)

AllocOversize(t, size) ==
  /\ ~Cacheable(size)
  /\ \E b \in Blocks : New(b, size, size)

FreeCached(t, b) ==
  /\ b \in used /\ Cacheable(request[b])
  /\ LET i == CacheIndex(request[b])
     IN  \E j \in Entries :
           /\ FirstEmpty(cache[t][i], j)
           /\ cache' = [cache EXCEPT ![t][i][j] = b]
  /\ used' = used \ {b}
  /\ UNCHANGED <<allocated, capacity, request>>

\* ::operator delete
Forgotten(bs) == allocated
Deleted(bs) == allocated \ bs

\* The block is too large for the cache, or its bucket is full.
FreeDeleted(t, b) ==
  /\ b \in used
  /\ Cacheable(request[b]) => AllFull(cache[t][CacheIndex(request[b])])
  /\ allocated' = Deleted({b})
  /\ used' = used \ {b}
  /\ UNCHANGED <<cache, capacity, request>>

CachedBy(t) == {b \in Blocks : \E i \in Buckets, j \in Entries : cache[t][i][j] = b}

\* A thread ends: ~memory_cache deletes the entries.  Its name stands for the
\* next thread, which begins with an empty cache.
Exit(t) ==
  /\ allocated' = Deleted(CachedBy(t))
  /\ cache' = [cache EXCEPT ![t] = NoEntries]
  /\ UNCHANGED <<used, capacity, request>>

Next ==
  \E t \in Threads :
    \/ \E size \in Sizes : AllocHit(t, size) \/ AllocMiss(t, size) \/ AllocOversize(t, size)
    \/ \E b \in Blocks : FreeCached(t, b) \/ FreeDeleted(t, b)
    \/ Exit(t)

Spec == Init /\ [][Next]_vars
-----------------------------------------------------------------------------
Cached == UNION {CachedBy(t) : t \in Threads}

(* A block is in one place: no two threads or entries hold the same block, *)
(* none holds a block that is in use or was deleted, and nobody uses a     *)
(* deleted block (alloc and free from any thread, and threads that end).   *)
NoAliasing ==
  /\ used \subseteq allocated
  /\ Cached \subseteq allocated \ used
  /\ \A t, u \in Threads, i, k \in Buckets, j, l \in Entries :
       cache[t][i][j] = cache[u][k][l] /\ cache[t][i][j] # Null
         => t = u /\ i = k /\ j = l

(* The block handed out has room for what was asked, whichever thread and  *)
(* for whatever size of its bucket it was first got; sizes next to zero    *)
(* and to the end of size_t included.                                      *)
RequestFits == \A b \in used : request[b] <= capacity[b]

(* Every block got from operator new is in use or cached, or was deleted.  *)
NoLeak == allocated \subseteq used \cup Cached
=============================================================================
