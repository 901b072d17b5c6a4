SPECIFICATION Spec
CONSTANTS
  Threads = {t1, t2}
  Blocks = {b1, b2, b3, b4}
  Null = Null
  CacheCount = 2
  EntryCount = 2
  Word = 65536
  Sizes <- MCSizes
SYMMETRY MCSymmetry
INVARIANTS
  NoAliasing
  RequestFits
  NoLeak
