CONSTANTS
  f1 = f1
  k1 = k1
  k2 = k2
  abs = abs
  rel = rel
  p1 = p1
  p2 = p2
  Unread = Unread
  NoEntry = NoEntry
  Files = {f1}
  Procs = {p1}
  Keys = {k1, k2}
  Spellings = {abs, rel}
  KeyOf <- MCKeyOf
  TargetSets <- MCWholeTree
  Modes <- MCPlainRaw
  FineStamps = TRUE
  RefreshAfter = 1
  EvictAfter = 3
  MaxEntries = 2
  MaxWrites = 3
  MaxTime = 0
SPECIFICATION WatchFairSpec
INVARIANTS WrongOnlyUntilNextBatch IdleShowsNoticed
PROPERTIES WatchDrains
