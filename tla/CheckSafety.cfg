CONSTANTS
  f1 = f1
  f2 = f2
  k1 = k1
  k2 = k2
  abs = abs
  p1 = p1
  p2 = p2
  Unread = Unread
  NoEntry = NoEntry
  Files = {f1, f2}
  Procs = {p1, p2}
  Keys <- MCKeysTwo
  Spellings = {abs}
  KeyOf <- MCKeyOfTwo
  TargetSets <- MCSomeOrAll
  Modes <- MCAllModes
  FineStamps = TRUE
  RefreshAfter = 1
  EvictAfter = 3
  MaxEntries = 2
  MaxWrites = 2
  MaxTime = 1
SPECIFICATION Spec
CONSTRAINT MCFits
INVARIANTS TypeOK HitsAreCurrent
PROPERTIES LintsWithoutCache
SYMMETRY MCSymmetry
