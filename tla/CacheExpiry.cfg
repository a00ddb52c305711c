CONSTANTS
  f1 = f1
  f2 = f2
  f3 = f3
  k1 = k1
  k2 = k2
  k3 = k3
  abs = abs
  p1 = p1
  Unread = Unread
  NoEntry = NoEntry
  Files = {f1, f2, f3}
  Procs = {p1}
  Keys = {k1, k2, k3}
  Spellings = {abs}
  KeyOf <- MCKeyOf
  TargetSets <- MCParts
  Modes <- MCModes
  FineStamps = TRUE
  RefreshAfter = 1
  EvictAfter = 2
  MaxEntries = 2
  MaxWrites = 1
  MaxTime = 3
SPECIFICATION MCSpec
PROPERTIES InUseNeverExpires
