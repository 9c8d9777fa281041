CONSTANTS
  a = a
  b = b
  c = c
  x = x
  y = y
  Suspects = {a}
  Downloads = {x, y}
  Uncalled = Uncalled
  Over = Over
  Soft = 1
  Hard = 2
  MaxDay = 2
  Keys = {a, b, c}
  NoFile = NoFile
  Retention <- MCRetention
  Concurrency = 1
  MaxInflight = 2
  CacheMax = 2
  MaxFaults = 1
  MaxLedger = 2
  Interval = 2
  MaxAppends = 8
SPECIFICATION StoresSpec
SYMMETRY Alike
INVARIANTS
  StoresAccounted
  CaptureKept
  ArchivedIsKept
  RecentKept
PROPERTIES
  StaleReclaimed
