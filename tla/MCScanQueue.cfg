CONSTANTS
  Items = {a, b, c}
  Protected = {a}
  IocKnown = {b}
  Priority = {a}
  EvictionWindow = 1
  PriorityDequeue = TRUE
  DequeueWindow = 2
  FreshFirst = TRUE
  SplitThreshold = 1
  DrainLanes = 1
  Target = 2
  Workers = {w1}
  Nobody = Nobody
  Levels = {"none", "emergency"}
  MaxScanQueue = 2
  EmergencyKeep = 1
  SpillEnabled = TRUE
  SpillMax = 1
  SpillCeiling = 2
  DrainThreshold = 2
  DrainBatch = 2
  TornAppends = TRUE
  MaxLen = 5
  a = a
  b = b
  c = c
  p = p
  q = q
  key = key
  Pubs = {p, q}
  Keys = {key}
  KeyOf <- MCKeyOf
  HeavyPubs = {q}
  Lanes = {w1}
  HeavyMax = 1
  MaxInterrupts = 1
  ExtractPool = FALSE
  MaxCrashes = 1
  Free = Free
  Off = Off
SPECIFICATION ScansSpec
INVARIANTS
  VersionsAccounted
  ItemsAccounted
  SelectionsMeetReference
PROPERTIES
  ProtectedShedLast
