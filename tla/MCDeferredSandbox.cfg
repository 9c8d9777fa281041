CONSTANTS
  a = a
  b = b
  c = c
  d = d
  Keys = {a, b, c, d}
  TopTier = {a, b}
  Score <- MCScore
  Tier1Signal = {d}
  MinScore = 5
  QueueMax = 2
  Slots = 1
  MaxRetries = 2
  Crashes = TRUE
SPECIFICATION FairSpec
INVARIANTS
  TypeOK
  QueueConsistent
  SavedIsKept
PROPERTIES
  EvictsLowest
  TopServed
