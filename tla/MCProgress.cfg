CONSTANTS
  a = a
  b = b
  p = p
  q = q
  key = key
  w1 = w1
  w2 = w2
  Nobody = Nobody
  Pubs = {p, q}
  Keys = {key}
  KeyOf <- MCKeyOf
  HeavyPubs = {}
  Lanes = {w1, w2}
  Free = Free
  Off = Off
  HeavyMax = 1
  MaxInterrupts = 1
  ExtractPool = FALSE
  MaxCrashes = 0
SPECIFICATION ProgressSpec
INVARIANTS
  NoVersionLost
PROPERTIES
  QueueMoves
  Settles
  PoolMoves
