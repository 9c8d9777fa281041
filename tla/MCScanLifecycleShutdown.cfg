CONSTANTS
  p = p
  q = q
  r = r
  k = k
  l = l
  Pubs = {p,q}
  Keys = {k, l}
  KeyOf <- MCKeyOf
  HeavyPubs = {}
  Lanes = {w1,w2}
  Free = Free
  Off = Off
  HeavyMax = 1
  MaxInterrupts = 1
  ExtractPool = TRUE
  MaxCrashes = 0
SPECIFICATION LifecycleSpec
SYMMETRY Symmetry
INVARIANT NoVersionLost
