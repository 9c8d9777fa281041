CONSTANTS
  p = p
  q = q
  r = r
  k = k
  l = l
  Pubs = {p,q}
  Keys = {k, l}
  KeyOf <- MCKeyOf
  HeavyPubs = {p}
  Lanes = {w1,w2}
  Free = Free
  Off = Off
  HeavyMax = 1
  MaxInterrupts = 1
  ExtractPool = FALSE
  MaxCrashes = 0
SPECIFICATION LifecycleSpec
SYMMETRY Symmetry
INVARIANT RequeuedIsKept
