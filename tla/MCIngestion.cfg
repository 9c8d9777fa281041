CONSTANTS
  p1 = p1
  p2 = p2
  None = None
  Polls = {p1, p2}
  Last = 2
  Limit <- MCLimit
  ProbeMin <- MCProbeMin
  CatchupMax <- MCCatchupMax
  ChunkSize = 1
  Backpressure = 2
  Reports = TRUE
  MaxFaults = 1
SPECIFICATION FairSpec
INVARIANTS
  TypeOK
  CursorCovered
  SavedCursorCovered
PROPERTIES
  CatchesUp
