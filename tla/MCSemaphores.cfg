CONSTANTS
  Scans = {s1, s2, s3, s4, s5}
  LightScans = {s5}
  HeavyScanMax = 2
  HeavyRequeueMax = 1
  Clients = {a, b, c, d}
  Threaded = {a, b}
  SlotMax = 2
  Rate = 2
  MaxRetries = 2
  MaxGhosts = 1
SPECIFICATION BothSpec
INVARIANTS
  LaneAccounted
  RequeueNeverExhausted
  RegistryAccounted
PROPERTIES
  WaitersServed
  IsSemaphore
  SlotsAreSemaphore
  ProbeOfOne
