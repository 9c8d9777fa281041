CONSTANTS
  l = l
  m = m
  h = h
  Scans = {l, m, h}
  Weight <- MCWeight
  Mb <- MCMb
  Carveout = 1
  Budgets = {0, 3, 4}
  PoolSize = 1
  MaxPending = 1
  HeavyRequeueMax = 1
  SandboxMax = 1
  FirstPublish = {l, h}
  Suspects = {m}
  Names = {x, y}
  Scope = Scope
  Scopes <- MCScopes
  ScopeOf <- MCScopeOf
  Unscoped = Unscoped
  Untracked = Untracked
  Rules = {r1}
  FollowUps = {f}
  MaxTracked = 1
  MaxNotes = 0
SPECIFICATION BothSpec
INVARIANT SlotsReturned
