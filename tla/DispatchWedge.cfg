SPECIFICATION FairSpec
CONSTANTS
  r1 = r1 r2 = r2 r3 = r3 r4 = r4
  j1 = j1 j2 = j2
  NoReq = NoReq
  CounterSize = 16
  Reqs = {r1, r2}
  JobIds = {r1, r2}
  JobOf <- UniqueIds
  Routed = {r1}
  MaxConcurrent = 1
  ChanCap = 1
  MaxChunks = 0
  Errors = {}
PROPERTY DispatchReturns
CHECK_DEADLOCK FALSE
