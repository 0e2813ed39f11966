SPECIFICATION FairSpec
CONSTANTS
  r1 = r1 r2 = r2 r3 = r3 r4 = r4
  j1 = j1 j2 = j2
  NoReq = NoReq
  CounterSize = 16
  Reqs = {r1, r2, r3}
  JobIds = {r1, r2, r3}
  JobOf <- UniqueIds
  Routed = {r1, r2}
  MaxConcurrent = 2
  ChanCap = 1
  MaxChunks = 0
  Errors = {}
PROPERTY JobAnswered
PROPERTY TasksDrain
CHECK_DEADLOCK FALSE
