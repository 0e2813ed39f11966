SPECIFICATION FairSpec
CONSTANTS
  r1 = r1 r2 = r2 j1 = j1
  NoReq = NoReq
  CounterSize = 8
  OldReqs = {r1}
  NewReqs = {r2}
  OldJob <- MCOldJob
  NewJob <- MCNewJob
  JobIds = {j1}
  MaxConcurrent = 1
  ChanCap = 1
  MaxChunks = 2
  Errors = {}
INVARIANT OrphanStops
PROPERTY OrphansEnd
CHECK_DEADLOCK FALSE
