SPECIFICATION Spec
CONSTANTS
  r1 = r1 r2 = r2 r3 = r3 r4 = r4
  j1 = j1 j2 = j2
  NoReq = NoReq
  CounterSize = 16
  Reqs = {r1, r2, r3}
  JobIds = {j1, j2}
  JobOf <- RepeatedId
  Routed = {r1, r2}
  MaxConcurrent = 2
  ChanCap = 1
  MaxChunks = 1
  Errors = {"Unreachable"}
INVARIANT TypeOK
INVARIANT FrameOrder
INVARIANT TerminalTruthful
INVARIANT NoSilentEnd
CHECK_DEADLOCK FALSE
PROPERTY ImplementsProtocol
