SPECIFICATION FairSpec
CONSTANTS
  agent = agent enroll = enroll p1 = p1 p2 = p2
  NoPid = NoPid
  Agent = agent
  Procs = {agent, enroll}
  Pids = {p1, p2}
  MaxKeys = 3
  HasCode = TRUE
  MaxFailures = 8
INVARIANT TypeOK
INVARIANT KeysBounded
INVARIANT BackoffLaw
PROPERTY CodeNotReplayed
PROPERTY KeepsTrying
