SPECIFICATION Spec
CONSTANTS
  m1 = m1 m2 = m2 free = free
  Models = {m1, m2, free}
  Unpriced = {free}
  Configs <- MCConfigs
INVARIANT LocalFirst
