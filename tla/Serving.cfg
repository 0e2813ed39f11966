SPECIFICATION ServingSpec
CONSTANTS
  m1 = m1 m2 = m2 free = free
  Models = {m1, m2, free}
  Unpriced = {free}
  Configs <- MCConfigs
  Listings <- MCListings
  Machines <- MCMachines
  U32 = 8
INVARIANT TypeOK
INVARIANT AdvertisedBest
INVARIANT RoutesServeAdvertised
INVARIANT RoutesFollowPriority
INVARIANT WindowHonest
PROPERTY ImplementsDiscovery
