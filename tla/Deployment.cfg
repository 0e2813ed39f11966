SPECIFICATION FairDeployment
CONSTANTS
  m1 = m1 m2 = m2
  Models <- MCModels
  TomlMax = 1000000
  Coordinators = {"https", "http"}
  Activations <- MCActivations
  Answering <- FirstAndThird
  Platforms = {"linux", "macos"}
  Options <- NoOptions
  Writes <- MCWrites
INVARIANT TypeOK
INVARIANT PairedConfigLoads
INVARIANT PricesAreTheOperators
INVARIANT ServiceTypeOK
INVARIANT UnitReady
PROPERTY TouchedOnlyWhenPaired
PROPERTY SetupEnds
PROPERTY StopFailureOnly
PROPERTY PairedMachineServes
