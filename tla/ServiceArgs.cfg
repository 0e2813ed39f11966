SPECIFICATION DeploymentSpec
CONSTANTS
  m1 = m1 m2 = m2
  Models <- MCModels
  TomlMax = 1000000
  Coordinators = {"https"}
  Activations <- MCActivations
  Answering <- Last
  Platforms = {"linux", "macos", "windows"}
  Options <- MCOptions
  Writes <- MCWrites
INVARIANT OptionsPropagated
