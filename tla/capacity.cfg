SPECIFICATION Spec
CONSTANTS
  Names = {n1, n2}
  NoName = NoName
  Disturbances = {}
  Configs <- Between0And1Or2
  MaxDemand = 2
  MaxRestarts = 0
  ProvisionConcurrency = 1
INVARIANTS
  ReclaimBeforeProvision
  BusyRunnersAreSpared
  YoungInstancesAreSpared
PROPERTIES
  CreateWithinMax
SYMMETRY NamesSymmetry
ACTION_CONSTRAINT ListenAtRest
