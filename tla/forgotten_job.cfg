SPECIFICATION Spec
CONSTANTS
  Names = {n1}
  NoName = NoName
  Disturbances = {"crash"}
  Configs <- Between0And1
  MaxDemand = 1
  MaxRestarts = 1
  ProvisionConcurrency = 1
INVARIANTS
  BusyRunnersAreSpared
