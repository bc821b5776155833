SPECIFICATION Spec
CONSTANTS
  Names = {n1, n2}
  NoName = NoName
  Disturbances = {"api", "late"}
  Configs <- Between0And1
  MaxDemand = 1
  MaxRestarts = 0
  ProvisionConcurrency = 1
INVARIANTS
  InstancesWithinMax
