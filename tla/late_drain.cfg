SPECIFICATION Spec
CONSTANTS
  Names = {n1}
  NoName = NoName
  Disturbances = {"api", "late", "crash"}
  Configs <- Draining
  MaxDemand = 1
  MaxRestarts = 1
  ProvisionConcurrency = 1
INVARIANTS
  DrainedMeansEmpty
CHECK_DEADLOCK FALSE
