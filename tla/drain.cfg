SPECIFICATION FairSpec
CONSTANTS
  Names = {n1}
  NoName = NoName
  Disturbances = {"api", "crash"}
  Configs <- Draining
  MaxDemand = 1
  MaxRestarts = 1
  ProvisionConcurrency = 1
PROPERTIES
  DrainCompletes
  DeadRunnersAreReaped
CHECK_DEADLOCK FALSE
