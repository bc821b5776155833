SPECIFICATION FairSpec
CONSTANTS
  Names = {n1}
  NoName = NoName
  Disturbances = {"api", "faults"}
  Configs <- Between0And1
  MaxDemand = 1
  MaxRestarts = 0
  ProvisionConcurrency = 1
PROPERTIES
  DeadRunnersAreReaped
  DemandIsServed
