SPECIFICATION Spec
CONSTANTS
  Names = {n1, n2}
  NoName = NoName
  Disturbances = {"api", "late"}
  Configs <- AlwaysTwo
  MaxDemand = 0
  MaxRestarts = 0
  ProvisionConcurrency = 2
INVARIANTS
  NoOrphanRegistration
  DeletesAreAccepted
SYMMETRY NamesSymmetry
ACTION_CONSTRAINT ListenAtRest
