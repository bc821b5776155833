SPECIFICATION Spec
CONSTANTS
  Names = {n1}
  NoName = NoName
  Disturbances = {"api", "crash", "faults", "operator"}
  Configs <- Draining
  MaxDemand = 1
  MaxRestarts = 1
  ProvisionConcurrency = 1
INVARIANTS
  TypeOK
  DeprovisioningIsUnregistered
  PendingWorkIsScheduled
  DrainedMeansEmpty
PROPERTIES
  ImplementsLifecycle
  NeverStopsARunningJob
  RegistrationGoesFirst
  DiskGoesLast
  TeardownNeverRegresses
CHECK_DEADLOCK FALSE
