SPECIFICATION FairSpec
CONSTANTS
  Processes = {p1}
  Ids = {s1, s2, s3}
  NoId = NoId
  Labels = {old, new}
  Configs <- AllConfigs
  Overlap = FALSE
  LateIds = {s1, s2}
  Disturbances = {"api", "crash", "signal"}
INVARIANTS
  TypeOK
  NoOrphanedResources
  SuccessMeansDone
PROPERTIES
  SessionClosesFirst
  SignalsAreObeyed
  DrainSucceeds
