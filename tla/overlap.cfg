SPECIFICATION Spec
CONSTANTS
  Processes = {p1, p2}
  Ids = {s1, s2, s3}
  NoId = NoId
  Labels = {plain}
  Configs <- AllConfigs
  Overlap = TRUE
  LateIds = {}
  Disturbances = {"api", "crash", "signal"}
INVARIANTS
  OneScalerPerScaleSet
  MessagesMeetALiveScaler
SYMMETRY ControllerSymmetry
