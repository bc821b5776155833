SPECIFICATION Spec
CONSTANTS
  Starts <- TwoStarts
  Existing <- NewOrOld
  Words <- AllWords
  None = None
  ImageSizes = {0, 1, 4, 7, 13, 59, 60}
  BytesPerGiB = 4
  Word = 64
  MaxInt32 = 7
  MaxUint16 = 7
INVARIANTS
  TypeOK
  EnvironmentOnlyFillsGaps
  OneNamespacePerScope
  AcceptedIsCarriedOut
PROPERTIES
  LabelsFollowConfiguration
CHECK_DEADLOCK FALSE
