SPECIFICATION FairSpec
CONSTANTS
  SourceCapacity = 1
  ChunkLimit = 2
  UploadLimit = 1
  EpochLimit = 3
  SeqLimit = 2
  CycleLimit = 1
  ItemLimit = 3
INVARIANTS
  IdentityHolds
  StreamKept
  SceneIsDrained
  RestoreIsAlone
PROPERTIES
  CallReturns
