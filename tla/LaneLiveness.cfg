SPECIFICATION LongFairSpec
CONSTANTS
  SourceCapacity = 2
  BatchCapacity = 2
  EpochLimit = 3
  SeqLimit = 4
  Scenes = {1}
  PhaseLimit = 1
PROPERTIES
  PublishedSettles
  StaleIsReleased
  CloseQuiesces
