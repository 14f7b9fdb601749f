SPECIFICATION Spec
CONSTANTS
  SourceCapacity = 2
  BatchCapacity = 2
  EpochLimit = 3
  SeqLimit = 2
  Scenes = {1}
  PhaseLimit = 2
INVARIANTS
  OwnedOnce
  CompileIsSafe
  WorkInOrder
  RetirementRoom
  ShownIsAcked
PROPERTIES
  LaneSpec
  ShownAdvances
