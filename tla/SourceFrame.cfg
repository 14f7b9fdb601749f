SPECIFICATION Spec
CONSTANTS
  r1 = r1
  r2 = r2
  Resources = {r1, r2}
  Movies = {r1}
  Owner <- MCOwner
  Descriptions <- MCDescriptions
  PoolLimit = 1
  ResetLimit = 1
  EpochLimit = 3
  SeqLimit = 2
INVARIANTS
  RefsBalanced
PROPERTIES
  CancelledStaysCancelled
  CutsAreAnnounced
