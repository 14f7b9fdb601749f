SPECIFICATION Spec
CONSTANTS
  field = field
  canon = canon
  overlay = overlay
  Artifacts = {field, canon, overlay}
  Field = field
  Canon = canon
  Eligible = {field, overlay}
  Code <- MCCode
  Extent <- MCExtent
  Kinds = {"zoom"}
  ZoomKinds = {"zoom"}
  WriterCount <- MCWriterCount
  Junk = junk
  None = none
  NativeWork = TRUE
  ArtifactCapacity = 2
  SceneLimit = 2
INVARIANTS
  AuthorityIsIntact
PROPERTIES
  ProofIsUnbroken
CHECK_DEADLOCK FALSE
