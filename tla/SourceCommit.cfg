SPECIFICATION Spec
CONSTANTS
  Slots = {s1, s2}
  GenLimit = 2
  Resources = {r1, r2}
  RefLimit = 1
  Readers = {t1, t2}
  NoHandle = NoHandle
SYMMETRY Symmetric
INVARIANTS
  LeaseProtects
  RefsBalanced
PROPERTIES
  SealedImmutable
