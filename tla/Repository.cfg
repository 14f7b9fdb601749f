SPECIFICATION RestoreSpec
CONSTANTS
  Resources = {r1}
  Identities = {i1}
  Data = {d1}
  Receipts = {p1}
  Ranks = {2, 3}
  GenLimit = 3
  CapLimit = 2
  SceneLimit = 2
  Guest = Guest
  Holders = {Guest}
  DirectGens = {2}
INVARIANTS
  OneCurrent
  NothingLeaks
  
  
  
PROPERTIES
  StaleStaysStale
  CancelIsHarmless
