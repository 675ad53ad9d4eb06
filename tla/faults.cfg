SPECIFICATION Spec
CONSTANTS
  c1 = c1
  c2 = c2
  Chain <- MCChain
  Image <- MCImage
  Creators = {p1, p2}
  Cleaners = {g1, g2}
  Deleters = {d1}
  Id = {i1, i2}
  Token = {t1, t2, t3, t4}
  None = None
  GlobalLockKey = GlobalLockKey
  GCLockKey = GCLockKey
  Budgets <- Faults
SYMMETRY Symmetry
INVARIANTS
  PublishedWhole
  LiveImagesIntact
PROPERTIES
  ImplementsCache
