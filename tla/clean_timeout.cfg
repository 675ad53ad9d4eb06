SPECIFICATION Spec
CONSTANTS
  c1 = c1
  c2 = c2
  Chain <- MCChain
  Image <- MCImage
  Creators = {p1}
  Cleaners = {g1}
  Deleters = {d1}
  Id = {i1}
  Token = {t1, t2, t3}
  None = None
  GlobalLockKey = GlobalLockKey
  GCLockKey = GCLockKey
  Budgets <- OneTimeout
INVARIANTS
  PulledLayersUsable
