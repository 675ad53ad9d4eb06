SPECIFICATION Spec
CONSTANTS
  v1 = v1
  v2 = v2
  Creators = {a, b}
  Deleters = {d}
  Meters = {m}
  Id = {i, j}
  Vol <- MCVol
  TarSize <- MCTarSize
  DuSize <- MCDuSize
  DiskSpec <- MCDiskSpec
  BlockSize = 2
  MinQuota = 2
  MaxProjID = 5
  MaxBytes = 4
  Device = {1, 2}
  MaxOps = 3
  MaxFaults = 1
SYMMETRY MCSymmetry
INVARIANTS TypeOK LimitIsOwn NoIdLeaked IdsReserved UsedBounded CommittedCovered StatsTrue
CHECK_DEADLOCK FALSE
