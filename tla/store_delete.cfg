SPECIFICATION Spec
CONSTANTS
  Inits = {n1}
  Removers = {d1}
  Mapping = {m1}
  Image = {i1, i2}
  None = None
  m1 = m1
  m2 = m2
  MappingList <- MCMappingList
  Modes <- MCModes
  StoreFolders <- MCFewFolders
  DriverItems <- MCFewItems
  HostFS = {TRUE}
  FailingCalls = {"mkfs", "destroy", "unmount", "unlink"}
  MaxOps = 3
  MaxFails = 1
  MaxCrashes = 1
  MaxReboots = 0
  MaxAdmin = 0
SYMMETRY Symmetry
CHECK_DEADLOCK FALSE
INVARIANTS
  DeletedMeansGone
