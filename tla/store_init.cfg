SPECIFICATION Spec
CONSTANTS
  Inits = {n1, n2}
  Removers = {}
  Mapping = {m1, m2}
  Image = {i1}
  None = None
  m1 = m1
  m2 = m2
  MappingList <- MCMappingList
  Modes <- MCModes
  StoreFolders <- MCInitFolders
  DriverItems <- MCInitItems
  HostFS = {TRUE, FALSE}
  FailingCalls = {"mount", "mkfs", "write"}
  MaxOps = 4
  MaxFails = 1
  MaxCrashes = 1
  MaxReboots = 1
  MaxAdmin = 1
SYMMETRY Symmetry
CHECK_DEADLOCK FALSE
INVARIANTS
  TypeOK
  SuccessMeansWhole
  ImagesKeepMappings
  NoImageHidden
  ListTrue
PROPERTY
  LossOnlyIfRefused
