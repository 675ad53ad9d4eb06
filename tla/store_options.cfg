SPECIFICATION Spec
CONSTANTS
  Inits = {n1}
  Removers = {}
  Mapping = {m1, m2}
  Image = {i1}
  None = None
  m1 = m1
  m2 = m2
  MappingList <- MCMappingList
  Modes <- MCModes
  StoreFolders <- MCStoreFolders
  DriverItems <- MCDriverItems
  HostFS = {FALSE}
  FailingCalls = {}
  MaxOps = 2
  MaxFails = 0
  MaxCrashes = 0
  MaxReboots = 1
  MaxAdmin = 1
SYMMETRY Symmetry
CHECK_DEADLOCK FALSE
INVARIANT
  AcceptedHasOptions
