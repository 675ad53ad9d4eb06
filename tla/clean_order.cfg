SPECIFICATION Spec
CONSTANTS
  Files <- MCFiles
  Flags <- MCFlags
  Images <- MCImages
  Contents <- MCContents
  MAX_DOCKER_RETRIES = 3
  BufSize = 2
  MaxFails = 0
  MaxEdits = 0
INVARIANTS CleanBeforeCreate
CHECK_DEADLOCK FALSE
