SPECIFICATION Spec
CONSTANTS
  Files <- MCFiles
  Flags <- MCFlags
  Images <- MCImages
  Contents <- MCContents
  MAX_DOCKER_RETRIES = 3
  BufSize = 2
  MaxFails = 4
  MaxEdits = 2
INVARIANTS TypeOK  QuotaKept RefusedForCause NothingLeft SettingsInForce
CHECK_DEADLOCK FALSE
