SPECIFICATION Spec
CONSTANTS
  Modes <- OwnerModes
  Stacks <- MCStacks
  MaxFaults = 0
INVARIANTS OwnersAsMapped
CHECK_DEADLOCK FALSE
