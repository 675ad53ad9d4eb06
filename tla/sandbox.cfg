SPECIFICATION Spec
CONSTANTS
  Modes <- MCModes
  Stacks <- MCStacks
  MaxFaults = 2
INVARIANTS TypeOK LayersApplied NothingAfterReturn NoImageLeft
PROPERTIES ContainerUndisturbed AllEnd
CHECK_DEADLOCK FALSE
