SPECIFICATION Spec
CONSTANTS
  None = None
  Torn = Torn
  Networks <- MCNetworks
  MaxApplies = 3
  MaxFaults = 1
  MaxReboots = 1
INVARIANTS
  Filtered
  SetupHeals
  StopLeavesNothing
PROPERTY
  Settles
CHECK_DEADLOCK FALSE
