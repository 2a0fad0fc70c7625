SPECIFICATION Spec
CONSTANTS
  None = None
  Torn = Torn
  Networks <- MCNetworks
  MaxApplies = 3
  MaxFaults = 0
  MaxReboots = 0
INVARIANTS
  ResolverForgets
CHECK_DEADLOCK FALSE
