SPECIFICATION Spec
CONSTANTS
  None = None
  Timer = Timer
  Others = {p}
  Names = {1, 2}
  Specs = {0, 1, 2}
  Ident <- MCIdent
  Default = 0
  Options <- MCOptions
  PageSize = 1
  MaxEvents = 1
  MaxOther = 1
INVARIANTS
  CleanExitIsApplied
  GateHolds
  AddsKept
PROPERTIES
  ConsentFirst
  Converges
CHECK_DEADLOCK FALSE
