SPECIFICATION Spec
CONSTANTS
  N = 4
  MaxGroup = 3
  Names <- MCNames
  Start = "start"
  NoSymbol = NoSymbol
  MaxOpen = 16
  MaxImports = 3
  Inputs <- MCInputs
  LoadSegs = {96, 4660}
  Scenario = "near"
CHECK_DEADLOCK FALSE
INVARIANTS NearCallsReach
