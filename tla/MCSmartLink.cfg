SPECIFICATION FairSpec
CONSTANTS
  Modules = {m1, m2, m3}
  Names = {start, n1, n2}
  Start = start
  NoOwner = NoOwner
  MaxOpen = 2
  MaxImports = 2
CHECK_DEADLOCK FALSE
INVARIANTS TypeOK LinkedIsClosed FailureIsReal ActivationsFormAPath
PROPERTIES ImplementsReachability Terminates
