SPECIFICATION FairSpec
CONSTANTS
  m1 = m1
  m2 = m2
  m3 = m3
  Modules = {m1, m2, m3}
  Entry = m1
  MaxImports = 2
  Programs <- MCPrograms
CHECK_DEADLOCK FALSE
INVARIANTS TypeOK ActivationsAreDistinct
PROPERTIES ImplementsInitOrder Terminates
