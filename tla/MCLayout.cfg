SPECIFICATION Spec
CONSTANTS
  N = 4
  MaxGroup = 3
  Sizes <- MCSizes
  CodeLimit = 70
  DataLimit = 112
  ParaMod = 8
CHECK_DEADLOCK FALSE
INVARIANTS TypeOK ListIsPermutation CodeDisjoint GroupAddressable OneSegmentPerGroup EntryGroupFirst
