SPECIFICATION Spec
CONSTANTS
  BufSize = 2
  Bytes = {x, y}
  Junk = Junk
  MaxSize = 5
  MaxLen = 3
  SeekAnywhere = FALSE
INVARIANTS TypeOK PointerFollowsBuffer
PROPERTIES ImplementsByteFile
