SPECIFICATION FairSpec
CONSTANTS
  BufSize = 2
  Bytes = {x, y}
  Junk = Junk
  MaxSize = 5
  MaxLen = 3
  SeekAnywhere = TRUE
PROPERTIES SeekThenRead
