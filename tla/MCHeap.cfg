SPECIFICATION Spec
CONSTANTS
  Top = 8
  Start = 1
  MinHeap = 4
  Totals = {3, 4, 7}
  Sizes = {0, 1, 17, 33, 65535}
  Garbage <- MCGarbage
INVARIANTS TypeOK ListTilesHeap BusyIsLive NoFreeNeighbours
PROPERTIES ImplementsHeapStore
