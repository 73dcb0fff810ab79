SPECIFICATION Spec
CONSTANTS
  BlockSize = 8
  HeaderSize = 3
  Smallest = 2
  SmallMax = 4
  TagSize = 1
  Sizes <- MCSizes
  DataMin = 2
  MaxFile = 31
  Blank = Blank
INVARIANTS TypeOK ChunksDisjoint NoGap HeadersInOneBlock FreeListsSound
PROPERTY AllocationIsFresh
CHECK_DEADLOCK FALSE
