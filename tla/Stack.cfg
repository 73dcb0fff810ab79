SPECIFICATION Spec
CONSTANTS
  Files = {0, 1}
  MaxStack = 2
  node = node
  NodeAddrs <- MCNodes
  Header = Header
  MaxEntries <- MCEntries
  Values = {0, 1}
  Dates = {0}
  MaxEof = 1
  OldFiles = {FALSE}
  MayFail = TRUE
  Empty = Empty
  Freed = Freed
  Unused = Unused
INVARIANTS TypeOK KeysOnce ServedIsCurrent ClosedIsForgotten
