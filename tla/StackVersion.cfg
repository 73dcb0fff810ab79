SPECIFICATION Spec
CONSTANTS
  Files = {1}
  MaxStack = 2
  node = node
  NodeAddrs <- MCNodes
  Header = Header
  MaxEntries <- MCEntries
  Values = {0, 1}
  Dates = {0, 1}
  MaxEof = 1
  OldFiles = {TRUE, FALSE}
  MayFail = FALSE
  Empty = Empty
  Freed = Freed
  Unused = Unused
INVARIANTS UpgradeStays
