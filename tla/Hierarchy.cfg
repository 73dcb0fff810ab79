SPECIFICATION HandlesSpec
CONSTANTS
  root = root
  n1 = n1
  n2 = n2
  a = a
  b = b
  Root = root
  Node = {root, n1, n2}
  Names = {a, b}
  Types = {"I4"}
  Dims = {0, 1}
  Bare <- MCBare
  Unread = Unread
  NoCall = NoCall
SYMMETRY MCSymmetry
CONSTRAINT MCOneFault
INVARIANTS TypeOK NamesDiffer CacheIsCurrent DeletedIsKnown OnlyRingsStay
CHECK_DEADLOCK FALSE
