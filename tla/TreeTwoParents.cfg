SPECIFICATION Spec
CONSTANTS
  root = root
  n1 = n1
  n2 = n2
  n3 = n3
  Root = root
  Node = {root, n1, n2, n3}
  a = a
  b = b
  c = c
  Names = {a, b, c}
  ListChunk = 2
  Blanks = {FALSE}
  AnyMove = TRUE
  Freed = Freed
  Nobody = Nobody
INVARIANTS OneParent
SYMMETRY MCSymmetry
