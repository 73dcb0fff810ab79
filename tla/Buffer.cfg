SPECIFICATION Spec
CONSTANTS
  f1 = f1
  f2 = f2
  NoFile = NoFile
  Fill = Fill
  OldVersion = 0
  NewVersion = 1
  Files = {f1, f2}
  NumBlocks = 2
  BlockSize = 2
  Values = {0, 1}
  Dates = {0, 1}
  Pieces <- MCPieces
  OldFiles = {f1}
  MayFail = TRUE
INVARIANTS TypeOK SmallReadsCurrent OneBlockAtRisk SuccessIsDurable BuffersOfOpenFiles ClosedIsComplete
