SPECIFICATION Spec
CONSTANTS
  NoType = "MT"
  Types <- MCTypes
  BeginsWith <- MCBeginsWith
  Shapes <- MCShapes
  Walked <- MCWalked
INVARIANTS TypeOK ReadsAgree BlockReadsStopAtBoundaries WalkVisitsSelection WholeWriteCanBeRead
PROPERTY ValuesKept
