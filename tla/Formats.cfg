SPECIFICATION Spec
CONSTANTS
  Machines <- MCMachines
  Requests <- MCRequests
  Places <- MCPlaces
  DataPlace <- MCDataPlace
  Types <- MCTypes
  DataOf <- MCDataOf
  BufferSize = 20
  BlockSize = 4096
  MaxFiles = 128
  NoFile = NoFile
  NoData = NoData
INVARIANTS TypeOK NumbersSurvive PlacesFound
