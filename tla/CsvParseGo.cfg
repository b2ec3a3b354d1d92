\* The same sources through the Go port's slices.
SPECIFICATION GoSpec
CONSTANTS
  Port = "go"
  NoNames = NoNames
  MaxText = 4
  MaxRows = 5
  MaxNames = 0
  MaxStream = 4
  Atom <- MCAtom
  EmptyCell <- MCEmptyCell
  NoNamePrefix <- MCNoNamePrefix
  Inputs <- ParseInputs
PROPERTIES AppendsSpareTheHeld GoImplementsRecords
