\* The same sources through the Rust port's node cells.
SPECIFICATION RsSpec
CONSTANTS
  Port = "rs"
  NoNames = NoNames
  MaxText = 4
  MaxRows = 5
  MaxNames = 0
  MaxStream = 4
  Atom <- MCAtom
  EmptyCell <- MCEmptyCell
  NoNamePrefix <- MCNoNamePrefix
  Inputs <- ParseInputs
INVARIANT CellsSharedInLevel
PROPERTY RsImplementsRecords
