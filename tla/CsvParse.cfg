\* Fields, lines, records, streaming, under every combination of the options.
SPECIFICATION FairSpec
CONSTANTS
  Port = "ts"
  NoNames = NoNames
  MaxText = 5
  MaxRows = 5
  MaxNames = 6
  MaxStream = 4
  Atom <- MCAtom
  EmptyCell <- MCEmptyCell
  NoNamePrefix <- MCNoNamePrefix
  Inputs <- ParseInputs
INVARIANTS TypeOK NoLeak RowsAreSeparate ExactRows StreamProtocol
PROPERTIES ImplementsRecords HandedIsFinal Terminates
