\* A failed streaming parse of the Go port.
SPECIFICATION GoSpec
CONSTANTS
  Port = "go"
  NoNames = NoNames
  MaxText = 0
  MaxRows = 0
  MaxNames = 0
  MaxStream = 4
  Atom <- MCAtom
  EmptyCell <- MCEmptyCell
  NoNamePrefix <- MCNoNamePrefix
  Inputs <- GoStreamInputs
INVARIANT FailureIsAnEvent
