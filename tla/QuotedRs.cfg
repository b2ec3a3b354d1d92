\* The Rust matcher, whatever the windows are that the reader fills.
SPECIFICATION Spec
CONSTANTS
  MaxLength = 7
  Inputs <- RsInputs
  LineChars = {10, 13}
  RowChars = {10}
  SpaceChars = {32}
  FixedTokens = {}
  Surplus = {0, 1, 2, 3}
PROPERTIES ImplementsField ScanEnds
