\* The Go matcher, and with a quote of several bytes.
SPECIFICATION Spec
CONSTANTS
  MaxLength = 5
  Inputs <- GoInputs
  LineChars = {10, 13}
  RowChars = {10}
  SpaceChars = {32}
  FixedTokens <- TwoCommas
INVARIANT CursorFollows
PROPERTIES ImplementsField ScanEnds
