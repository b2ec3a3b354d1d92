\* A character between the quotes that shares its first byte with the quote.
SPECIFICATION Spec
CONSTANTS
  MaxLength = 3
  Inputs <- AccentInputs
  LineChars = {10, 13}
  RowChars = {10}
  SpaceChars = {32}
  FixedTokens <- TwoCommas
PROPERTY ScanEnds
