\* The TypeScript matcher on every short source, under every kind of quote.
SPECIFICATION Spec
CONSTANTS
  MaxLength = 6
  Inputs <- TsInputs
  LineChars = {10, 13}
  RowChars = {10}
  SpaceChars = {32}
  FixedTokens = {}
INVARIANT RowFollows
PROPERTIES ImplementsField ScanEnds
