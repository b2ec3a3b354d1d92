\* Both walks, on every value of three parts.
SPECIFICATION FairSpec
CONSTANTS
  Nodes = {1, 2, 3}
  MaxParts = 2
  Values <- MCValues
INVARIANTS TypeOK RefusesCycles TagsObjects ReportsCorruption
PROPERTY Ends
