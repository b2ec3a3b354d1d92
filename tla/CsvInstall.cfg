\* Two uses of the plugin on one engine, each with any bag.
SPECIFICATION Spec
CONSTANTS
  MaxUses = 2
  MaxRuns = 3
  Texts = {"", "0", "1", "NaN", "x", "true", "false"}
  Bags <- MCBags
INVARIANTS StandsAsAsked InstalledOnce RefusalIsClean
CHECK_DEADLOCK FALSE
