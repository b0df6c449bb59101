SPECIFICATION VimSpec
CONSTANTS
  MaxSnaps = 3
  Names = {"own", "other"}
  Descriptions <- SomeDescriptions
CHECK_DEADLOCK FALSE
INVARIANTS
  ListIsTheTree
  LookupOnAChain
