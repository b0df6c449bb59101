SPECIFICATION VimSpec
CONSTANTS
  MaxSnaps = 3
  Names = {"own", "other"}
  Descriptions <- Imitating
CHECK_DEADLOCK FALSE
INVARIANTS
  VimTypeOK
  LookupFindsNewest
  TaggedAreOwn
