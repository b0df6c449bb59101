SPECIFICATION MemSpec
CONSTANTS
  Run = {1, 2}
  NameOf <- OwnNames
  Foreign = {8, 9}
  Unanswered = {"disk"}
  Caps = {0, 1}
  Grace = 2
  MaxTime = 3
CHECK_DEADLOCK FALSE
PROPERTIES
  KeptWhileNeeded
  CapKeepsNewest
