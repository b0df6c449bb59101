SPECIFICATION CmdFairSpec
CONSTANTS
  v1 = v1
  v2 = v2
  Vm = {v1, v2}
  Main = Main
  MaxSessions = 1
  root = root
  child = child
  local = local
  other = other
  s1 = s1
  s2 = s2
  Store = {root, child, local, other}
  Spare = Spare
  Home <- MCHome
  Place <- MCPlace
  Kind <- MCKind
  Server <- MCServer
  Option <- MCOption
  Inventory <- MCInventory
  Garbled = {v2}
  MaxChanges = 2
  Text <- MCText
  Files <- GoodFiles
  Envs <- AllEnvs
  FlagSets <- AllFlags
  Offered = {"keyboard-interactive"}
CHECK_DEADLOCK FALSE
INVARIANTS
  LoginsBelong
  NoSecondTry
  NothingLost
  JudgedAsSeen
PROPERTY CommandEnds
