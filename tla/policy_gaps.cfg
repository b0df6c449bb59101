SPECIFICATION EitherSpec
CONSTANTS
  Token = {}
  MaxTokens = 0
  v1 = v1
  v2 = v2
  Vm = {v1, v2}
  Values = {0, 1, 2}
  Lines <- GapLines
  MaxLines = 1
CHECK_DEADLOCK FALSE
INVARIANTS
  FlagsBeatCfg
  ServerMemKeepWins
