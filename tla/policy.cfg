SPECIFICATION EitherSpec
CONSTANTS
  Token <- Tokens
  MaxTokens = 4
  v1 = v1
  v2 = v2
  Vm = {v1, v2}
  Values = {1, 2}
  Lines <- ChainLines
  MaxLines = 2
CHECK_DEADLOCK FALSE
INVARIANTS
  ParsesTheLanguage
  TextFormIsTheChain
  ResolvesByScope
