SPECIFICATION ParSpec
CONSTANTS
  Run = {1, 2, 3}
  Chains <- EitherAlone
CHECK_DEADLOCK FALSE
INVARIANTS
  ParTypeOK
  PauseIsOwned
  FreezeAnswerIsOwn
