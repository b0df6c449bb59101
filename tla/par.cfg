SPECIFICATION ParSpec
CONSTANTS
  Run = {1, 2, 3}
  Chains <- AllChains
CHECK_DEADLOCK FALSE
INVARIANTS
  QgaFreezeIsOwned
  TogetherTheyThaw
