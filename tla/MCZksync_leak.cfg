CONSTANTS
  NULL = NULL
  MAINNET = MAINNET
  i1 = i1
  i2 = i2
  i3 = i3
  i4 = i4
  i5 = i5
  goerli = goerli
  Ids <- MCIds
  Chains <- MCChains
  ConfigInputs <- MCInputsFixed
SPECIFICATION Spec
INVARIANT NoLeak
CHECK_DEADLOCK FALSE
