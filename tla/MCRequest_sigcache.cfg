CONSTANTS
  Ctx = {c1, c2, c3}
  NULL = NULL
  SubMethods <- MCEthCall
  ParamStrs <- MCOneParamStr
  Metas = {0}
  RootChains = {0}
  DefaultChain = 1
  Msgs <- MCMsgsOverlap
  Accounts <- MCAccounts
  Digests = {"raw", "hash"}
  Signers <- MCNoSigners
  MaxRoots = 1
  RootForms = {"call"}
  Deliveries <- MCDeliveries
SPECIFICATION Spec
INVARIANT SignatureMatchesRequest
