CONSTANTS
  Ctx = {c1, c2}
  NULL = NULL
  SubMethods <- MCEthCall
  ParamStrs <- MCOneParamStr
  Metas = {0}
  RootChains = {0}
  DefaultChain = 1
  Msgs <- MCMsgs
  Accounts <- MCThreeAccounts
  Digests = {"prefix"}
  Signers <- MCSigners
  MaxRoots = 1
  RootForms = {"call", "unparsable", "scalar"}
  Deliveries <- MCChunkedDeliveries
SPECIFICATION FairSpec
INVARIANT
  SignatureMatchesRequest
  NoPayloadInErrorText

  
