CONSTANTS
  Ctx = {c1, c2, c3}
  NULL = NULL
  SubMethods <- MCSubMethods
  ParamStrs <- MCTwoParamStrs
  Metas = {0}
  RootChains = {0}
  DefaultChain = 1
  Msgs <- MCMsgs
  Accounts <- MCOneAccount
  Digests = {"hash"}
  Signers <- MCNoSigners
  MaxRoots = 1
  RootForms = {"call", "unparsable", "scalar"}
  Deliveries <- MCDeliveries
SYMMETRY MCSymmetry
VIEW MCView
SPECIFICATION Spec
INVARIANTS
  TypeOK
  RequiredListsWellFormed
  NoLeakedContext
  PendingCountsLiveContexts
  NoDuplicateChildOfParent
