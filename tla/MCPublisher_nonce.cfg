\* A worker and a POST on an RPC that answers.
SPECIFICATION Spec
CONSTANTS
  Call = {w1, p1}
  Serialized = {w1}
  NoCall = NoCall
  Result <- MCResultOrder
  Signer = signer
  MaxReadbacks = 2
  MaxNonce = 1
  Lagging = FALSE
  Faults = FALSE
  Account = {deployer, signer}
  NoAccount = NoAccount
  AssetId = {nvda}
  ReferenceId = {ref}
  NoId = NoId
  Quote <- MCQuote
  Deployer = deployer
  MaxTime = 2
  nvda = nvda
  spy = spy
  ref = ref
INVARIANT NoncesDistinct
CHECK_DEADLOCK FALSE
