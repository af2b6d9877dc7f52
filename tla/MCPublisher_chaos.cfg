\* A worker and a POST, lagging and failing RPCs, lost and late transactions, crashes.
SPECIFICATION Spec
CONSTANTS
  Call = {w1, p1}
  Serialized = {w1}
  NoCall = NoCall
  Result <- MCResultOrder
  Signer = signer
  MaxReadbacks = 2
  MaxNonce = 1
  Lagging = TRUE
  Faults = TRUE
  Account = {deployer, signer}
  NoAccount = NoAccount
  AssetId = {nvda}
  ReferenceId = {ref}
  NoId = NoId
  Quote <- MCQuote
  Deployer = deployer
  MaxTime = 2
  nvda = nvda
  spy = spy
  ref = ref
INVARIANT SuccessIsOnRecord
CHECK_DEADLOCK FALSE
