\* Two schedulers' workers, an RPC that answers, transactions that get mined.
SPECIFICATION Spec
CONSTANTS
  Call = {w1, w2}
  Serialized = {w1, w2}
  NoCall = NoCall
  Result <- MCResultAssets
  Signer = signer
  MaxReadbacks = 2
  MaxNonce = 1
  Lagging = FALSE
  Faults = FALSE
  Account = {deployer, signer}
  NoAccount = NoAccount
  AssetId = {nvda, spy}
  ReferenceId = {ref}
  NoId = NoId
  Quote <- MCQuote
  Deployer = deployer
  MaxTime = 2
  nvda = nvda
  spy = spy
  ref = ref
INVARIANT ReceiptIsOfResult
PROPERTY ReadersSeeRegister FailureWroteNothing NoIdleRewrite
CHECK_DEADLOCK FALSE
