\* Transactions that may never be mined.
SPECIFICATION LiveSpec
CONSTANTS
  Call = {w1, w2}
  Serialized = {w1, w2}
  NoCall = NoCall
  Result <- MCResultOrder
  Signer = signer
  MaxReadbacks = 2
  MaxNonce = 0
  Lagging = TRUE
  Faults = TRUE
  Account = {deployer, signer}
  NoAccount = NoAccount
  AssetId = {nvda}
  ReferenceId = {ref}
  NoId = NoId
  Quote <- MCQuote
  Deployer = deployer
  MaxTime = 2
  nvda = nvda
  spy = spy
  ref = ref
PROPERTY CallEnds
CHECK_DEADLOCK FALSE
