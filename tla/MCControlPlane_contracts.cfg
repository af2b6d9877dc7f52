\* Two accounts that exchange roles and policies, one pair, one vault, evidence that ages.
SPECIFICATION Spec
CONSTANTS
  Account = {deployer, alice}
  NoAccount = NoAccount
  Deployer = deployer
  Vault = {v1}
  VaultPair <- MCVaultPair
  AssetId = {aapl}
  ReferenceId = {chainlink}
  NoId = NoId
  Quote <- MCQuote
  Policy <- MCPolicy
  MaxTime = 3
  v1 = v1
  aapl = aapl
  chainlink = chainlink
INVARIANT TypeOK AttestationCoherent
PROPERTY NoRollback ExposureOnCurrentEvidence TooOldUntilNewObservation
