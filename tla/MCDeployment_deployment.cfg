CONSTANTS
  p1 = p1
  p2 = p2
  panelPath = panelPath
  otherPath = otherPath
  approved = approved
  foreign = foreign
  mangled = mangled
  NoFile = NoFile
  nvda = nvda
  spy = spy
  nvdaVault = nvdaVault
  spyVault = spyVault
  alienVault = alienVault
  deployer = deployer
  publisher = publisher
  Asset = {nvda, spy}
  Catalog <- MCCatalog
  LegacyAsset = nvda
  Provisioned = {spy}
  IdOf <- MCIdOf
  RefOf <- MCIdOf
  Release <- MCRelease
  NoVersion = "none"
  Pinned <- MCPinned
  Current = "v2"
  Linked = {nvdaVault, spyVault}
  LegacyVault = nvdaVault
  DefaultPolicy <- MCDefault
  Edited <- MCEdited
  Override <- MCOverride
  Result <- MCResult
  Call = {publisher}
  Signer = publisher
  Account = {deployer, publisher}
  NoAccount = NoAccount
  Vault = {nvdaVault, spyVault, alienVault}
  NoVault = NoVault
  VaultPair <- MCVaultPair
  AssetId = {nvda, spy}
  ReferenceId = {nvda, spy}
  NoId = NoId
  Quote <- MCQuote
  Policy <- MCPolicy
  Deployer = deployer
  MaxTime = 3
SPECIFICATION SpecDeployment
INVARIANT NoCrossAssetPublish BuiltManifestServes
PROPERTY EnforcementIsReal InstalledIsApproved
