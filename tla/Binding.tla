-------------------------------- MODULE Binding --------------------------------
(***************************************************************************)
(* How an asset is bound to the chain, and what relies on it:              *)
(*                                                                         *)
(*   ProvisionValtideAssets.s.sol   deploys a vault and its policy         *)
(*   capture_xlayer_...receipt.py   verifies what was deployed             *)
(*   xlayer_manifest.py             makes a manifest of it                 *)
(*   publisher.py                   resolves an asset's binding, verifies  *)
(*                                  it on the chain, publishes under it    *)
(*                                  and checks that its vault enforces     *)
(*                                                                         *)
(* The manifest is a file that operators replace or edit while the API     *)
(* runs: every call reads it, publish twice.  The settings and the quant   *)
(* artifacts of a process are cached, so they change by a restart.  The    *)
(* chain is ControlPlane; each read of it is a step of its own.  The       *)
(* transaction itself (nonce, receipt, read-back) is Publisher's.          *)
(***************************************************************************)
EXTENDS Integers, Functions

CONSTANTS
  Asset,         \* the asset registry
  Catalog,       \* the capabilities of each asset
  LegacyAsset,   \* NVDAx, which the legacy manifest describes as "demo"
  Provisioned,   \* the assets that are added to a legacy deployment
  IdOf, RefOf,   \* keccak_text of an asset's name and of its reference's
  Release,       \* the quant artifacts of builds: their version for each asset
  NoVersion,     \* an asset whose artifact is missing or not its own
  Current,       \* the profile, evidence semantics and model ID of this code
  Linked,        \* the vaults whose riskGuard is the shared one
  LegacyVault,   \* the vault that DeployValtide.s.sol deployed
  DefaultPolicy, \* _EXPECTED_POLICY
  Pinned,        \* the versions that build_multi_asset_manifest is written for
  Edited,        \* manifests that operators write by hand
  Override,      \* the settings that override a manifest
  Result,        \* warmed results
  Call,          \* threads of the API
  Signer, Account, NoAccount, Vault, NoVault, VaultPair, AssetId, ReferenceId, NoId, Quote,
  Policy, Deployer, MaxTime

VARIABLES
  now, owner, isPublisher, latest, hasAttestation, policies, configured, vaultOwner,
  exposure,   \* the chain, as in ControlPlane
  code,       \* the vaults that are deployed
  receipt,    \* the captured provisioning receipt
  manifest,   \* the deployment manifest
  built,      \* whether build_multi_asset_manifest made it
  override,   \* the settings of the process
  release,    \* the quant artifacts of the process
  call        \* where each thread is

contractVars == <<now, owner, isPublisher, latest, hasAttestation, policies, configured,
                  vaultOwner, exposure>>
processVars == <<override, release>>
fileVars == <<receipt, manifest, built>>
vars == <<contractVars, code, fileVars, processVars, call>>

Chain == INSTANCE ControlPlane

PairOf(a) == <<IdOf[a], RefOf[a]>>

Declaration == [asset : Asset, referenceId : ReferenceId, semantics : STRING, version : STRING]
NotDeclared == [asset |-> "none"]

ASSUME BindingAssumption ==
  /\ LegacyAsset \in Asset /\ Provisioned \subseteq Asset \ {LegacyAsset}
  /\ \A a, b \in Asset : PairOf(a) = PairOf(b) => a = b
  /\ Linked \subseteq Vault /\ LegacyVault \in Linked
  /\ VaultPair \in [Vault -> Chain!Pair] /\ VaultPair[LegacyVault] = PairOf(LegacyAsset)
  /\ DefaultPolicy \in Policy /\ Pinned \in Release
  /\ Signer \in Account
(* _asset_identity resolves the runtime of every asset of a manifest.      *)
ASSUME PinnedAssumption ==
  \A a \in Provisioned \cup {LegacyAsset} : "quant" \in Catalog[a] /\ Pinned[a] # NoVersion
ASSUME ResultAssumption ==
  \A r \in Result : r.input \in Chain!Input /\ r.input.quote.modelVersion = r.version

ASSUME IdentityAssumption ==
  /\ \A a \in Asset : PairOf(a) \in Chain!Pair
  /\ \A r \in Result : r.asset \in Asset
(* What ControlPlane assumes of its constants.                             *)
ASSUME ChainAssumption ==
  /\ NoAccount \notin Account \cup Vault /\ Account \cap Vault = {}
  /\ Deployer \in Account
  /\ NoId \notin AssetId \cup ReferenceId
  /\ \A q \in Quote :
       /\ {q.referencePriceE8, q.fairValueE8, q.lowerBoundE8, q.upperBoundE8} \subseteq Nat
       /\ {"evidenceHash", "modelVersion"} \subseteq DOMAIN q
  /\ Policy \subseteq [maxAge : Nat,
                      onSupported : Chain!PolicyAction, onInconclusive : Chain!PolicyAction,
                      onChallenged : Chain!PolicyAction, onStale : Chain!PolicyAction]
  /\ MaxTime \in Nat \ {0}

-----------------------------------------------------------------------------
(* Assets, artifacts and the gates of the HTTP routes.                     *)

Fitted(a) == "quant" \in Catalog[a] /\ release[a] # NoVersion

(* require_api_asset: every refusal is a 404 or 503.                       *)
Admitted(a, capabilities) ==
  /\ capabilities \cup {"api_exposed"} \subseteq Catalog[a]
  /\ "quant" \in capabilities => Fitted(a)

(* LiveScheduler.__init__: the assets whose loop and worker exist.         *)
Scheduled(a) == {"runtime", "live_data"} \subseteq Catalog[a] /\ Fitted(a)

-----------------------------------------------------------------------------
(* resolve_asset_deployment                                                *)

(* A manifest of the legacy form binds one asset, through "demo".          *)
Bound(m) == DOMAIN m.bindings

NoVaultReused(m) ==
  \A a, b \in Bound(m) : m.bindings[a].vault = m.bindings[b].vault => a = b

(* The contracts' addresses and chain ID belong together, or do not.       *)
Contracts(m) == IF override.contracts = "unset" THEN m.contracts ELSE override.contracts

Resolvable(a) ==
  /\ a \in Bound(manifest)
  /\ manifest.form = "assets" => NoVaultReused(manifest)
  /\ manifest.bindings[a].assetId = IdOf[a]
  /\ manifest.bindings[a].referenceId = RefOf[a]
  /\ Fitted(a)
  /\ manifest.bindings[a].version = release[a]

(* DEMO_VAULT_ADDRESS counts only beside a legacy manifest.                *)
Config(a) ==
  LET b == manifest.bindings[a] IN
  [asset |-> a, contracts |-> Contracts(manifest), pair |-> <<b.assetId, b.referenceId>>,
   vault |-> IF manifest.form = "legacy" /\ override.vault # NoVault
               THEN override.vault ELSE b.vault,
   declared |-> b.declared]

(* _publication_semantics_compatible: an explicit declaration, equal to    *)
(* what this code is and to what the result was computed with.             *)
Compatible(config, result) ==
  /\ config.declared = [asset |-> config.asset, referenceId |-> config.pair[2],
                        semantics |-> Current, version |-> release[config.asset]]
  /\ result.semantics = Current
  /\ result.version = release[config.asset]

(* Mutant: the vault's own identity is taken for the asset's.              *)
VerifiedUnbound(config) ==
  /\ config.contracts = "shared"
  /\ config.vault \in code \cap Linked
  /\ configured[config.vault][VaultPair[config.vault]]

(* _verify_deployment: the chain is the configured one, everything has     *)
(* code, the links hold, the vault's identity is the binding's and its     *)
(* policy is configured.                                                   *)
Verified(config) ==
  /\ config.contracts = "shared"
  /\ config.vault \in code \cap Linked
  /\ VaultPair[config.vault] = config.pair
  /\ configured[config.vault][config.pair]

-----------------------------------------------------------------------------
(* Threads.                                                                *)
Idle == [pc |-> "idle"]

At(c, pc) == call[c].pc = pc

Resting(c) == call[c].pc \in {"idle", "published", "passed", "refuted"}

Become(c, state) == call' = [call EXCEPT ![c] = state]

Goto(c, pc) == call' = [call EXCEPT ![c].pc = pc]

(* An exception ends the request.                                         *)
Refuse(c) == Become(c, Idle)

StepOnly == UNCHANGED <<contractVars, code, fileVars, processVars>>

(* POST /api/publish, behind its gate, or the worker of a scheduled asset: *)
(* the binding (assert_publication_compatible) and the capability, before  *)
(* any RPC.                                                                *)
BeginPublish(c, result) ==
  LET a == result.asset IN
  /\ Resting(c)
  /\ \E called \in {Admitted(a, {"runtime", "quant", "onchain"}), Scheduled(a)} :
       IF /\ called
          /\ Resolvable(a)
          /\ Compatible(Config(a), result)
          /\ "onchain" \in Catalog[a]
         THEN Become(c, [pc |-> "preflight", result |-> result, config |-> Config(a)])
         ELSE Refuse(c)
  /\ StepOnly

Preflight(c) ==
  /\ At(c, "preflight")
  /\ IF Verified(call[c].config) /\ isPublisher[Signer] THEN Goto(c, "write") ELSE Refuse(c)
  /\ StepOnly

(* What the pair's latest attestation is of this result already.           *)
OnRecord(config, result) ==
  /\ hasAttestation[config.pair]
  /\ latest[config.pair].quote = result.input.quote
  /\ latest[config.pair].observedAt = result.input.observedAt
  /\ latest[config.pair].validUntil >= result.input.validUntil

(* build_attestation: the result, under the pair that the binding names.   *)
Candidate(config, result) == [result.input EXCEPT !.referenceId = config.pair[2]]

Write(c) ==
  LET config == call[c].config
      result == call[c].result
  IN /\ At(c, "write")
     /\ Goto(c, "report")
     /\ \/ OnRecord(config, result) /\ UNCHANGED contractVars
        \/ /\ ~OnRecord(config, result)
           /\ Chain!PublishValidation(Signer, config.pair[1], Candidate(config, result))
     /\ UNCHANGED <<code, fileVars, processVars>>

(* The transaction is refused, times out or reverts, or an RPC fails.      *)
PublishFails(c) ==
  /\ call[c].pc \in {"preflight", "write", "report"}
  /\ Refuse(c)
  /\ StepOnly

(* read_control_plane resolves the asset anew; the receipt takes the       *)
(* policy action from it.                                                  *)
Report(c) ==
  LET a == call[c].config.asset IN
  /\ At(c, "report")
  /\ IF Resolvable(a) /\ Verified(Config(a))
       THEN Become(c, [pc |-> "published", asset |-> a, vault |-> Config(a).vault])
       ELSE Refuse(c)
  /\ StepOnly

-----------------------------------------------------------------------------
(* check_demo_vault_enforcement                                            *)

BeginCheck(c, a) ==
  /\ Resting(c)
  /\ IF Admitted(a, {"onchain", "quant"}) /\ Resolvable(a)
       THEN Become(c, [pc |-> "verify", config |-> Config(a)])
       ELSE Refuse(c)
  /\ StepOnly

VerifyCheck(c) ==
  /\ At(c, "verify")
  /\ IF Verified(call[c].config) THEN Goto(c, "evaluate") ELSE Refuse(c)
  /\ StepOnly

(* RiskGuard's evaluation, read for the vault.                             *)
Evaluate(c) ==
  LET config == call[c].config IN
  /\ At(c, "evaluate")
  /\ Become(c, [pc |-> "request", config |-> config,
                evaluation |-> Chain!EvaluateFor(config.vault, config.pair)])
  /\ StepOnly

(* What a vault answers to requestNewExposure(1): the permissive action it *)
(* found, or a revert that carries what it found.  A vault of another      *)
(* guard decides by what that guard says, which is nothing we know.        *)
Decision(v) == Chain!EvaluateFor(v, VaultPair[v])

Replies(v) ==
  IF v \in Linked THEN {Decision(v)}
  ELSE [evidenceState : Chain!EvidenceState, policyAction : Chain!PolicyAction,
        exists : BOOLEAN, fresh : BOOLEAN]

(* Mutant: the reply is compared by whether it permits, not by its action. *)
ExpectedByOutcome(evaluation, reply) ==
  Chain!Permissive(evaluation.policyAction) = Chain!Permissive(reply.policyAction)

(* A permissive evaluation must come back as the same action; otherwise    *)
(* the revert must be NewExposureNotAllowed with the same four fields.     *)
Expected(evaluation, reply) ==
  IF Chain!Permissive(evaluation.policyAction)
    THEN reply.policyAction = evaluation.policyAction
    ELSE reply = evaluation

Request(c) ==
  LET config == call[c].config
      evaluation == call[c].evaluation
  IN /\ At(c, "request")
     /\ \E reply \in Replies(config.vault) :
          Become(c, [pc |-> IF Expected(evaluation, reply) THEN "passed" ELSE "refuted"])
     /\ StepOnly

(* An RPC error, which the last step raises as a failed verification too.  *)
CheckFails(c) ==
  /\ call[c].pc \in {"verify", "evaluate", "request"}
  /\ Refuse(c)
  /\ StepOnly

-----------------------------------------------------------------------------
(* Deployment.                                                             *)

Elsewhere == UNCHANGED <<processVars, call>>

(* A DemoCollateralVault is created: by the script, or by hand.            *)
DeployVault(v) ==
  /\ v \notin code
  /\ code' = code \cup {v}
  /\ UNCHANGED <<contractVars, fileVars>> /\ Elsewhere

(* The next transaction of the script, or of the vault's owner later on.   *)
(* A vault of another guard has its policy there.                          *)
ConfigureVault(v, policy) ==
  /\ v \in code \cap Linked
  /\ Chain!ConfigurePolicy(Deployer, v, policy)
  /\ UNCHANGED <<code, fileVars>> /\ Elsewhere

(* Another process with the right binding publishes a result.              *)
OtherPublication(result) ==
  /\ Chain!PublishValidation(Signer, IdOf[result.asset],
       [result.input EXCEPT !.referenceId = RefOf[result.asset]])
  /\ UNCHANGED <<code, fileVars>> /\ Elsewhere

NextBlock ==
  /\ Chain!NextBlock
  /\ UNCHANGED <<code, fileVars>> /\ Elsewhere

NoReceipt == [vaults |-> [a \in {} |-> NoVault], build |-> Pinned]

(* Mutant: only the identities of a captured vault are read.               *)
ReceiptRecordUnconfigured(a, creation, policyTarget) ==
  /\ creation \in code
  /\ VaultPair[creation] = PairOf(a)
  /\ vaultOwner[creation] = Deployer

(* _receipt_record: the hashes that a person collected are of the creation *)
(* of a vault of this asset, owner and guard, and of the transaction that  *)
(* gave it the policy it still has.                                        *)
ReceiptRecord(a, creation, policyTarget) ==
  /\ creation \in code
  /\ policyTarget = creation
  /\ VaultPair[creation] = PairOf(a)
  /\ vaultOwner[creation] = Deployer
  /\ creation \in Linked
  /\ configured[creation][PairOf(a)]
  /\ policies[creation][PairOf(a)] = DefaultPolicy

Capture(build, creation, policyTarget) ==
  /\ \A a \in Provisioned : ReceiptRecord(a, creation[a], policyTarget[a])
  /\ IsInjective(creation)
  /\ \A a \in Provisioned : build[a] # NoVersion
  /\ receipt' = [vaults |-> creation, build |-> build]
  /\ UNCHANGED <<contractVars, code, manifest, built>> /\ Elsewhere

(* What _asset_identity and _compatibility say of an asset.                *)
NewBinding(build, a, v) ==
  [vault |-> v, assetId |-> IdOf[a], referenceId |-> RefOf[a], version |-> build[a],
   declared |-> [asset |-> a, referenceId |-> RefOf[a], semantics |-> Current,
                 version |-> build[a]]]

(* build_multi_asset_manifest, run by some build on the legacy manifest    *)
(* and a receipt; the output, without "demo", takes the manifest's place.  *)
BuildManifest(build) ==
  LET demo == manifest.bindings[LegacyAsset]
      vaults == [a \in Provisioned \cup {LegacyAsset} |->
                   IF a = LegacyAsset THEN demo.vault ELSE receipt.vaults[a]]
  IN /\ receipt # NoReceipt
     /\ manifest.form = "legacy" /\ manifest.contracts = "shared"
     /\ <<demo.assetId, demo.referenceId>> = PairOf(LegacyAsset)
     /\ demo.version = build[LegacyAsset]
     /\ \A a \in DOMAIN vaults : build[a] = Pinned[a]
     /\ \A a \in Provisioned : receipt.build[a] = build[a]
     /\ IsInjective(vaults)
     /\ manifest' = [form |-> "assets", contracts |-> "shared",
                     bindings |-> [a \in DOMAIN vaults |-> NewBinding(build, a, vaults[a])]]
     /\ built' = TRUE
     /\ UNCHANGED <<contractVars, code, receipt>> /\ Elsewhere

(* An operator puts a manifest of his own in place.                        *)
EditManifest ==
  /\ manifest' \in Edited
  /\ built' = FALSE
  /\ UNCHANGED <<contractVars, code, receipt>> /\ Elsewhere

(* A restart, with other settings or another build; requests end.          *)
Restart ==
  /\ override' \in Override
  /\ release' \in Release
  /\ call' = [c \in Call |-> Idle]
  /\ UNCHANGED <<contractVars, code, fileVars>>

-----------------------------------------------------------------------------
LegacyManifest ==
  [form |-> "legacy", contracts |-> "shared",
   bindings |-> [a \in {LegacyAsset} |->
     [NewBinding(release, a, LegacyVault) EXCEPT !.declared = NotDeclared]]]

(* What DeployValtide.s.sol leaves behind: its five transactions and the   *)
(* manifest that was written down after them.                              *)
Init ==
  /\ now = 1 /\ owner = Deployer
  /\ isPublisher = [a \in Account |-> a = Signer]
  /\ latest = [p \in Chain!Pair |-> Chain!ZeroAttestation]
  /\ hasAttestation = [p \in Chain!Pair |-> FALSE]
  /\ policies = [o \in Chain!PolicyOwner |-> [p \in Chain!Pair |->
       IF o = LegacyVault /\ p = PairOf(LegacyAsset) THEN DefaultPolicy ELSE Chain!ZeroPolicy]]
  /\ configured = [o \in Chain!PolicyOwner |-> [p \in Chain!Pair |->
       o = LegacyVault /\ p = PairOf(LegacyAsset)]]
  /\ vaultOwner = [v \in Vault |-> Deployer]
  /\ exposure = [v \in Vault |-> Chain!NoExposure]
  /\ code = {LegacyVault}
  /\ receipt = NoReceipt
  /\ override \in Override
  /\ release \in Release
  /\ manifest = LegacyManifest
  /\ built = FALSE
  /\ call = [c \in Call |-> Idle]

ThreadStep(c) ==
  \/ \E result \in Result : BeginPublish(c, result)
  \/ Preflight(c) \/ Write(c) \/ Report(c) \/ PublishFails(c)
  \/ \E a \in Asset : BeginCheck(c, a)
  \/ VerifyCheck(c) \/ Evaluate(c) \/ Request(c) \/ CheckFails(c)

DeploymentStep ==
  \/ \E v \in Vault : DeployVault(v)
  \/ \E v \in Vault, policy \in Policy : ConfigureVault(v, policy)
  \/ \E build \in Release, creation, policyTarget \in [Provisioned -> Vault] :
       Capture(build, creation, policyTarget)
  \/ \E build \in Release : BuildManifest(build)
  \/ EditManifest

Next ==
  \/ \E c \in Call : ThreadStep(c)
  \/ DeploymentStep
  \/ \E result \in Result : OtherPublication(result)
  \/ NextBlock \/ Restart

Spec == Init /\ [][Next]_vars

-----------------------------------------------------------------------------
(* Properties                                                              *)

(* However often the manifest, the settings or the build changed while     *)
(* calls were under way, an attestation is only ever of the asset whose    *)
(* pair it is filed under, and a receipt tells the policy action of a      *)
(* deployed vault of that asset under the shared guard (publish, and the   *)
(* second resolution in read_control_plane).                               *)
NoCrossAssetPublish ==
  /\ \A p \in Chain!Pair :
       hasAttestation[p] =>
         \E r \in Result : /\ p = PairOf(r.asset)
                           /\ latest[p].quote = r.input.quote
                           /\ latest[p].observedAt = r.input.observedAt
  /\ \A c \in Call :
       At(c, "published") =>
         /\ call[c].vault \in code \cap Linked
         /\ VaultPair[call[c].vault] = PairOf(call[c].asset)

(* "Simulate the DemoVault gate and compare it with RiskGuard evaluation": *)
(* a pass means that, when it was asked, the vault of the asset enforced   *)
(* what was reported, to the four fields when it refused.  And it is no    *)
(* false alarm: a vault that answers is refuted only when the chain's      *)
(* evaluation changed between the two reads.                               *)
EnforcementIsReal ==
  [][\A c \in Call :
       LET config == call[c].config
           decided == Chain!EvaluateFor(config.vault, PairOf(config.asset))
       IN /\ (At(c, "request") /\ call'[c].pc = "passed") =>
               /\ config.vault \in Linked
               /\ VaultPair[config.vault] = PairOf(config.asset)
               /\ decided.policyAction = call[c].evaluation.policyAction
               /\ ~Chain!Permissive(decided.policyAction) => decided = call[c].evaluation
          /\ (At(c, "request") /\ call'[c].pc = "refuted") =>
               decided # call[c].evaluation]_vars

(* A manifest that the tools made serves the build it was made with: each  *)
(* asset resolves, and those that were added pass the preflight on the     *)
(* chain, whatever happened to policies since their receipt was captured.  *)
(* (The vault of the legacy binding is taken over without a look at it.)   *)
BuiltManifestServes ==
  built =>
    \A a \in Provisioned \cup {LegacyAsset} :
      release[a] = Pinned[a] =>
        /\ Resolvable(a)
        /\ (a \in Provisioned /\ override.contracts = "unset") => Verified(Config(a))
=============================================================================
