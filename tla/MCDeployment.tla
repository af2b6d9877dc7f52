----------------------------- MODULE MCDeployment -----------------------------
(* The two things an operator installs: a binding of assets to the chain (a  *)
(* legacy deployment of NVDAx to which SPYx is added) and a panel at its     *)
(* persistent path.  They share no state, so nothing is lost when each moves *)
(* only while the other is where it started.                                 *)
EXTENDS Binding

CONSTANTS
  p1, p2, panelPath, otherPath, approved, foreign, mangled, NoFile,
  nvda, spy, nvdaVault, spyVault, alienVault, deployer, publisher

MCCatalog ==
  [a \in {nvda, spy} |-> {"live_data", "historical_data", "quant", "runtime", "onchain",
                         "api_exposed"}]
MCIdOf  == [a \in {nvda, spy} |-> a]
MCRelease == {[a \in {nvda, spy} |-> "pinned"], [a \in {nvda, spy} |-> IF a = nvda THEN "pinned" ELSE "next"]}
MCPinned == [a \in {nvda, spy} |-> "pinned"]
MCVaultPair == [v \in {nvdaVault, spyVault, alienVault} |->
                  IF v = nvdaVault THEN <<nvda, nvda>> ELSE <<spy, spy>>]
MCDefault == [maxAge |-> 1, onSupported |-> "ALLOW", onInconclusive |-> "REQUIRE_REVIEW",
              onChallenged |-> "RESTRICT_NEW_RISK", onStale |-> "REQUIRE_REVIEW"]
MCPolicy == {MCDefault, [MCDefault EXCEPT !.onStale = "MONITOR"]}

QuoteOf(a, state, version) ==
  [referencePriceE8 |-> 1, fairValueE8 |-> 1, lowerBoundE8 |-> 1, upperBoundE8 |-> 1,
   evidenceHash |-> <<a, state>>, modelVersion |-> version]

ResultOf(a, state, version, semantics) ==
  [asset |-> a, version |-> version, semantics |-> semantics,
   input |-> [referenceId |-> a, quote |-> QuoteOf(a, state, version),
              evidenceState |-> state, observedAt |-> 1, validUntil |-> 3]]

MCResult == {ResultOf(nvda, "SUPPORTED", "pinned", "v2"), ResultOf(spy, "CHALLENGED", "pinned", "v2")}
MCQuote == {r.input.quote : r \in MCResult}

Bind(a, v, ids) == [NewBinding(MCPinned, a, v) EXCEPT !.assetId = ids, !.referenceId = ids]
Assets(bindings) == [form |-> "assets", contracts |-> "shared", bindings |-> bindings]
Only(a, binding) == [x \in {a} |-> binding]

MCEdited == {
  Assets(Only(nvda, Bind(nvda, nvdaVault, spy))),
  Assets(Only(nvda, Bind(nvda, spyVault, nvda))),
  Assets(Only(spy, Bind(spy, alienVault, spy))),
  Assets([a \in {nvda, spy} |-> Bind(a, spyVault, a)]),
  [Assets(Only(spy, Bind(spy, spyVault, spy))) EXCEPT !.contracts = "mixed"],
  [form |-> "legacy", contracts |-> "shared",
   bindings |-> Only(nvda, [Bind(nvda, spyVault, nvda) EXCEPT !.declared = NotDeclared])] }

MCOverride == {[contracts |-> "unset", vault |-> NoVault], [contracts |-> "mixed", vault |-> spyVault]}

VARIABLES panelManifest, source, panel, run

panelVars == <<panelManifest, source, panel, run>>

(* The second entry approves bytes that the loader would not accept.         *)
Panels ==
  INSTANCE Provisioning WITH
    manifest <- panelManifest, Provisioner <- {p1, p2}, Path <- {panelPath},
    Elsewhere <- otherPath, Bytes <- {approved, foreign, mangled}, Mangled <- mangled,
    ReplayReady <- {approved}, Manifest <- [path : {panelPath}, sha256 : {approved, foreign}]

ASSUME PanelAssumption == Panels!Contents

PanelsAtRest == source = NoFile /\ panelManifest.sha256 = approved /\ Panels!Init

BindingAtRest == release = MCPinned /\ override.contracts = "unset" /\ Init

InitDeployment ==
  /\ Init /\ Panels!Init
  /\ PanelsAtRest \/ BindingAtRest

NextDeployment ==
  \/ PanelsAtRest /\ Next /\ UNCHANGED panelVars
  \/ BindingAtRest /\ Panels!Next /\ UNCHANGED vars

SpecDeployment == InitDeployment /\ [][NextDeployment]_<<vars, panelVars>>

InstalledIsApproved == Panels!InstalledIsApproved
=============================================================================
