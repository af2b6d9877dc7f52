---------------------------- MODULE ControlPlane ----------------------------
(***************************************************************************)
(* The three contracts of contracts/src on one chain:                      *)
(*                                                                         *)
(*   ValtideValidationRegistry   the latest attestation of each pair       *)
(*   ValtideRiskGuard            policies and their evaluation             *)
(*   DemoCollateralVault         a consumer that enforces its policy       *)
(*                                                                         *)
(* A transaction is one atomic action.  A call that reverts changes        *)
(* nothing, so a revert is the absence of the action: each "revert" of the *)
(* source is a negated conjunct of the guard.  View functions are          *)
(* operators.  Block time advances between transactions; several           *)
(* transactions may share a block.                                         *)
(***************************************************************************)
EXTENDS Integers

CONSTANTS
  Account,       \* externally owned addresses that send transactions
  NoAccount,     \* address(0), never a sender
  Vault,         \* the deployed DemoCollateralVault instances
  VaultPair,     \* the immutable assetId/referenceId of each vault
  AssetId,       \* non-zero bytes32 asset identifiers
  ReferenceId,   \* non-zero bytes32 reference identifiers
  NoId,          \* bytes32(0)
  Quote,         \* the prices, bounds and hashes that inputs carry
  Policy,        \* the policies that owners submit
  Deployer,      \* initialOwner of the registry and of the vaults
  MaxTime        \* bound on block.timestamp

EvidenceState == {"SUPPORTED", "INCONCLUSIVE", "CHALLENGED"}
PolicyAction  == {"ALLOW", "MONITOR", "REQUIRE_REVIEW", "RESTRICT_NEW_RISK"}
Pair          == AssetId \X ReferenceId
PolicyOwner   == Account \cup Vault

ASSUME AccountAssumption ==
  /\ NoAccount \notin Account \cup Vault
  /\ Account \cap Vault = {}
  /\ Deployer \in Account
ASSUME IdAssumption ==
  /\ NoId \notin AssetId \cup ReferenceId
  /\ VaultPair \in [Vault -> Pair]
ASSUME QuoteAssumption ==
  \A q \in Quote :
    /\ {q.referencePriceE8, q.fairValueE8, q.lowerBoundE8, q.upperBoundE8} \subseteq Nat
    /\ {"evidenceHash", "modelVersion"} \subseteq DOMAIN q
ASSUME PolicyAssumption ==
  Policy \subseteq [maxAge : Nat, onSupported : PolicyAction, onInconclusive : PolicyAction,
                    onChallenged : PolicyAction, onStale : PolicyAction]
ASSUME TimeAssumption == MaxTime \in Nat \ {0}

VARIABLES
  now,              \* block.timestamp
  owner,            \* Ownable._owner of the registry
  isPublisher,      \* registry: the authorized publishers
  latest,           \* registry: _latestValidation
  hasAttestation,   \* registry: _hasAttestation
  policies,         \* guard: _policies
  configured,       \* guard: _policyConfigured
  vaultOwner,       \* Ownable._owner of each vault
  exposure          \* the last ExposureRequested event of each vault

registryVars == <<owner, isPublisher, latest, hasAttestation>>
guardVars    == <<policies, configured>>
vars == <<now, owner, isPublisher, latest, hasAttestation, policies, configured,
          vaultOwner, exposure>>

-----------------------------------------------------------------------------
(* The data.  A mapping starts out with the zero value of its type.        *)

Time == 0..MaxTime

(* validUntil is a future time, so it may exceed every modelled block.     *)
Deadline == 0..(MaxTime + 1)

Input == [referenceId : ReferenceId \cup {NoId}, quote : Quote,
          evidenceState : EvidenceState, observedAt : Time, validUntil : Deadline]

NoQuote == [referencePriceE8 |-> 0, fairValueE8 |-> 0, lowerBoundE8 |-> 0, upperBoundE8 |-> 0,
            evidenceHash |-> NoId, modelVersion |-> NoId]

ZeroAttestation ==
  [referenceId |-> NoId, quote |-> NoQuote, evidenceState |-> "SUPPORTED",
   observedAt |-> 0, publishedAt |-> 0, validUntil |-> 0]

Attestation ==
  [referenceId : ReferenceId, quote : Quote, evidenceState : EvidenceState,
   observedAt : Time, publishedAt : Time, validUntil : Deadline]

ZeroPolicy == [maxAge |-> 0, onSupported |-> "ALLOW", onInconclusive |-> "ALLOW",
               onChallenged |-> "ALLOW", onStale |-> "ALLOW"]

NoExposure == [granted |-> FALSE]

Event == [granted : {TRUE}, evidenceState : EvidenceState, policyAction : PolicyAction,
          exists : BOOLEAN, fresh : BOOLEAN, at : Time]

Init ==
  /\ now = 1
  /\ owner = Deployer
  /\ isPublisher = [a \in Account |-> FALSE]
  /\ latest = [p \in Pair |-> ZeroAttestation]
  /\ hasAttestation = [p \in Pair |-> FALSE]
  /\ policies = [o \in PolicyOwner |-> [p \in Pair |-> ZeroPolicy]]
  /\ configured = [o \in PolicyOwner |-> [p \in Pair |-> FALSE]]
  /\ vaultOwner = [v \in Vault |-> Deployer]
  /\ exposure = [v \in Vault |-> NoExposure]

-----------------------------------------------------------------------------
(* ValtideValidationRegistry                                               *)

(* Authorize or revoke a publisher.                                        *)
SetPublisher(caller, publisher, authorized) ==
  /\ caller = owner
  /\ publisher # NoAccount
  /\ isPublisher' = [isPublisher EXCEPT ![publisher] = authorized]
  /\ UNCHANGED <<now, owner, latest, hasAttestation, guardVars, vaultOwner, exposure>>

(* Mutant: _validateInput forgets that the window must still be open.      *)
ValidInputExpired(asset, input) ==
  /\ asset # NoId
  /\ input.referenceId # NoId
  /\ input.quote.referencePriceE8 # 0
  /\ input.observedAt # 0
  /\ input.observedAt <= now
  /\ input.validUntil > input.observedAt

(* _validateInput: each line of it reverts on the negation.                *)
ValidInput(asset, input) ==
  /\ asset # NoId
  /\ input.referenceId # NoId
  /\ input.quote.referencePriceE8 # 0
  /\ input.quote.fairValueE8 # 0
  /\ input.quote.lowerBoundE8 <= input.quote.upperBoundE8
  /\ input.quote.evidenceHash # NoId
  /\ input.quote.modelVersion # NoId
  /\ input.observedAt # 0
  /\ input.observedAt <= now
  /\ input.validUntil > input.observedAt
  /\ input.validUntil > now

(* Mutant: the rollback check is missing.                                  *)
NotRollbackMissing(pair, input) == TRUE

(* An existing pair is never overwritten by an older observation.          *)
NotRollback(pair, input) ==
  hasAttestation[pair] => input.observedAt >= latest[pair].observedAt

(* Mutant: the publication time is read from the wrong field.              *)
AttestedAtDeadline(input) ==
  [referenceId |-> input.referenceId, quote |-> input.quote,
   evidenceState |-> input.evidenceState, observedAt |-> input.observedAt,
   publishedAt |-> input.validUntil, validUntil |-> input.validUntil]

(* publishedAt is the contract's own clock, never the caller's.            *)
Attested(input) ==
  [referenceId |-> input.referenceId, quote |-> input.quote,
   evidenceState |-> input.evidenceState, observedAt |-> input.observedAt,
   publishedAt |-> now, validUntil |-> input.validUntil]

(* Mutant: _latestValidation is keyed by the reference alone.              *)
PublishValidationByReference(caller, asset, input) ==
  LET pair == <<asset, input.referenceId>>
      filed == {p \in Pair : p[2] = input.referenceId}
  IN /\ isPublisher[caller]
     /\ ValidInput(asset, input)
     /\ NotRollback(pair, input)
     /\ latest' = [p \in Pair |-> IF p \in filed THEN Attested(input) ELSE latest[p]]
     /\ hasAttestation' = [p \in Pair |-> hasAttestation[p] \/ p \in filed]
     /\ UNCHANGED <<now, owner, isPublisher, guardVars, vaultOwner, exposure>>

PublishValidation(caller, asset, input) ==
  LET pair == <<asset, input.referenceId>> IN
  /\ isPublisher[caller]
  /\ ValidInput(asset, input)
  /\ NotRollback(pair, input)
  /\ latest' = [latest EXCEPT ![pair] = Attested(input)]
  /\ hasAttestation' = [hasAttestation EXCEPT ![pair] = TRUE]
  /\ UNCHANGED <<now, owner, isPublisher, guardVars, vaultOwner, exposure>>

(* isFresh: within the published validity window, maxAge not considered.   *)
RegistryFresh(pair) == hasAttestation[pair] /\ now <= latest[pair].validUntil

(* Ownable of the registry.                                                *)
TransferOwnership(caller, newOwner) ==
  /\ caller = owner
  /\ newOwner # NoAccount
  /\ owner' = newOwner
  /\ UNCHANGED <<now, isPublisher, latest, hasAttestation, guardVars, vaultOwner, exposure>>

RenounceOwnership(caller) ==
  /\ caller = owner
  /\ owner' = NoAccount
  /\ UNCHANGED <<now, isPublisher, latest, hasAttestation, guardVars, vaultOwner, exposure>>

-----------------------------------------------------------------------------
(* ValtideRiskGuard                                                        *)

(* setPolicy stores under msg.sender, here the policy owner o.             *)
StorePolicy(o, pair, policy) ==
  /\ policy.maxAge # 0
  /\ policies' = [policies EXCEPT ![o][pair] = policy]
  /\ configured' = [configured EXCEPT ![o][pair] = TRUE]

(* Any account may keep a policy of its own, for any pair.                 *)
SetPolicy(caller, pair, policy) ==
  /\ StorePolicy(caller, pair, policy)
  /\ UNCHANGED <<now, registryVars, vaultOwner, exposure>>

(* Mutant: the age is measured from the publication.                       *)
IsFreshSincePublication(attestation, maxAge) ==
  /\ now <= attestation.validUntil
  /\ now > attestation.publishedAt => now - attestation.publishedAt <= maxAge

(* _isFresh: both the attested validity and the policy's maxAge, which is  *)
(* measured from observedAt.                                               *)
IsFresh(attestation, maxAge) ==
  /\ now <= attestation.validUntil
  /\ now > attestation.observedAt => now - attestation.observedAt <= maxAge

ActionFor(evidence, policy) ==
  CASE evidence = "SUPPORTED"    -> policy.onSupported
    [] evidence = "INCONCLUSIVE" -> policy.onInconclusive
    [] OTHER                     -> policy.onChallenged

(* Mutant: the action of a stale attestation is that of its state.         *)
EvaluateForIgnoringAge(o, pair) ==
  LET policy == policies[o][pair]
      att    == latest[pair]
  IN [evidenceState |-> IF hasAttestation[pair] THEN att.evidenceState ELSE "INCONCLUSIVE",
      policyAction  |-> IF hasAttestation[pair] THEN ActionFor(att.evidenceState, policy)
                        ELSE policy.onStale,
      exists        |-> hasAttestation[pair],
      fresh         |-> hasAttestation[pair] /\ IsFresh(att, policy.maxAge)]

(* evaluateFor, defined when the policy is configured (it reverts with     *)
(* PolicyNotConfigured otherwise).                                         *)
EvaluateFor(o, pair) ==
  LET policy == policies[o][pair]
      att    == latest[pair]
      fresh  == hasAttestation[pair] /\ IsFresh(att, policy.maxAge)
  IN [evidenceState |-> IF hasAttestation[pair] THEN att.evidenceState ELSE "INCONCLUSIVE",
      policyAction  |-> IF fresh THEN ActionFor(att.evidenceState, policy) ELSE policy.onStale,
      exists        |-> hasAttestation[pair],
      fresh         |-> fresh]

-----------------------------------------------------------------------------
(* DemoCollateralVault                                                     *)

(* configurePolicy is onlyOwner and stores under the vault's own address.  *)
ConfigurePolicy(caller, v, policy) ==
  /\ caller = vaultOwner[v]
  /\ StorePolicy(v, VaultPair[v], policy)
  /\ UNCHANGED <<now, registryVars, vaultOwner, exposure>>

Permissive(action) == action \in {"ALLOW", "MONITOR"}

(* requestNewExposure of a non-zero amount; a restrictive action reverts.  *)
RequestNewExposure(v) ==
  LET eval == EvaluateFor(v, VaultPair[v]) IN
  /\ configured[v][VaultPair[v]]
  /\ Permissive(eval.policyAction)
  /\ exposure' = [exposure EXCEPT ![v] =
        [granted |-> TRUE, evidenceState |-> eval.evidenceState,
         policyAction |-> eval.policyAction, exists |-> eval.exists,
         fresh |-> eval.fresh, at |-> now]]
  /\ UNCHANGED <<now, registryVars, guardVars, vaultOwner>>

(* Ownable of a vault.                                                     *)
TransferVault(caller, v, newOwner) ==
  /\ caller = vaultOwner[v]
  /\ newOwner # NoAccount
  /\ vaultOwner' = [vaultOwner EXCEPT ![v] = newOwner]
  /\ UNCHANGED <<now, registryVars, guardVars, exposure>>

RenounceVault(caller, v) ==
  /\ caller = vaultOwner[v]
  /\ vaultOwner' = [vaultOwner EXCEPT ![v] = NoAccount]
  /\ UNCHANGED <<now, registryVars, guardVars, exposure>>

-----------------------------------------------------------------------------
(* Time passes between blocks.                                             *)
NextBlock ==
  /\ now < MaxTime
  /\ now' = now + 1
  /\ UNCHANGED <<registryVars, guardVars, vaultOwner, exposure>>

RegistryStep ==
  \E caller \in Account :
    \/ \E publisher \in Account \cup {NoAccount}, authorized \in BOOLEAN :
         SetPublisher(caller, publisher, authorized)
    \/ \E asset \in AssetId, input \in Input : PublishValidation(caller, asset, input)
    \/ \E newOwner \in Account \cup {NoAccount} : TransferOwnership(caller, newOwner)
    \/ RenounceOwnership(caller)

GuardStep ==
  \E caller \in Account, pair \in Pair, policy \in Policy : SetPolicy(caller, pair, policy)

VaultStep ==
  \E v \in Vault :
    \/ RequestNewExposure(v)
    \/ \E caller \in Account :
         \/ \E policy \in Policy : ConfigurePolicy(caller, v, policy)
         \/ \E newOwner \in Account \cup {NoAccount} : TransferVault(caller, v, newOwner)
         \/ RenounceVault(caller, v)

Next == NextBlock \/ RegistryStep \/ GuardStep \/ VaultStep

Spec == Init /\ [][Next]_vars

-----------------------------------------------------------------------------
(* Properties                                                              *)

TypeOK ==
  /\ now \in Time \ {0}
  /\ owner \in Account \cup {NoAccount}
  /\ isPublisher \in [Account -> BOOLEAN]
  /\ latest \in [Pair -> Attestation \cup {ZeroAttestation}]
  /\ hasAttestation \in [Pair -> BOOLEAN]
  /\ policies \in [PolicyOwner -> [Pair -> Policy \cup {ZeroPolicy}]]
  /\ configured \in [PolicyOwner -> [Pair -> BOOLEAN]]
  /\ vaultOwner \in [Vault -> Account \cup {NoAccount}]
  /\ exposure \in [Vault -> Event \cup {NoExposure}]

(* Every attestation a reader can get was observed before it was           *)
(* published, was published before its validity ended, and belongs to the  *)
(* pair it is filed under: publishValidation checks the first two against  *)
(* the clock of its own block, and they must survive every later one.      *)
AttestationCoherent ==
  \A p \in Pair :
    hasAttestation[p] =>
      /\ 0 < latest[p].observedAt
      /\ latest[p].observedAt <= latest[p].publishedAt
      /\ latest[p].publishedAt <= now
      /\ latest[p].publishedAt < latest[p].validUntil
      /\ latest[p].referenceId = p[2]

(* The registry's order is the market's: no transaction, by whichever      *)
(* publisher, moves a published pair back to an older observation or       *)
(* publication time, or makes it unpublished again.                        *)
NoRollback ==
  [][\A p \in Pair :
       hasAttestation[p] =>
         /\ hasAttestation'[p]
         /\ latest'[p].observedAt >= latest[p].observedAt
         /\ latest'[p].publishedAt >= latest[p].publishedAt]_vars

(* New exposure is never granted on evidence that is missing, out of its   *)
(* validity or observed more than maxAge ago, unless the vault's owner     *)
(* chose a permissive onStale; and when the evidence is current, only the  *)
(* action chosen for exactly that Evidence State lets it through.          *)
ExposureOnCurrentEvidence ==
  [][\A v \in Vault :
       exposure'[v] # exposure[v] =>
         LET policy == policies[v][VaultPair[v]]
             att    == latest[VaultPair[v]]
             current == /\ RegistryFresh(VaultPair[v])
                        /\ now <= att.observedAt + policy.maxAge
         IN IF current
              THEN Permissive([SUPPORTED    |-> policy.onSupported,
                               INCONCLUSIVE |-> policy.onInconclusive,
                               CHALLENGED   |-> policy.onChallenged][att.evidenceState])
              ELSE Permissive(policy.onStale)]_vars

(* Too old stays too old: once a pair's observation exceeds a policy       *)
(* owner's maxAge, only a newer observation or a new policy makes it fresh *)
(* for that owner.  A retry or correction of the same observation, with    *)
(* a later publishedAt and validUntil, does not (contracts/README.md, "a   *)
(* late publication cannot make an old market observation fresh").         *)
TooOldUntilNewObservation ==
  [][\A o \in PolicyOwner, p \in Pair :
       (/\ hasAttestation[p] /\ configured[o][p]
        /\ now > latest[p].observedAt + policies[o][p].maxAge
        /\ EvaluateFor(o, p)'.fresh) =>
         \/ latest'[p].observedAt > latest[p].observedAt
         \/ policies'[o][p] # policies[o][p]]_vars

(* The register readers rely on: ControlPlane implements it (checked where *)
(* publishers of several pairs write it, in Publisher).                    *)
Newest == [p \in Pair |-> IF hasAttestation[p] THEN latest[p].observedAt ELSE 0]

Register == INSTANCE ObservationRegister WITH newest <- Newest

ImplementsRegister == Register!Spec
=============================================================================
