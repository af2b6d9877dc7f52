------------------------- MODULE ControlPlaneProofs -------------------------
(***************************************************************************)
(* Proofs about ControlPlane for every set of accounts, vaults, pairs,     *)
(* quotes and policies and every bound on time.                            *)
(*                                                                         *)
(* TypeOK is inductive.  AttestationCoherent is inductive relative to it,  *)
(* and it is what the other results rest on: an attestation a reader can   *)
(* get has a non-zero observation time, so the abstract register's zero    *)
(* means "never published" and a first publication is an advance.          *)
(***************************************************************************)
EXTENDS ControlPlane, TLAPS

USE DEF EvidenceState, PolicyAction, Pair, PolicyOwner

(* The attestation that a valid input leaves in the registry is well       *)
(* formed, and coherent with the clock of its block.                       *)
LEMMA AttestedOK ==
  ASSUME now \in Time, NEW asset \in AssetId, NEW input \in Input,
         ValidInput(asset, input)
  PROVE  /\ input.referenceId \in ReferenceId
         /\ <<asset, input.referenceId>> \in Pair
         /\ Attested(input) \in Attestation
         /\ 0 < Attested(input).observedAt
         /\ Attested(input).observedAt <= Attested(input).publishedAt
         /\ Attested(input).publishedAt = now
         /\ Attested(input).publishedAt < Attested(input).validUntil
         /\ Attested(input).referenceId = input.referenceId
         /\ Attested(input).observedAt = input.observedAt
<1>1. input.referenceId \in ReferenceId
  BY DEF Input, ValidInput
<1>2. Attested(input) \in Attestation
  BY <1>1 DEF Input, Attested, Attestation
<1>3. /\ input.observedAt \in Nat /\ input.validUntil \in Nat /\ now \in Nat
  BY TimeAssumption DEF Input, Time, Deadline
<1>4. QED
  BY <1>1, <1>2, <1>3 DEF ValidInput, Attested

(* The state a transaction can reach is typed: TypeOK is inductive.        *)
LEMMA TypeInit == Init => TypeOK
<1> SUFFICES ASSUME Init PROVE TypeOK
  OBVIOUS
<1>1. now \in Time \ {0}
  BY TimeAssumption DEF Init, Time
<1>2. owner \in Account \cup {NoAccount} /\ vaultOwner \in [Vault -> Account \cup {NoAccount}]
  BY AccountAssumption DEF Init
<1>3. latest \in [Pair -> Attestation \cup {ZeroAttestation}]
  BY DEF Init
<1>4. policies \in [PolicyOwner -> [Pair -> Policy \cup {ZeroPolicy}]]
  BY DEF Init
<1>5. QED
  BY <1>1, <1>2, <1>3, <1>4 DEF Init, TypeOK

LEMMA StorePolicyType ==
  ASSUME TypeOK, NEW o \in PolicyOwner, NEW p \in Pair, NEW policy \in Policy,
         StorePolicy(o, p, policy)
  PROVE  /\ policies' \in [PolicyOwner -> [Pair -> Policy \cup {ZeroPolicy}]]
         /\ configured' \in [PolicyOwner -> [Pair -> BOOLEAN]]
BY DEF TypeOK, StorePolicy

LEMMA TypeStep == TypeOK /\ [Next]_vars => TypeOK'
<1> SUFFICES ASSUME TypeOK, [Next]_vars PROVE TypeOK'
  OBVIOUS
<1> USE DEF TypeOK
<1>1. ASSUME NEW caller \in Account, NEW publisher \in Account \cup {NoAccount},
             NEW authorized \in BOOLEAN, SetPublisher(caller, publisher, authorized)
      PROVE  TypeOK'
  BY <1>1 DEF SetPublisher, guardVars
<1>2. ASSUME NEW caller \in Account, NEW asset \in AssetId, NEW input \in Input,
             PublishValidation(caller, asset, input)
      PROVE  TypeOK'
  <2>1. ValidInput(asset, input) /\ now \in Time
    BY <1>2 DEF PublishValidation
  <2>2. /\ <<asset, input.referenceId>> \in Pair
        /\ Attested(input) \in Attestation
    BY <2>1, AttestedOK
  <2>3. /\ latest' \in [Pair -> Attestation \cup {ZeroAttestation}]
        /\ hasAttestation' \in [Pair -> BOOLEAN]
    BY <1>2, <2>2 DEF PublishValidation
  <2>4. QED
    BY <1>2, <2>3 DEF PublishValidation, guardVars
<1>3. ASSUME NEW caller \in Account, NEW newOwner \in Account \cup {NoAccount},
             TransferOwnership(caller, newOwner)
      PROVE  TypeOK'
  BY <1>3 DEF TransferOwnership, guardVars
<1>4. ASSUME NEW caller \in Account, RenounceOwnership(caller) PROVE TypeOK'
  BY <1>4 DEF RenounceOwnership, guardVars
<1>5. ASSUME NEW caller \in Account, NEW p \in Pair, NEW policy \in Policy,
             SetPolicy(caller, p, policy)
      PROVE  TypeOK'
  <2>1. /\ policies' \in [PolicyOwner -> [Pair -> Policy \cup {ZeroPolicy}]]
        /\ configured' \in [PolicyOwner -> [Pair -> BOOLEAN]]
    BY <1>5, StorePolicyType DEF SetPolicy
  <2>2. QED
    BY <1>5, <2>1 DEF SetPolicy, registryVars
<1>6. ASSUME NEW v \in Vault, RequestNewExposure(v) PROVE TypeOK'
  <2> DEFINE eval == EvaluateFor(v, VaultPair[v])
             policy == policies[v][VaultPair[v]]
             att == latest[VaultPair[v]]
  <2>1. v \in PolicyOwner /\ VaultPair[v] \in Pair
    BY IdAssumption
  <2>2. /\ eval.exists = hasAttestation[VaultPair[v]] /\ eval.exists \in BOOLEAN
        /\ eval.exists => att \in Attestation \cup {ZeroAttestation}
    BY <2>1 DEF EvaluateFor
  <2>3. eval.evidenceState \in EvidenceState
    BY <2>1, <2>2 DEF EvaluateFor, Attestation, ZeroAttestation
  <2>4. eval.policyAction \in PolicyAction
    BY <1>6 DEF RequestNewExposure, Permissive
  <2>5. eval.fresh \in BOOLEAN
    BY <2>1 DEF EvaluateFor, IsFresh
  <2>6. [granted |-> TRUE, evidenceState |-> eval.evidenceState,
         policyAction |-> eval.policyAction, exists |-> eval.exists,
         fresh |-> eval.fresh, at |-> now] \in Event
    BY <2>2, <2>3, <2>4, <2>5 DEF Event
  <2>7. exposure' \in [Vault -> Event \cup {NoExposure}]
    BY <1>6, <2>6 DEF RequestNewExposure
  <2>8. QED
    BY <1>6, <2>7 DEF RequestNewExposure, registryVars, guardVars
<1>7. ASSUME NEW v \in Vault, NEW caller \in Account, NEW policy \in Policy,
             ConfigurePolicy(caller, v, policy)
      PROVE  TypeOK'
  <2>1. v \in PolicyOwner /\ VaultPair[v] \in Pair
    BY IdAssumption
  <2>2. /\ policies' \in [PolicyOwner -> [Pair -> Policy \cup {ZeroPolicy}]]
        /\ configured' \in [PolicyOwner -> [Pair -> BOOLEAN]]
    BY <1>7, <2>1, StorePolicyType DEF ConfigurePolicy
  <2>3. QED
    BY <1>7, <2>2 DEF ConfigurePolicy, registryVars
<1>8. ASSUME NEW v \in Vault, NEW caller \in Account, NEW newOwner \in Account \cup {NoAccount},
             TransferVault(caller, v, newOwner)
      PROVE  TypeOK'
  BY <1>8 DEF TransferVault, registryVars, guardVars
<1>9. ASSUME NEW v \in Vault, NEW caller \in Account, RenounceVault(caller, v) PROVE TypeOK'
  BY <1>9 DEF RenounceVault, registryVars, guardVars
<1>10. CASE NextBlock
  <2>1. now' \in Time \ {0}
    BY <1>10, TimeAssumption DEF NextBlock, Time
  <2>2. QED
    BY <1>10, <2>1 DEF NextBlock, registryVars, guardVars
<1>11. CASE UNCHANGED vars
  BY <1>11 DEF vars
<1> HIDE DEF TypeOK
<1>12. QED
  BY <1>1, <1>2, <1>3, <1>4, <1>5, <1>6, <1>7, <1>8, <1>9, <1>10, <1>11
  DEF Next, RegistryStep, GuardStep, VaultStep

(* Type correctness of the three contracts.                                *)
THEOREM TypeCorrect == Spec => []TypeOK
BY TypeInit, TypeStep, PTL DEF Spec

-----------------------------------------------------------------------------
(* The registry's own variables change in publishValidation only.          *)
LEMMA RegistryChanges ==
  ASSUME [Next]_vars
  PROVE  \/ UNCHANGED <<latest, hasAttestation>>
         \/ \E caller \in Account, asset \in AssetId, input \in Input :
              PublishValidation(caller, asset, input)
BY DEF Next, RegistryStep, GuardStep, VaultStep, NextBlock, SetPublisher, TransferOwnership,
       RenounceOwnership, SetPolicy, RequestNewExposure, ConfigurePolicy, TransferVault,
       RenounceVault, registryVars, guardVars, vars

LEMMA TimeAdvances == TypeOK /\ [Next]_vars => now' >= now /\ now' \in Nat /\ now \in Nat
<1> SUFFICES ASSUME TypeOK, [Next]_vars PROVE now' >= now /\ now' \in Nat /\ now \in Nat
  OBVIOUS
<1>1. now \in Nat
  BY TimeAssumption DEF TypeOK, Time
<1>2. now' = now \/ now' = now + 1
  BY DEF Next, RegistryStep, GuardStep, VaultStep, NextBlock, SetPublisher, PublishValidation,
         TransferOwnership, RenounceOwnership, SetPolicy, RequestNewExposure, ConfigurePolicy,
         TransferVault, RenounceVault, vars
<1>3. QED
  BY <1>1, <1>2

LEMMA CoherentStep ==
  TypeOK /\ AttestationCoherent /\ [Next]_vars => AttestationCoherent'
<1> SUFFICES ASSUME TypeOK, AttestationCoherent, [Next]_vars, NEW p \in Pair, hasAttestation'[p]
             PROVE  /\ 0 < latest'[p].observedAt
                    /\ latest'[p].observedAt <= latest'[p].publishedAt
                    /\ latest'[p].publishedAt <= now'
                    /\ latest'[p].publishedAt < latest'[p].validUntil
                    /\ latest'[p].referenceId = p[2]
  BY DEF AttestationCoherent
<1>1. now' >= now /\ now \in Nat /\ now' \in Nat
  BY TimeAdvances
<1>2. ASSUME UNCHANGED <<latest[p], hasAttestation[p]>>
      PROVE  /\ 0 < latest'[p].observedAt
             /\ latest'[p].observedAt <= latest'[p].publishedAt
             /\ latest'[p].publishedAt <= now'
             /\ latest'[p].publishedAt < latest'[p].validUntil
             /\ latest'[p].referenceId = p[2]
  <2>1. latest[p].publishedAt \in Nat
    BY TimeAssumption DEF TypeOK, Attestation, ZeroAttestation, Time
  <2>2. QED
    BY <1>1, <1>2, <2>1 DEF AttestationCoherent
<1>3. ASSUME NEW caller \in Account, NEW asset \in AssetId, NEW input \in Input,
             PublishValidation(caller, asset, input)
      PROVE  /\ 0 < latest'[p].observedAt
             /\ latest'[p].observedAt <= latest'[p].publishedAt
             /\ latest'[p].publishedAt <= now'
             /\ latest'[p].publishedAt < latest'[p].validUntil
             /\ latest'[p].referenceId = p[2]
  <2> DEFINE q == <<asset, input.referenceId>>
  <2>1. ValidInput(asset, input) /\ now \in Time /\ now' = now
    BY <1>3 DEF PublishValidation, TypeOK
  <2>2. CASE p = q
    <3>1. latest'[p] = Attested(input) /\ p[2] = input.referenceId
      BY <1>3, <2>2, <2>1, AttestedOK DEF PublishValidation, TypeOK
    <3>2. QED
      BY <3>1, <2>1, <1>1, AttestedOK
  <2>3. CASE p # q
    <3>1. UNCHANGED <<latest[p], hasAttestation[p]>>
      BY <1>3, <2>3 DEF PublishValidation, TypeOK
    <3>2. QED
      BY <3>1, <1>2
  <2>4. QED
    BY <2>2, <2>3
<1>4. QED
  BY <1>2, <1>3, RegistryChanges

LEMMA Invariance == Spec => [](TypeOK /\ AttestationCoherent)
<1>1. Init => TypeOK /\ AttestationCoherent
  BY TypeInit DEF Init, AttestationCoherent
<1>2. TypeOK /\ AttestationCoherent /\ [Next]_vars => (TypeOK /\ AttestationCoherent)'
  BY TypeStep, CoherentStep
<1>3. QED
  BY <1>1, <1>2, PTL DEF Spec

(* Every attestation that a reader gets was observed, then published,      *)
(* inside its own validity window, by the clock of the registry.           *)
THEOREM CoherentAttestations == Spec => []AttestationCoherent
BY Invariance, PTL

-----------------------------------------------------------------------------
(* One transaction never moves a published pair back.                      *)
LEMMA StepNoRollback ==
  ASSUME TypeOK, AttestationCoherent, [Next]_vars, NEW p \in Pair, hasAttestation[p]
  PROVE  /\ hasAttestation'[p]
         /\ latest'[p].observedAt >= latest[p].observedAt
         /\ latest'[p].publishedAt >= latest[p].publishedAt
<1>1. /\ latest[p].observedAt \in Nat /\ latest[p].publishedAt \in Nat /\ now \in Nat
  BY TimeAssumption DEF TypeOK, Attestation, ZeroAttestation, Time
<1>2. CASE UNCHANGED <<latest, hasAttestation>>
  BY <1>1, <1>2
<1>3. ASSUME NEW caller \in Account, NEW asset \in AssetId, NEW input \in Input,
             PublishValidation(caller, asset, input)
      PROVE  /\ hasAttestation'[p]
             /\ latest'[p].observedAt >= latest[p].observedAt
             /\ latest'[p].publishedAt >= latest[p].publishedAt
  <2> DEFINE q == <<asset, input.referenceId>>
  <2>1. ValidInput(asset, input) /\ now \in Time /\ NotRollback(q, input)
    BY <1>3 DEF PublishValidation, TypeOK
  <2>2. /\ q \in Pair
        /\ Attested(input).observedAt = input.observedAt
        /\ Attested(input).publishedAt = now
    BY <2>1, AttestedOK
  <2>3. CASE p = q
    <3>1. latest'[p] = Attested(input) /\ hasAttestation'[p]
      BY <1>3, <2>2, <2>3 DEF PublishValidation, TypeOK
    <3>2. input.observedAt >= latest[p].observedAt
      BY <2>1, <2>3 DEF NotRollback
    <3>3. latest[p].publishedAt <= now
      BY DEF AttestationCoherent
    <3>4. QED
      BY <1>1, <2>2, <3>1, <3>2, <3>3
  <2>4. CASE p # q
    <3>1. UNCHANGED <<latest[p], hasAttestation[p]>>
      BY <1>3, <2>4 DEF PublishValidation, TypeOK
    <3>2. QED
      BY <1>1, <3>1
  <2>5. QED
    BY <2>3, <2>4
<1>4. QED
  BY <1>2, <1>3, RegistryChanges

(* Published evidence never goes back, in observation or in publication    *)
(* time, whoever is authorized to publish and in whatever order their      *)
(* transactions are mined.                                                 *)
THEOREM NeverRollsBack == Spec => NoRollback
<1>1. TypeOK /\ AttestationCoherent /\ [Next]_vars =>
        [\A p \in Pair : hasAttestation[p] =>
           /\ hasAttestation'[p]
           /\ latest'[p].observedAt >= latest[p].observedAt
           /\ latest'[p].publishedAt >= latest[p].publishedAt]_vars
  BY StepNoRollback
<1>2. QED
  BY <1>1, Invariance, PTL DEF Spec, NoRollback

-----------------------------------------------------------------------------
(* The guard's freshness, for any policy that an owner may have stored.    *)
LEMMA PolicyValues ==
  ASSUME TypeOK, NEW o \in PolicyOwner, NEW p \in Pair
  PROVE  /\ policies[o][p].maxAge \in Nat
         /\ latest[p].observedAt \in Nat
         /\ latest[p].validUntil \in Nat
         /\ now \in Nat
<1>1. policies[o][p] \in Policy \cup {ZeroPolicy}
  BY DEF TypeOK
<1>2. policies[o][p].maxAge \in Nat
  BY <1>1, PolicyAssumption DEF ZeroPolicy
<1>3. latest[p] \in Attestation \cup {ZeroAttestation}
  BY DEF TypeOK
<1>4. QED
  BY <1>2, <1>3, TimeAssumption DEF TypeOK, Attestation, ZeroAttestation, Time, Deadline

LEMMA FreshMeans ==
  ASSUME TypeOK, NEW o \in PolicyOwner, NEW p \in Pair
  PROVE  EvaluateFor(o, p).fresh <=>
           /\ RegistryFresh(p)
           /\ now <= latest[p].observedAt + policies[o][p].maxAge
<1>1. hasAttestation[p] \in BOOLEAN
  BY DEF TypeOK
<1>2. EvaluateFor(o, p).fresh = (hasAttestation[p] /\ IsFresh(latest[p], policies[o][p].maxAge))
  BY DEF EvaluateFor
<1>3. IsFresh(latest[p], policies[o][p].maxAge) <=>
        /\ now <= latest[p].validUntil
        /\ now <= latest[p].observedAt + policies[o][p].maxAge
  BY PolicyValues DEF IsFresh
<1>4. QED
  BY <1>1, <1>2, <1>3 DEF RegistryFresh

(* The same in the next state.                                             *)
FreshByClock ==
  \A o \in PolicyOwner, p \in Pair :
    EvaluateFor(o, p).fresh =>
      /\ now <= latest[p].validUntil
      /\ now <= latest[p].observedAt + policies[o][p].maxAge

LEMMA FreshMeansNext == TypeOK' => FreshByClock'
<1>1. TypeOK => FreshByClock
  BY FreshMeans DEF FreshByClock, RegistryFresh
<1>2. QED
  BY <1>1, PTL

-----------------------------------------------------------------------------
LEMMA ExposureStep ==
  ASSUME TypeOK, [Next]_vars, NEW v \in Vault, exposure'[v] # exposure[v]
  PROVE  RequestNewExposure(v)
<1>1. PICK w \in Vault : RequestNewExposure(w)
  BY DEF Next, RegistryStep, GuardStep, VaultStep, NextBlock, SetPublisher, PublishValidation,
         TransferOwnership, RenounceOwnership, SetPolicy, ConfigurePolicy, TransferVault,
         RenounceVault, vars
<1>2. w = v
  BY <1>1 DEF RequestNewExposure, TypeOK
<1>3. QED
  BY <1>1, <1>2

LEMMA ActionForState ==
  ASSUME NEW policy, NEW evidence \in EvidenceState
  PROVE  ActionFor(evidence, policy) =
           [SUPPORTED    |-> policy.onSupported,
            INCONCLUSIVE |-> policy.onInconclusive,
            CHALLENGED   |-> policy.onChallenged][evidence]
<1>1. CASE evidence = "SUPPORTED"
  BY <1>1 DEF ActionFor
<1>2. CASE evidence = "INCONCLUSIVE"
  BY <1>2 DEF ActionFor
<1>3. CASE evidence = "CHALLENGED"
  BY <1>3 DEF ActionFor
<1>4. QED
  BY <1>1, <1>2, <1>3

(* A vault's exposure passes the action that its policy assigns to the     *)
(* current Evidence State, or its stale action when nothing is current.    *)
THEOREM ExposureGated == Spec => ExposureOnCurrentEvidence
<1> DEFINE Gate(v) ==
      LET policy == policies[v][VaultPair[v]]
          att    == latest[VaultPair[v]]
          current == /\ RegistryFresh(VaultPair[v])
                     /\ now <= att.observedAt + policy.maxAge
      IN IF current
           THEN Permissive([SUPPORTED    |-> policy.onSupported,
                            INCONCLUSIVE |-> policy.onInconclusive,
                            CHALLENGED   |-> policy.onChallenged][att.evidenceState])
           ELSE Permissive(policy.onStale)
<1>1. ASSUME TypeOK, [Next]_vars, NEW v \in Vault, exposure'[v] # exposure[v]
      PROVE  Gate(v)
  <2> DEFINE p == VaultPair[v]
             policy == policies[v][p]
             fresh == EvaluateFor(v, p).fresh
  <2>1. v \in PolicyOwner /\ p \in Pair
    BY IdAssumption
  <2>2. RequestNewExposure(v)
    BY <1>1, ExposureStep
  <2>3. Permissive(IF fresh THEN ActionFor(latest[p].evidenceState, policy) ELSE policy.onStale)
    BY <2>2 DEF RequestNewExposure, EvaluateFor
  <2>4. latest[p].evidenceState \in EvidenceState
    BY <1>1, <2>1 DEF TypeOK, Attestation, ZeroAttestation
  <2>5. fresh <=> /\ RegistryFresh(p)
                  /\ now <= latest[p].observedAt + policy.maxAge
    BY <1>1, <2>1, FreshMeans
  <2>6. CASE fresh
    BY <2>3, <2>4, <2>5, <2>6, ActionForState
  <2>7. CASE ~fresh
    BY <2>3, <2>5, <2>7
  <2>8. QED
    BY <2>6, <2>7
<1>2. TypeOK /\ [Next]_vars => [\A v \in Vault : exposure'[v] # exposure[v] => Gate(v)]_vars
  BY <1>1
<1>3. QED
  BY <1>2, TypeCorrect, PTL DEF Spec, ExposureOnCurrentEvidence

(* A late publication cannot make an old observation fresh.                *)
THEOREM StaysTooOld == Spec => TooOldUntilNewObservation
<1>1. ASSUME TypeOK, TypeOK', AttestationCoherent, [Next]_vars, NEW o \in PolicyOwner,
             NEW p \in Pair, hasAttestation[p],
             now > latest[p].observedAt + policies[o][p].maxAge,
             EvaluateFor(o, p)'.fresh,
             policies'[o][p] = policies[o][p]
      PROVE  latest'[p].observedAt > latest[p].observedAt
  <2>1. now' <= latest'[p].observedAt + policies'[o][p].maxAge
    BY <1>1, FreshMeansNext DEF FreshByClock
  <2>2. now' >= now
    BY <1>1, TimeAdvances
  <2>3. latest'[p].observedAt \in Nat /\ now' \in Nat
    BY <1>1, TimeAssumption DEF TypeOK, Attestation, ZeroAttestation, Time
  <2>4. /\ policies[o][p].maxAge \in Nat /\ latest[p].observedAt \in Nat /\ now \in Nat
    BY <1>1, PolicyValues
  <2>5. QED
    BY <1>1, <2>1, <2>2, <2>3, <2>4
<1>2. TypeOK /\ TypeOK' /\ AttestationCoherent /\ [Next]_vars =>
        [\A o \in PolicyOwner, p \in Pair :
           (/\ hasAttestation[p] /\ configured[o][p]
            /\ now > latest[p].observedAt + policies[o][p].maxAge
            /\ EvaluateFor(o, p)'.fresh) =>
             \/ latest'[p].observedAt > latest[p].observedAt
             \/ policies'[o][p] # policies[o][p]]_vars
  BY <1>1
<1>3. QED
  BY <1>2, Invariance, PTL DEF Spec, TooOldUntilNewObservation

-----------------------------------------------------------------------------
(* ControlPlane implements ObservationRegister.                            *)
LEMMA NewestType ==
  ASSUME TypeOK, NEW p \in Pair
  PROVE  Newest[p] \in Nat
BY TimeAssumption DEF TypeOK, Newest, Attestation, ZeroAttestation, Time

LEMMA RegisterStep ==
  TypeOK /\ TypeOK' /\ AttestationCoherent /\ [Next]_vars => [Register!Next]_Newest
<1> SUFFICES ASSUME TypeOK, TypeOK', AttestationCoherent, [Next]_vars, Newest' # Newest
             PROVE  \E p \in Pair : Register!Advance(p)
  BY DEF Register!Next
<1>1. PICK caller \in Account, asset \in AssetId, input \in Input :
        PublishValidation(caller, asset, input)
  BY RegistryChanges DEF Newest
<1> DEFINE q == <<asset, input.referenceId>>
<1>2. ValidInput(asset, input) /\ now \in Time
  BY <1>1 DEF PublishValidation, TypeOK
<1>3. q \in Pair /\ Attested(input).observedAt = input.observedAt /\ 0 < input.observedAt
  BY <1>2, AttestedOK
<1>4. /\ latest' = [latest EXCEPT ![q] = Attested(input)]
      /\ hasAttestation' = [hasAttestation EXCEPT ![q] = TRUE]
      /\ NotRollback(q, input)
  BY <1>1 DEF PublishValidation
<1>5. Newest'[q] = input.observedAt
  BY <1>3, <1>4 DEF Newest, TypeOK
<1>6. \A p \in Pair : p # q => Newest'[p] = Newest[p]
  BY <1>4 DEF Newest, TypeOK
<1>7. Newest'[q] \in Nat /\ Newest[q] \in Nat
  <2>1. Newest[q] \in Nat
    BY <1>3, NewestType
  <2>2. QED
    BY <1>5, <1>3, <2>1, TimeAssumption DEF Input, Time
<1>8. Newest'[q] >= Newest[q]
  BY <1>3, <1>4, <1>5, <1>7 DEF Newest, NotRollback
<1>9. Newest' = [Newest EXCEPT ![q] = Newest'[q]]
  BY <1>6, <1>3 DEF Newest
<1>10. Newest'[q] # Newest[q]
  BY <1>9 DEF Newest
<1>11. Register!Advance(q)
  BY <1>7, <1>8, <1>9, <1>10 DEF Register!Advance
<1>12. QED
  BY <1>11, <1>3

(* Whatever the accounts do, readers of the control plane see the abstract *)
(* register: one observation time per pair, which only moves forward.      *)
THEOREM Implements == Spec => ImplementsRegister
<1>1. Init => Register!Init
  BY DEF Init, Register!Init, Newest
<1>2. TypeOK /\ TypeOK' /\ AttestationCoherent /\ [Next]_vars => [Register!Next]_Newest
  BY RegisterStep
<1>3. QED
  BY <1>1, <1>2, Invariance, PTL DEF Spec, ImplementsRegister, Register!Spec
=============================================================================
