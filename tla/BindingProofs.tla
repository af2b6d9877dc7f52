----------------------------- MODULE BindingProofs -----------------------------
(***************************************************************************)
(* What rests on a binding: that nothing is published or reported under    *)
(* another asset's, and that the enforcement check tells the truth,        *)
(* whatever becomes of manifest, settings and build while a call is under  *)
(* way.  A call keeps the configuration it resolved, so the invariant is   *)
(* about what each place of a call has established of that.                *)
(***************************************************************************)
EXTENDS Binding, TLAPS

(* A deployed vault of the asset, under the shared guard.                  *)
Sound(v, a) == v \in code \cap Linked /\ VaultPair[v] = PairOf(a)

Filed ==
  \A p \in Chain!Pair :
    hasAttestation[p] =>
      \E r \in Result : /\ p = PairOf(r.asset)
                        /\ latest[p].quote = r.input.quote
                        /\ latest[p].observedAt = r.input.observedAt

(* What a thread has established where it is.                              *)
Publishing(k) ==
  /\ k = [pc |-> k.pc, result |-> k.result, config |-> k.config]
  /\ k.result \in Result /\ k.config.asset = k.result.asset

Fits(k) ==
  /\ k.pc \in {"preflight", "write", "report"} => Publishing(k)
  /\ k.pc \in {"verify", "evaluate"} => k = [pc |-> k.pc, config |-> k.config]
  /\ k.pc \in {"preflight", "write", "report", "verify", "evaluate", "request"} =>
       k.config.pair = PairOf(k.config.asset)
  /\ k.pc \in {"write", "report", "evaluate", "request"} => Sound(k.config.vault, k.config.asset)
  /\ k.pc = "published" => Sound(k.vault, k.asset)

IInv ==
  /\ latest = [p \in Chain!Pair |-> latest[p]]
  /\ hasAttestation = [p \in Chain!Pair |-> hasAttestation[p]]
  /\ Filed
  /\ call = [c \in Call |-> call[c]]
  /\ \A c \in Call : Fits(call[c])

-----------------------------------------------------------------------------
(* Vaults are not undone, so what a thread established stays true.         *)
LEMMA CallMoves ==
  ASSUME IInv, code \subseteq code', NEW c \in Call, NEW k, Fits(k),
         call' = [call EXCEPT ![c] = k]
  PROVE  /\ call' = [d \in Call |-> call'[d]]
         /\ \A d \in Call : Fits(call[d])'
<1>1. ASSUME NEW d \in Call
      PROVE  Fits(call'[d])
  BY DEF IInv
<1>2. ASSUME NEW d \in Call
      PROVE  Fits(call[d])'
  <2>. DEFINE to == call'[d]
  <2>1. Fits(to)
    BY <1>1
  <2>. QED
    BY <2>1 DEF Fits, Sound, Publishing, PairOf
<1>3. call' = [d \in Call |-> call'[d]]
  BY DEF IInv
<1>. QED
  BY <1>2, <1>3

(* A binding that resolves is of the asset's own pair.                     *)
LEMMA ResolvedPair ==
  ASSUME NEW a, Resolvable(a)
  PROVE  Config(a).asset = a /\ Config(a).pair = PairOf(a)
BY DEF Resolvable, Config, PairOf

LEMMA VerifiedIsSound ==
  ASSUME NEW config, Verified(config), config.pair = PairOf(config.asset)
  PROVE  Sound(config.vault, config.asset)
BY DEF Verified, Sound

LEMMA PublicationIsFiled ==
  ASSUME IInv, NEW r \in Result, NEW input,
         input = [r.input EXCEPT !.referenceId = RefOf[r.asset]],
         Chain!PublishValidation(Signer, IdOf[r.asset], input)
  PROVE  /\ latest' = [p \in Chain!Pair |-> latest'[p]]
         /\ hasAttestation' = [p \in Chain!Pair |-> hasAttestation'[p]]
         /\ Filed'
<1>. DEFINE own == PairOf(r.asset)
<1>1. /\ input.referenceId = RefOf[r.asset]
      /\ input.quote = r.input.quote /\ input.observedAt = r.input.observedAt
  BY ResultAssumption DEF Chain!Input
<1>2. own = <<IdOf[r.asset], input.referenceId>>
  BY <1>1 DEF PairOf
<1>. HIDE DEF own
<1>3. /\ latest' = [latest EXCEPT ![own] = Chain!Attested(input)]
      /\ hasAttestation' = [hasAttestation EXCEPT ![own] = TRUE]
  BY <1>2 DEF Chain!PublishValidation
<1>4. /\ latest' = [p \in Chain!Pair |-> latest'[p]]
      /\ hasAttestation' = [p \in Chain!Pair |-> hasAttestation'[p]]
  BY <1>3 DEF IInv
<1>5. ASSUME NEW p \in Chain!Pair, hasAttestation'[p]
      PROVE  \E q \in Result : /\ p = PairOf(q.asset)
                               /\ latest'[p].quote = q.input.quote
                               /\ latest'[p].observedAt = q.input.observedAt
  <2>1. CASE p = own
    <3>1. latest'[p] = Chain!Attested(input)
      BY <1>3, <2>1 DEF IInv
    <3>2. latest'[p].quote = r.input.quote /\ latest'[p].observedAt = r.input.observedAt
      BY <1>1, <3>1 DEF Chain!Attested
    <3>. QED
      BY <2>1, <3>2 DEF own
  <2>2. CASE p # own
    <3>1. latest'[p] = latest[p] /\ hasAttestation'[p] = hasAttestation[p]
      BY <1>3, <2>2 DEF IInv
    <3>. QED
      BY <1>5, <3>1 DEF IInv, Filed
  <2>. QED
    BY <2>1, <2>2
<1>6. Filed'
  BY <1>5 DEF Filed, PairOf
<1>. QED
  BY <1>4, <1>6

-----------------------------------------------------------------------------
(* A step of a thread that does not write.                                 *)
LEMMA ReadingKeeps ==
  ASSUME IInv, StepOnly, NEW c \in Call, NEW k, Fits(k), call' = [call EXCEPT ![c] = k]
  PROVE  IInv'
<1>1. UNCHANGED <<code, latest, hasAttestation>>
  BY DEF StepOnly, contractVars
<1>2. Filed'
  BY <1>1 DEF IInv, Filed, PairOf
<1>3. /\ call' = [d \in Call |-> call'[d]]
      /\ \A d \in Call : Fits(call[d])'
  BY <1>1, CallMoves
<1>. QED
  BY <1>1, <1>2, <1>3 DEF IInv

LEMMA RefuseKeeps == ASSUME IInv, StepOnly, NEW c \in Call, Refuse(c) PROVE IInv'
<1>1. Fits(Idle)
  BY DEF Fits, Idle
<1>. QED
  BY <1>1, ReadingKeeps DEF Refuse, Become

LEMMA PublishingKeeps ==
  ASSUME IInv, NEW c \in Call,
         \/ \E result \in Result : BeginPublish(c, result)
         \/ Preflight(c) \/ PublishFails(c) \/ Report(c)
  PROVE  IInv'
<1>1. ASSUME NEW result \in Result, BeginPublish(c, result)
      PROVE  IInv'
  <2>1. StepOnly
    BY <1>1 DEF BeginPublish
  <2>2. CASE Refuse(c)
    BY <2>1, <2>2, RefuseKeeps
  <2>3. CASE /\ Resolvable(result.asset)
             /\ Become(c, [pc |-> "preflight", result |-> result,
                           config |-> Config(result.asset)])
    <3>. DEFINE config == Config(result.asset)
                k == [pc |-> "preflight", result |-> result, config |-> config]
    <3>1. config.asset = result.asset /\ config.pair = PairOf(config.asset)
      BY <2>3, ResolvedPair
    <3>. HIDE DEF config
    <3>2. Fits(k)
      BY <3>1 DEF Fits, Publishing
    <3>3. call' = [call EXCEPT ![c] = k]
      BY <2>3 DEF Become, config
    <3>. HIDE DEF k
    <3>. QED
      BY <2>1, <3>2, <3>3, ReadingKeeps
  <2>. QED
    BY <1>1, <2>2, <2>3 DEF BeginPublish
<1>2. CASE Preflight(c)
  <2>1. StepOnly /\ call[c].pc = "preflight"
    BY <1>2 DEF Preflight, At
  <2>2. CASE Verified(call[c].config) /\ Goto(c, "write")
    <3>. DEFINE k == [call[c] EXCEPT !.pc = "write"]
    <3>1. Publishing(call[c]) /\ call[c].config.pair = PairOf(call[c].config.asset)
      BY <2>1 DEF IInv, Fits
    <3>2. k = [pc |-> "write", result |-> call[c].result, config |-> call[c].config]
      BY <3>1 DEF Publishing
    <3>3. Sound(call[c].config.vault, call[c].config.asset)
      BY <2>2, <3>1, VerifiedIsSound
    <3>4. call' = [call EXCEPT ![c] = k]
      BY <2>2 DEF Goto
    <3>. HIDE DEF k
    <3>5. Fits(k)
      BY <3>1, <3>2, <3>3 DEF Fits, Publishing
    <3>. QED
      BY <2>1, <3>4, <3>5, ReadingKeeps
  <2>. QED
    BY <1>2, <2>1, <2>2, RefuseKeeps DEF Preflight
<1>3. CASE PublishFails(c)
  BY <1>3, RefuseKeeps DEF PublishFails
<1>4. CASE Report(c)
  <2>. DEFINE a == call[c].config.asset
  <2>1. StepOnly
    BY <1>4 DEF Report
  <2>2. CASE /\ Resolvable(a) /\ Verified(Config(a))
             /\ Become(c, [pc |-> "published", asset |-> a, vault |-> Config(a).vault])
    <3>. DEFINE k == [pc |-> "published", asset |-> a, vault |-> Config(a).vault]
    <3>1. Config(a).asset = a /\ Config(a).pair = PairOf(a)
      BY <2>2, ResolvedPair
    <3>2. Sound(Config(a).vault, a)
      BY <2>2, <3>1, VerifiedIsSound
    <3>3. Fits(k) /\ call' = [call EXCEPT ![c] = k]
      BY <2>2, <3>2 DEF Fits, Become
    <3>. HIDE DEF k
    <3>. QED
      BY <2>1, <3>3, ReadingKeeps
  <2>. QED
    BY <1>4, <2>1, <2>2, RefuseKeeps DEF Report
<1>. QED
  BY <1>1, <1>2, <1>3, <1>4

LEMMA CheckingKeeps ==
  ASSUME IInv, NEW c \in Call,
         \/ \E a \in Asset : BeginCheck(c, a)
         \/ VerifyCheck(c) \/ Evaluate(c) \/ Request(c) \/ CheckFails(c)
  PROVE  IInv'
<1>1. StepOnly
  BY DEF BeginCheck, VerifyCheck, Evaluate, Request, CheckFails
<1>2. ASSUME NEW a \in Asset, Resolvable(a), Become(c, [pc |-> "verify", config |-> Config(a)])
      PROVE  IInv'
  <2>. DEFINE config == Config(a)
              k == [pc |-> "verify", config |-> config]
  <2>1. config.pair = PairOf(config.asset)
    BY <1>2, ResolvedPair
  <2>. HIDE DEF config
  <2>2. Fits(k)
    BY <2>1 DEF Fits
  <2>3. call' = [call EXCEPT ![c] = k]
    BY <1>2 DEF Become, config
  <2>. HIDE DEF k
  <2>. QED
    BY <1>1, <2>2, <2>3, ReadingKeeps
<1>3. CASE call[c].pc = "verify" /\ Verified(call[c].config) /\ Goto(c, "evaluate")
  <2>. DEFINE k == [call[c] EXCEPT !.pc = "evaluate"]
  <2>1. /\ call[c] = [pc |-> call[c].pc, config |-> call[c].config]
        /\ call[c].config.pair = PairOf(call[c].config.asset)
    BY <1>3 DEF IInv, Fits
  <2>2. k = [pc |-> "evaluate", config |-> call[c].config]
    BY <2>1
  <2>3. Sound(call[c].config.vault, call[c].config.asset)
    BY <1>3, <2>1, VerifiedIsSound
  <2>4. call' = [call EXCEPT ![c] = k]
    BY <1>3 DEF Goto
  <2>. HIDE DEF k
  <2>5. Fits(k)
    BY <2>1, <2>2, <2>3 DEF Fits
  <2>. QED
    BY <1>1, <2>4, <2>5, ReadingKeeps
<1>4. CASE Evaluate(c)
  <2>. DEFINE config == call[c].config
  <2>1. PICK e : call' = [call EXCEPT ![c] = [pc |-> "request", config |-> config,
                                              evaluation |-> e]]
    BY <1>4 DEF Evaluate, Become
  <2>. DEFINE k == [pc |-> "request", config |-> config, evaluation |-> e]
  <2>2. config.pair = PairOf(config.asset) /\ Sound(config.vault, config.asset)
    BY <1>4 DEF Evaluate, At, IInv, Fits
  <2>3. Fits(k) /\ call' = [call EXCEPT ![c] = k]
    BY <2>1, <2>2 DEF Fits
  <2>. HIDE DEF k
  <2>. QED
    BY <1>1, <2>3, ReadingKeeps
<1>5. CASE Request(c)
  <2>1. PICK pc \in {"passed", "refuted"} : call' = [call EXCEPT ![c] = [pc |-> pc]]
    BY <1>5 DEF Request, Become
  <2>. DEFINE k == [pc |-> pc]
  <2>2. Fits(k) /\ call' = [call EXCEPT ![c] = k]
    BY <2>1 DEF Fits
  <2>. HIDE DEF k
  <2>. QED
    BY <1>1, <2>2, ReadingKeeps
<1>. QED
  BY <1>1, <1>2, <1>3, <1>4, <1>5, RefuseKeeps DEF BeginCheck, VerifyCheck, CheckFails, At

LEMMA WriteKeeps == ASSUME IInv, NEW c \in Call, Write(c) PROVE IInv'
<1>. DEFINE config == call[c].config
            result == call[c].result
            k == [call[c] EXCEPT !.pc = "report"]
<1>1. /\ Publishing(call[c]) /\ config.pair = PairOf(config.asset)
      /\ Sound(config.vault, config.asset)
  BY DEF Write, At, IInv, Fits
<1>2. k = [pc |-> "report", result |-> result, config |-> config]
  BY <1>1 DEF Publishing
<1>3. call' = [call EXCEPT ![c] = k] /\ code' = code
  BY DEF Write, Goto
<1>. HIDE DEF k
<1>4. Fits(k)
  BY <1>1, <1>2 DEF Fits, Publishing
<1>5. /\ call' = [d \in Call |-> call'[d]]
      /\ \A d \in Call : Fits(call[d])'
  BY <1>3, <1>4, CallMoves
<1>6. CASE UNCHANGED contractVars
  BY <1>5, <1>6 DEF contractVars, IInv, Filed, PairOf
<1>7. CASE Chain!PublishValidation(Signer, config.pair[1], Candidate(config, result))
  <2>1. /\ result \in Result /\ config.pair = <<IdOf[result.asset], RefOf[result.asset]>>
    BY <1>1 DEF Publishing, PairOf
  <2>2. /\ Candidate(config, result) = [result.input EXCEPT !.referenceId = RefOf[result.asset]]
        /\ config.pair[1] = IdOf[result.asset]
    BY <2>1 DEF Candidate
  <2>. QED
    BY <1>5, <1>7, <2>1, <2>2, PublicationIsFiled DEF IInv
<1>. QED
  BY <1>6, <1>7 DEF Write

LEMMA OutsideKeeps ==
  ASSUME IInv, DeploymentStep \/ NextBlock \/ Restart \/ \E r \in Result : OtherPublication(r)
  PROVE  IInv'
<1>1. CASE Restart
  <2>1. UNCHANGED <<latest, hasAttestation>> /\ call' = [c \in Call |-> Idle]
    BY <1>1 DEF Restart, contractVars
  <2>2. \A c \in Call : Fits(call[c])'
    BY <2>1 DEF Fits, Idle
  <2>. QED
    BY <2>1, <2>2 DEF IInv, Filed, PairOf
<1>2. ASSUME call' = call, code \subseteq code'
      PROVE  \A c \in Call : Fits(call[c])'
  <2>. SUFFICES ASSUME NEW c \in Call PROVE Fits(call[c])'
    OBVIOUS
  <2>1. Fits(call'[c])
    BY <1>2 DEF IInv
  <2>. QED
    BY <1>2, <2>1 DEF Fits, Sound, Publishing, PairOf
<1>3. CASE DeploymentStep \/ NextBlock
  <2>1. UNCHANGED <<latest, hasAttestation, call>> /\ code \subseteq code'
    BY <1>3 DEF DeploymentStep, NextBlock, DeployVault, ConfigureVault, Capture, BuildManifest,
       EditManifest, Elsewhere, contractVars, Chain!NextBlock, Chain!ConfigurePolicy,
       Chain!registryVars
  <2>2. Filed'
    BY <2>1 DEF IInv, Filed, PairOf
  <2>. QED
    BY <1>2, <2>1, <2>2 DEF IInv
<1>4. ASSUME NEW r \in Result, OtherPublication(r)
      PROVE  IInv'
  <2>1. call' = call /\ code' = code
    BY <1>4 DEF OtherPublication, Elsewhere
  <2>2. Chain!PublishValidation(Signer, IdOf[r.asset],
          [r.input EXCEPT !.referenceId = RefOf[r.asset]])
    BY <1>4 DEF OtherPublication
  <2>. QED
    BY <1>2, <2>1, <2>2, PublicationIsFiled DEF IInv
<1>. QED
  BY <1>1, <1>3, <1>4

LEMMA NextKeepsIInv == ASSUME IInv, [Next]_vars PROVE IInv'
<1>1. ASSUME NEW c \in Call, ThreadStep(c)
      PROVE  IInv'
  BY <1>1, PublishingKeeps, WriteKeeps, CheckingKeeps DEF ThreadStep
<1>2. CASE UNCHANGED vars
  BY <1>2 DEF vars, contractVars, IInv, Filed, Fits, Sound, Publishing, PairOf
<1>. QED
  BY <1>1, <1>2, OutsideKeeps DEF Next

LEMMA InitIInv == ASSUME Init PROVE IInv
BY DEF Init, IInv, Filed, Fits, Idle

-----------------------------------------------------------------------------
(* An attestation is only ever of the asset whose pair it is filed under,  *)
(* and a receipt tells of a deployed vault of that asset, for any          *)
(* manifests, settings and builds that replace each other meanwhile.       *)
THEOREM NothingCrossesAssets == Spec => []NoCrossAssetPublish
<1>1. Init => IInv
  BY InitIInv
<1>2. IInv /\ [Next]_vars => IInv'
  BY NextKeepsIInv
<1>3. IInv => NoCrossAssetPublish
  BY DEF IInv, Filed, Fits, Sound, At, NoCrossAssetPublish
<1>. QED
  BY <1>1, <1>2, <1>3, PTL DEF Spec

(* The answer that ends an enforcement check is the vault's own, compared  *)
(* with what was reported of it.                                           *)
LEMMA VerdictIsTrue ==
  ASSUME IInv, [Next]_vars, NEW c \in Call, At(c, "request"),
         call'[c].pc \in {"passed", "refuted"}
  PROVE  LET config == call[c].config
             decided == Chain!EvaluateFor(config.vault, PairOf(config.asset))
         IN /\ config.vault \in Linked
            /\ VaultPair[config.vault] = PairOf(config.asset)
            /\ call'[c].pc = "passed" => Expected(call[c].evaluation, decided)
            /\ call'[c].pc = "refuted" => ~Expected(call[c].evaluation, decided)
<1>. DEFINE config == call[c].config
            evaluation == call[c].evaluation
            decided == Chain!EvaluateFor(config.vault, PairOf(config.asset))
<1>1. call[c].pc = "request" /\ Sound(config.vault, config.asset)
  BY DEF At, IInv, Fits
<1>2. ~Restart
  BY DEF Restart, Idle
<1>3. call' # call
  BY <1>1
<1>4. PICK d \in Call : ThreadStep(d)
  BY <1>2, <1>3 DEF Next, DeploymentStep, NextBlock, DeployVault, ConfigureVault, Capture,
     BuildManifest, EditManifest, Elsewhere, OtherPublication, vars
<1>5. d = c
  <2>1. \E k : call' = [call EXCEPT ![d] = k]
    BY <1>4 DEF ThreadStep, BeginPublish, Preflight, Write, Report, PublishFails, BeginCheck,
       VerifyCheck, Evaluate, Request, CheckFails, Refuse, Become, Goto
  <2>. QED
    BY <1>1, <2>1 DEF IInv
<1>6. Request(c) \/ CheckFails(c)
  BY <1>1, <1>4, <1>5 DEF ThreadStep, BeginPublish, Preflight, Write, Report, PublishFails,
     BeginCheck, VerifyCheck, Evaluate, Resting, At
<1>7. ~CheckFails(c)
  BY DEF CheckFails, Refuse, Become, Idle, IInv
<1>8. PICK reply \in Replies(config.vault) :
        call' = [call EXCEPT ![c] =
          [pc |-> IF Expected(evaluation, reply) THEN "passed" ELSE "refuted"]]
  BY <1>6, <1>7 DEF Request, Become
<1>9. reply = decided
  BY <1>1, <1>8 DEF Sound, Replies, Decision
<1>10. call'[c].pc = IF Expected(evaluation, decided) THEN "passed" ELSE "refuted"
  BY <1>8, <1>9 DEF IInv
<1>. QED
  BY <1>1, <1>10 DEF Sound

(* A vault that passes enforces what was reported when it was asked, and   *)
(* one that is refuted did not.                                            *)
THEOREM ChecksTellTheTruth == Spec => EnforcementIsReal
<1>1. Init => IInv
  BY InitIInv
<1>2. IInv /\ [Next]_vars => IInv'
  BY NextKeepsIInv
<1>. DEFINE Real ==
       \A c \in Call :
         LET config == call[c].config
             decided == Chain!EvaluateFor(config.vault, PairOf(config.asset))
         IN /\ (At(c, "request") /\ call'[c].pc = "passed") =>
                 /\ config.vault \in Linked
                 /\ VaultPair[config.vault] = PairOf(config.asset)
                 /\ decided.policyAction = call[c].evaluation.policyAction
                 /\ ~Chain!Permissive(decided.policyAction) => decided = call[c].evaluation
            /\ (At(c, "request") /\ call'[c].pc = "refuted") =>
                 decided # call[c].evaluation
<1>3. IInv /\ [Next]_vars => [Real]_vars
  BY VerdictIsTrue DEF Expected
<1>. QED
  BY <1>1, <1>2, <1>3, PTL DEF Spec, EnforcementIsReal

-----------------------------------------------------------------------------
(* Manifests that the tools made.                                          *)

(* A vault that stays verifiable: it is bound to its asset and its policy, *)
(* which can be changed, cannot be taken away.                             *)
Lasting(v, a) == v \in Vault /\ Sound(v, a) /\ configured[v][PairOf(a)]

(* The same after a step, of a vault that is named before it.              *)
StillLasting(v, a) ==
  /\ v \in Vault /\ v \in code' \cap Linked /\ VaultPair[v] = PairOf(a)
  /\ configured'[v][PairOf(a)]

BuiltOK ==
  /\ manifest.form = "assets" /\ manifest.contracts = "shared"
  /\ Bound(manifest) = Provisioned \cup {LegacyAsset}
  /\ NoVaultReused(manifest)
  /\ \A a \in Provisioned \cup {LegacyAsset} :
       /\ manifest.bindings[a].assetId = IdOf[a] /\ manifest.bindings[a].referenceId = RefOf[a]
       /\ manifest.bindings[a].version = Pinned[a]
  /\ \A a \in Provisioned : Lasting(manifest.bindings[a].vault, a)

ToolsInv ==
  /\ configured = [o \in Chain!PolicyOwner |-> [p \in Chain!Pair |-> configured[o][p]]]
  /\ receipt # NoReceipt => \A a \in Provisioned : Lasting(receipt.vaults[a], a)
  /\ built => BuiltOK

(* Vaults and their policies stay.                                         *)
LEMMA LastingStays ==
  ASSUME ToolsInv, [Next]_vars
  PROVE  /\ configured' = [o \in Chain!PolicyOwner |-> [p \in Chain!Pair |-> configured'[o][p]]]
         /\ \A v, a : Lasting(v, a) => StillLasting(v, a)
<1>1. code \subseteq code'
  BY DEF Next, ThreadStep, BeginPublish, Preflight, Write, Report, PublishFails, BeginCheck,
     VerifyCheck, Evaluate, Request, CheckFails, StepOnly, DeploymentStep, NextBlock, DeployVault,
     ConfigureVault, Capture, BuildManifest, EditManifest, Restart, OtherPublication, vars
<1>2. \/ UNCHANGED configured
      \/ \E v \in Vault : configured' = [configured EXCEPT ![v][VaultPair[v]] = TRUE]
  BY DEF Next, ThreadStep, BeginPublish, Preflight, Write, Report, PublishFails, BeginCheck,
     VerifyCheck, Evaluate, Request, CheckFails, StepOnly, DeploymentStep, NextBlock, DeployVault,
     ConfigureVault, Capture, BuildManifest, EditManifest, Restart, OtherPublication, vars,
     contractVars, Chain!PublishValidation, Chain!ConfigurePolicy, Chain!StorePolicy,
     Chain!NextBlock, Chain!guardVars
<1>3. /\ configured' = [o \in Chain!PolicyOwner |-> [p \in Chain!Pair |-> configured'[o][p]]]
      /\ \A o \in Chain!PolicyOwner, p \in Chain!Pair : configured[o][p] => configured'[o][p]
  <2>1. CASE UNCHANGED configured
    BY <2>1 DEF ToolsInv
  <2>2. ASSUME NEW v \in Vault, configured' = [configured EXCEPT ![v][VaultPair[v]] = TRUE]
        PROVE  /\ configured' = [o \in Chain!PolicyOwner |->
                                   [p \in Chain!Pair |-> configured'[o][p]]]
               /\ \A o \in Chain!PolicyOwner, p \in Chain!Pair :
                    configured[o][p] => configured'[o][p]
    <3>1. /\ DOMAIN configured = Chain!PolicyOwner
          /\ \A o \in Chain!PolicyOwner :
               configured[o] = [p \in Chain!Pair |-> configured[o][p]]
      BY DEF ToolsInv
    <3>2. configured' = [o \in Chain!PolicyOwner |->
                           IF o = v THEN [configured[v] EXCEPT ![VaultPair[v]] = TRUE]
                           ELSE configured[o]]
      BY <2>2, <3>1
    <3>. DEFINE new == [configured[v] EXCEPT ![VaultPair[v]] = TRUE]
    <3>3. v \in Chain!PolicyOwner
      BY DEF Chain!PolicyOwner
    <3>4. new = [p \in Chain!Pair |-> new[p]] /\ \A p \in Chain!Pair : configured[v][p] => new[p]
      BY <3>1, <3>3
    <3>. HIDE DEF new
    <3>5. \A o \in Chain!PolicyOwner : configured'[o] = IF o = v THEN new ELSE configured[o]
      BY <3>2 DEF new
    <3>6. \A o \in Chain!PolicyOwner : configured'[o] = [p \in Chain!Pair |-> configured'[o][p]]
      BY <3>1, <3>4, <3>5
    <3>7. configured' = [o \in Chain!PolicyOwner |-> configured'[o]]
      BY <3>2
    <3>8. \A o \in Chain!PolicyOwner, p \in Chain!Pair : configured[o][p] => configured'[o][p]
      BY <3>4, <3>5
    <3>. QED
      BY <3>6, <3>7, <3>8
  <2>. QED
    BY <1>2, <2>1, <2>2
<1>4. ASSUME NEW v, NEW a, Lasting(v, a)
      PROVE  StillLasting(v, a)
  <2>1. v \in Chain!PolicyOwner /\ PairOf(a) \in Chain!Pair
    BY <1>4, BindingAssumption DEF Lasting, Sound, Chain!PolicyOwner
  <2>. QED
    BY <1>1, <1>3, <1>4, <2>1 DEF Lasting, StillLasting, Sound
<1>. QED
  BY <1>3, <1>4

LEMMA CaptureIsLasting ==
  ASSUME NEW build, NEW creation \in [Provisioned -> Vault], NEW policyTarget,
         Capture(build, creation, policyTarget), NEW a \in Provisioned
  PROVE  Lasting(creation[a], a)
BY DEF Capture, ReceiptRecord, Lasting, Sound

LEMMA BuildIsOK ==
  ASSUME ToolsInv, NEW build \in Release, BuildManifest(build)
  PROVE  BuiltOK'
<1>. DEFINE demo == manifest.bindings[LegacyAsset]
            listed == Provisioned \cup {LegacyAsset}
            vaults == [a \in listed |-> IF a = LegacyAsset THEN demo.vault ELSE receipt.vaults[a]]
            bindings == [a \in listed |-> NewBinding(build, a, vaults[a])]
<1>1. /\ receipt # NoReceipt /\ \A a \in listed : build[a] = Pinned[a]
      /\ IsInjective(vaults)
      /\ manifest' = [form |-> "assets", contracts |-> "shared", bindings |-> bindings]
      /\ UNCHANGED <<configured, code>>
  BY DEF BuildManifest, contractVars
<1>2. \A a \in listed : /\ bindings[a].vault = vaults[a]
                         /\ bindings[a].assetId = IdOf[a] /\ bindings[a].referenceId = RefOf[a]
                         /\ bindings[a].version = Pinned[a]
  BY <1>1 DEF NewBinding
<1>3. DOMAIN bindings = listed /\ DOMAIN vaults = listed
  OBVIOUS
<1>4. \A a \in Provisioned : vaults[a] = receipt.vaults[a]
  BY BindingAssumption
<1>. HIDE DEF vaults, bindings, listed
<1>5. NoVaultReused(manifest')
  BY <1>1, <1>2, <1>3 DEF NoVaultReused, Bound, IsInjective
<1>6. \A a \in Provisioned : Lasting(bindings[a].vault, a)
  BY <1>1, <1>2, <1>4 DEF ToolsInv, listed
<1>7. \A a \in Provisioned : StillLasting(bindings[a].vault, a)
  BY <1>1, <1>6 DEF Lasting, StillLasting, Sound
<1>8. /\ manifest'.form = "assets" /\ manifest'.contracts = "shared"
      /\ manifest'.bindings = bindings /\ Bound(manifest') = listed
  BY <1>1, <1>3 DEF Bound
<1>. QED
  BY <1>2, <1>5, <1>7, <1>8
     DEF BuiltOK, listed, NoVaultReused, Bound, Lasting, StillLasting, Sound, PairOf

LEMMA NextKeepsTools == ASSUME ToolsInv, [Next]_vars PROVE ToolsInv'
<1>1. /\ configured' = [o \in Chain!PolicyOwner |-> [p \in Chain!Pair |-> configured'[o][p]]]
      /\ \A v, a : Lasting(v, a) => StillLasting(v, a)
  BY LastingStays
<1>2. receipt' # NoReceipt' => \A a \in Provisioned : StillLasting(receipt'.vaults[a], a)
  <2>1. \/ UNCHANGED receipt
        \/ \E build \in Release, creation, policyTarget \in [Provisioned -> Vault] :
             Capture(build, creation, policyTarget)
    BY DEF Next, ThreadStep, BeginPublish, Preflight, Write, Report, PublishFails, BeginCheck,
       VerifyCheck, Evaluate, Request, CheckFails, StepOnly, DeploymentStep, NextBlock,
       DeployVault, ConfigureVault, BuildManifest, EditManifest, Restart, OtherPublication, vars,
       fileVars
  <2>2. CASE UNCHANGED receipt
    BY <1>1, <2>2 DEF ToolsInv, NoReceipt
  <2>3. ASSUME NEW build \in Release, NEW creation \in [Provisioned -> Vault],
               NEW policyTarget \in [Provisioned -> Vault], Capture(build, creation, policyTarget)
        PROVE  \A a \in Provisioned : StillLasting(receipt'.vaults[a], a)
    <3>1. receipt'.vaults = creation
      BY <2>3 DEF Capture
    <3>. QED
      BY <1>1, <2>3, <3>1, CaptureIsLasting
  <2>. QED
    BY <2>1, <2>2, <2>3
<1>3. built' => BuiltOK'
  <2>1. \/ UNCHANGED <<manifest, built>>
        \/ \E build \in Release : BuildManifest(build)
        \/ ~built'
    BY DEF Next, ThreadStep, BeginPublish, Preflight, Write, Report, PublishFails, BeginCheck,
       VerifyCheck, Evaluate, Request, CheckFails, StepOnly, DeploymentStep, NextBlock,
       DeployVault, ConfigureVault, Capture, EditManifest, Restart, OtherPublication, vars,
       fileVars
  <2>2. CASE UNCHANGED <<manifest, built>>
    <3>1. built => \A a \in Provisioned : StillLasting(manifest'.bindings[a].vault, a)
      BY <1>1, <2>2 DEF ToolsInv, BuiltOK
    <3>2. built => \A a \in Provisioned : Lasting(manifest.bindings[a].vault, a)'
      BY <2>2, <3>1 DEF Lasting, StillLasting, Sound, PairOf
    <3>. QED
      BY <2>2, <3>2 DEF ToolsInv, BuiltOK, Bound, NoVaultReused
  <2>. QED
    BY <2>1, <2>2, BuildIsOK
<1>4. receipt' # NoReceipt' => \A a \in Provisioned : Lasting(receipt.vaults[a], a)'
  BY <1>2 DEF Lasting, StillLasting, Sound, PairOf
<1>. QED
  BY <1>1, <1>3, <1>4 DEF ToolsInv

LEMMA InitTools == ASSUME Init PROVE ToolsInv
BY DEF Init, ToolsInv

(* A manifest that the tools made serves the build it was made with, for   *)
(* any later change of policies, settings and other vaults.                *)
THEOREM BuiltManifestsServe == Spec => []BuiltManifestServes
<1>1. Init => ToolsInv
  BY InitTools
<1>2. ToolsInv /\ [Next]_vars => ToolsInv'
  BY NextKeepsTools
<1>3. ToolsInv => BuiltManifestServes
  <2>. SUFFICES ASSUME ToolsInv, built, NEW a \in Provisioned \cup {LegacyAsset},
                       release[a] = Pinned[a]
                PROVE  /\ Resolvable(a)
                       /\ (a \in Provisioned /\ override.contracts = "unset") => Verified(Config(a))
    BY DEF BuiltManifestServes
  <2>1. BuiltOK
    BY DEF ToolsInv
  <2>2. Resolvable(a)
    BY <2>1, PinnedAssumption DEF BuiltOK, Resolvable, Fitted
  <2>3. ASSUME a \in Provisioned, override.contracts = "unset"
        PROVE  Verified(Config(a))
    <3>1. /\ Config(a).contracts = "shared" /\ Config(a).vault = manifest.bindings[a].vault
          /\ Config(a).pair = PairOf(a)
      BY <2>1, <2>3 DEF BuiltOK, Config, Contracts, PairOf
    <3>2. Lasting(manifest.bindings[a].vault, a)
      BY <2>1, <2>3 DEF BuiltOK
    <3>. QED
      BY <3>1, <3>2 DEF Verified, Lasting, Sound
  <2>. QED
    BY <2>2, <2>3
<1>. QED
  BY <1>1, <1>2, <1>3, PTL DEF Spec

-----------------------------------------------------------------------------
(* The chain under the bindings.  Its history did not begin here, with a   *)
(* deployment and its five transactions behind it, but each of its steps   *)
(* is one of ControlPlane's, whose theorems then hold of it.               *)

LEMMA PublicationIsOfChain ==
  ASSUME NEW r \in Result, NEW input, input = [r.input EXCEPT !.referenceId = RefOf[r.asset]],
         Chain!PublishValidation(Signer, IdOf[r.asset], input)
  PROVE  Chain!Next
<1>1. IdOf[r.asset] \in AssetId /\ RefOf[r.asset] \in ReferenceId
  BY IdentityAssumption DEF PairOf, Chain!Pair
<1>2. input \in Chain!Input
  BY <1>1, ResultAssumption DEF Chain!Input
<1>. QED
  BY <1>1, <1>2, BindingAssumption DEF Chain!Next, Chain!RegistryStep

LEMMA StepIsOfChain == ASSUME IInv, [Next]_vars PROVE [Chain!Next]_Chain!vars
<1>1. ASSUME NEW c \in Call, Write(c)
      PROVE  [Chain!Next]_Chain!vars
  <2>. DEFINE config == call[c].config
              result == call[c].result
  <2>1. Publishing(call[c]) /\ config.pair = PairOf(config.asset)
    BY <1>1 DEF Write, At, IInv, Fits
  <2>2. /\ result \in Result
        /\ config.pair[1] = IdOf[result.asset] /\ config.pair[2] = RefOf[result.asset]
    BY <2>1 DEF Publishing, PairOf
  <2>3. \/ UNCHANGED contractVars
        \/ Chain!PublishValidation(Signer, config.pair[1], Candidate(config, result))
    BY <1>1 DEF Write
  <2>4. Candidate(config, result) = [result.input EXCEPT !.referenceId = RefOf[result.asset]]
    BY <2>2 DEF Candidate
  <2>5. CASE Chain!PublishValidation(Signer, config.pair[1], Candidate(config, result))
    <3>1. Chain!PublishValidation(Signer, IdOf[result.asset], Candidate(config, result))
      BY <2>2, <2>5
    <3>. QED
      BY <2>2, <2>4, <3>1, PublicationIsOfChain
  <2>. QED
    BY <2>3, <2>5 DEF contractVars, Chain!vars
<1>2. ASSUME NEW r \in Result, OtherPublication(r)
      PROVE  [Chain!Next]_Chain!vars
  BY <1>2, PublicationIsOfChain DEF OtherPublication
<1>3. ASSUME NEW v \in Vault, NEW policy \in Policy, ConfigureVault(v, policy)
      PROVE  [Chain!Next]_Chain!vars
  BY <1>3, ChainAssumption DEF ConfigureVault, Chain!Next, Chain!VaultStep
<1>4. CASE NextBlock
  BY <1>4 DEF NextBlock, Chain!Next
<1>5. ASSUME \A c \in Call : ~Write(c), \A r \in Result : ~OtherPublication(r),
             \A v \in Vault, policy \in Policy : ~ConfigureVault(v, policy), ~NextBlock
      PROVE  UNCHANGED contractVars
  BY <1>5 DEF Next, ThreadStep, BeginPublish, Preflight, Report, PublishFails, BeginCheck,
     VerifyCheck, Evaluate, Request, CheckFails, StepOnly, DeploymentStep, DeployVault, Capture,
     BuildManifest, EditManifest, Restart, vars
<1>. QED
  BY <1>1, <1>2, <1>3, <1>4, <1>5 DEF contractVars, Chain!vars

(* Whatever becomes of manifest, settings and build, the API moves the     *)
(* chain only as the contracts let an account move it.                     *)
THEOREM BindingMovesChain == Spec => [][Chain!Next]_Chain!vars
<1>1. Init => IInv
  BY InitIInv
<1>2. IInv /\ [Next]_vars => IInv'
  BY NextKeepsIInv
<1>3. IInv /\ [Next]_vars => [Chain!Next]_Chain!vars
  BY StepIsOfChain
<1>. QED
  BY <1>1, <1>2, <1>3, PTL DEF Spec

ChainProofs == INSTANCE ControlPlaneProofs

LEMMA SameNext == [Chain!Next]_Chain!vars => [ChainProofs!Next]_ChainProofs!vars
<1>1. Chain!NextBlock => ChainProofs!NextBlock
  BY DEF Chain!NextBlock, ChainProofs!NextBlock,
     Chain!registryVars, ChainProofs!registryVars, Chain!guardVars, ChainProofs!guardVars
<1>2. Chain!RegistryStep => ChainProofs!RegistryStep
  BY Zenon DEF Chain!RegistryStep, ChainProofs!RegistryStep,
     Chain!SetPublisher, ChainProofs!SetPublisher,
     Chain!PublishValidation, ChainProofs!PublishValidation,
     Chain!TransferOwnership, ChainProofs!TransferOwnership,
     Chain!RenounceOwnership, ChainProofs!RenounceOwnership,
     Chain!ValidInput, ChainProofs!ValidInput, Chain!NotRollback, ChainProofs!NotRollback,
     Chain!Attested, ChainProofs!Attested, Chain!Input, ChainProofs!Input,
     Chain!Time, ChainProofs!Time, Chain!Deadline, ChainProofs!Deadline,
     Chain!EvidenceState, ChainProofs!EvidenceState, Chain!guardVars, ChainProofs!guardVars
<1>3. Chain!GuardStep => ChainProofs!GuardStep
  BY Zenon DEF Chain!GuardStep, ChainProofs!GuardStep, Chain!SetPolicy, ChainProofs!SetPolicy,
     Chain!StorePolicy, ChainProofs!StorePolicy, Chain!Pair, ChainProofs!Pair,
     Chain!registryVars, ChainProofs!registryVars
<1>4. Chain!VaultStep => ChainProofs!VaultStep
  BY Zenon DEF Chain!VaultStep, ChainProofs!VaultStep,
     Chain!RequestNewExposure, ChainProofs!RequestNewExposure,
     Chain!ConfigurePolicy, ChainProofs!ConfigurePolicy,
     Chain!TransferVault, ChainProofs!TransferVault, Chain!RenounceVault, ChainProofs!RenounceVault,
     Chain!StorePolicy, ChainProofs!StorePolicy, Chain!EvaluateFor, ChainProofs!EvaluateFor,
     Chain!ActionFor, ChainProofs!ActionFor, Chain!IsFresh, ChainProofs!IsFresh,
     Chain!Permissive, ChainProofs!Permissive,
     Chain!registryVars, ChainProofs!registryVars, Chain!guardVars, ChainProofs!guardVars
<1>. QED
  BY <1>1, <1>2, <1>3, <1>4 DEF Chain!Next, ChainProofs!Next, Chain!vars, ChainProofs!vars

(* The five transactions leave a chain in order.                           *)
LEMMA DeployedInOrder ==
  ASSUME Init PROVE ChainProofs!TypeOK /\ ChainProofs!AttestationCoherent
<1>1. now \in ChainProofs!Time \ {0} /\ owner \in Account \cup {NoAccount}
  BY ChainAssumption DEF Init, ChainProofs!Time
<1>2. /\ isPublisher \in [Account -> BOOLEAN]
      /\ hasAttestation \in [ChainProofs!Pair -> BOOLEAN]
      /\ vaultOwner \in [Vault -> Account \cup {NoAccount}]
  BY ChainAssumption DEF Init, Chain!Pair, ChainProofs!Pair
<1>3. latest \in [ChainProofs!Pair -> ChainProofs!Attestation \cup {ChainProofs!ZeroAttestation}]
  BY DEF Init, Chain!Pair, ChainProofs!Pair, Chain!ZeroAttestation, ChainProofs!ZeroAttestation,
         Chain!NoQuote, ChainProofs!NoQuote
<1>4. /\ policies \in [ChainProofs!PolicyOwner ->
                         [ChainProofs!Pair -> Policy \cup {ChainProofs!ZeroPolicy}]]
      /\ configured \in [ChainProofs!PolicyOwner -> [ChainProofs!Pair -> BOOLEAN]]
  BY BindingAssumption DEF Init, Chain!Pair, ChainProofs!Pair,
     Chain!PolicyOwner, ChainProofs!PolicyOwner, Chain!ZeroPolicy, ChainProofs!ZeroPolicy
<1>5. exposure \in [Vault -> ChainProofs!Event \cup {ChainProofs!NoExposure}]
  BY DEF Init, Chain!NoExposure, ChainProofs!NoExposure
<1>6. ChainProofs!AttestationCoherent
  BY DEF Init, ChainProofs!AttestationCoherent, Chain!Pair, ChainProofs!Pair
<1>. QED
  BY <1>1, <1>2, <1>3, <1>4, <1>5, <1>6 DEF ChainProofs!TypeOK

(* ControlPlaneProofs' assumptions are those of this module.               *)
LEMMA SameAssumptions ==
  /\ NoAccount \notin Account \cup Vault /\ Account \cap Vault = {}
  /\ Deployer \in Account
  /\ NoId \notin AssetId \cup ReferenceId
  /\ VaultPair \in [Vault -> ChainProofs!Pair]
  /\ \A q \in Quote :
       /\ {q.referencePriceE8, q.fairValueE8, q.lowerBoundE8, q.upperBoundE8} \subseteq Nat
       /\ {"evidenceHash", "modelVersion"} \subseteq DOMAIN q
  /\ Policy \subseteq [maxAge : Nat, onSupported : ChainProofs!PolicyAction,
                      onInconclusive : ChainProofs!PolicyAction,
                      onChallenged : ChainProofs!PolicyAction, onStale : ChainProofs!PolicyAction]
  /\ MaxTime \in Nat \ {0}
BY ChainAssumption, BindingAssumption
   DEF Chain!Pair, ChainProofs!Pair, Chain!PolicyAction, ChainProofs!PolicyAction

LEMMA ChainStays ==
  ASSUME ChainProofs!TypeOK, ChainProofs!AttestationCoherent, [Chain!Next]_Chain!vars
  PROVE  ChainProofs!TypeOK' /\ ChainProofs!AttestationCoherent'
<1>1. [ChainProofs!Next]_ChainProofs!vars
  BY SameNext
<1>2. ChainProofs!TypeOK'
  BY <1>1, SameAssumptions, ChainProofs!TypeStep
<1>3. ChainProofs!AttestationCoherent'
  BY <1>1, SameAssumptions, ChainProofs!CoherentStep
<1>. QED
  BY <1>2, <1>3

LEMMA ChainInOrder ==
  Spec => [](ChainProofs!TypeOK /\ ChainProofs!AttestationCoherent)
<1>1. Init => ChainProofs!TypeOK /\ ChainProofs!AttestationCoherent
  BY DeployedInOrder
<1>2. /\ ChainProofs!TypeOK /\ ChainProofs!AttestationCoherent
      /\ [Chain!Next]_Chain!vars
      => ChainProofs!TypeOK' /\ ChainProofs!AttestationCoherent'
  BY ChainStays
<1>. QED
  BY <1>1, <1>2, BindingMovesChain, PTL DEF Spec

LEMMA SameMeaning == ChainProofs!AttestationCoherent <=> Chain!AttestationCoherent
BY Zenon DEF ChainProofs!AttestationCoherent, Chain!AttestationCoherent,
   ChainProofs!Pair, Chain!Pair

(* What bindings are resolved to and checks are made of stays in order: an *)
(* attestation is coherent with its pair and its times, whichever manifest *)
(* it was published under and whichever is read with.                      *)
THEOREM BoundEvidenceInOrder == Spec => []Chain!AttestationCoherent
BY ChainInOrder, SameMeaning, PTL

(* No publication under any binding moves a pair back to an older          *)
(* observation or publication time, or makes it unpublished: not for a     *)
(* manifest that is exchanged between preflight and transaction, and not   *)
(* for a second process that publishes the same asset.                     *)
THEOREM BoundPairsNeverRollBack == Spec => Chain!NoRollback
<1>1. ASSUME ChainProofs!TypeOK, ChainProofs!AttestationCoherent, [Chain!Next]_Chain!vars,
             NEW p \in Chain!Pair, hasAttestation[p]
      PROVE  /\ hasAttestation'[p]
             /\ latest'[p].observedAt >= latest[p].observedAt
             /\ latest'[p].publishedAt >= latest[p].publishedAt
  <2>1. [ChainProofs!Next]_ChainProofs!vars /\ p \in ChainProofs!Pair
    BY <1>1, SameNext DEF Chain!Pair, ChainProofs!Pair
  <2>. QED
    BY <1>1, <2>1, SameAssumptions, ChainProofs!StepNoRollback
<1>2. /\ ChainProofs!TypeOK /\ ChainProofs!AttestationCoherent
      /\ [Chain!Next]_Chain!vars
      => [\A p \in Chain!Pair :
            hasAttestation[p] =>
              /\ hasAttestation'[p]
              /\ latest'[p].observedAt >= latest[p].observedAt
              /\ latest'[p].publishedAt >= latest[p].publishedAt]_Chain!vars
  BY <1>1
<1>. QED
  BY <1>2, ChainInOrder, BindingMovesChain, PTL DEF Chain!NoRollback
=============================================================================
