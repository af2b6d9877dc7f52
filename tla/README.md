# Verification of Valtide

Valtide values tokenized equities around the clock.  A Python backend
(`apps/api/valtide_api`) warms a small Kalman filter with one observation per
five-minute bar, classifies the evidence for the token's reference price, keeps the
result in SQLite, and publishes it to contracts on X Layer (`contracts/src`), where
vaults decide on new exposure by it.  This directory holds TLA+ models of that
system, the TLC configurations that check them and theorems about them that TLAPS
proves.

All source paths below are relative to the repository; `PROJECT.json` maps each
definition to the lines it stands for.

## 1. The system

| Component | State | Operations | Interacts with |
|---|---|---|---|
| Validation registry, risk guard, demo vault (`contracts/src`) | owner, publishers, latest attestation per pair, policies, vault configuration | `setPublisher`, `publishValidation`, `setPolicy`, `configurePolicy`, `requestNewExposure`, ownership transfers | publisher (transactions), vault (calls the guard, which reads the registry) |
| Live scheduler and tick (`scheduler.py`, `main.py`, `clock.py`, `state_store.py`) | the loop's task, the tick's thread, an in-memory cache | `_run`, `run_live_tick`, `start`, `stop`, `lifespan` | store (SQLite), snapshot builder (HTTP), filter, publication worker |
| Runtime store (`runtime_store.py`) | `runtime_state`, `runtime_generation`, archive, `valuation_history`, `publication_state` | load, save with history, tick status, publication status | scheduler thread, event loop, HTTP handlers; one lock, one transaction per operation |
| Publication worker (`scheduler.py`) | pending slot, event, stop flag, its task | `_publish_if_enabled`, `_publication_worker`, `_publish_one` | scheduler loop, publisher thread, store |
| Publisher (`publisher.py`, `routes/publish.py`) | none of its own; one lock shared by the workers, one signing key | `publish`, `check_demo_vault_enforcement` | X Layer RPC, contracts, deployment binding |
| Assets, manifest, deployment (`assets.py`, `config.py`, `xlayer_manifest.py`, part of `publisher.py`) | the manifest file, cached settings and artifacts | resolve and verify an asset's binding, make a manifest | everything |
| Deployment scripts (`contracts/script`, `scripts/capture_…`, `scripts/build_xlayer_manifest.py`) | the chain, a receipt file | deploy, provision, capture, make a manifest | contracts, manifest |
| Adapters (`adapters/`, `market_sources.py`, `token_market.py`) | none | backward walks over paged histories, exact bars, retries | builders, live snapshot |
| Panel builders (`scripts/build_historical_panel.py`, `apps/api/scripts/…`) | a CSV file | join the vendors' bars into rows | adapters, readers |
| Panel readers (`panel.py`, `replay.py`, `scenario.py`, `live.py`, `data_source.py`, `session.py`) | the locals of one pass over the rows | readiness scan, load, replay, settled-bar snapshot | filter, classifier, routes |
| Panel provisioning (`scripts/provision_historical_panels.py`) | staged and persistent files | install an approved panel | operators, other writers, power failures |
| Validation (`validation.py`, `challenger_detector.py`) | none | classify a valuation | tick, replay |
| Filter (`quant/runtime/p1ac`, `quant_runtime.py`) | mean, variance, last timestamp | one step | tick, replay |
| HTTP API (`routes/`) | none | views, replay, `POST /api/publish` | store, publisher, readers |
| Web client (`apps/web`) | view state | fetches | HTTP API |
| Research and handoff tools (`quant/research`, `quant/tools`) | files | one-shot statistics | none at run time |

### What is hard, and what makes each part correct

* **Contracts.**  Transactions of several publishers reach a block in any order and
  later than they were built.  An attestation must stay coherent with its own
  window, a pair must never go back to an older observation, and a late publication
  must not make an old observation look fresh.
* **Tick and store.**  A tick spans many awaits; the process can die between any
  two; the deployment binding (profile, model, source) can change over a restart;
  the wall clock can be stepped.  The state must belong to its binding, account for
  exactly the elapsed time, never go back, survive failed ticks, and never disappear
  from the audit trail.
* **Publication worker.**  Two coroutines, `start` and `stop` share an event, a slot
  and a flag; the publisher's thread cannot be cancelled; every status write can
  raise.  No wake-up may be lost, newer results win, the record of what was
  published never moves back, `stop` returns.
* **Publisher.**  Every fact is a separate RPC read that may be stale by the time it
  is used; transactions are lost, late, replaced or dropped; the POST route uses the
  same key without the workers' lock.  A reported success must be on the chain, a
  failure must not hide a write, the lock must come free.
* **Panels.**  Three programs read one file and each checks it in its own way; a
  fourth, `live.py`, assembles the same row from the vendors on its own. The
  vendors' pages shift while they are walked.  A panel that readiness accepts must
  replay, an estimate must not look ahead or leave an observation out, and live and
  replay should see the same evidence.
* **Classifier.**  State and reason codes come from separate branches, under two
  profiles.  Missing or older evidence must never promote a state.
* **Deployment binding.**  `publish` resolves its binding twice, and the manifest
  may be replaced between; the enforcement check reads the chain twice; a manifest
  is made of a receipt while policies go on changing.  Nothing may be filed or
  reported under another asset, and a manifest the tools made must serve.
* **Provisioning.**  The file is verified, copied, linked and confirmed in steps
  that other provisioners, other writers, errors and power failures interrupt.  What
  the script installs must be the approved bytes.

## 2. Modules

```
ObservationRegister   abstract: newest observation per pair       (specification)
ControlPlane          the three contracts                         implements ObservationRegister
  ControlPlaneProofs, MCControlPlane
LiveRuntime           one asset's loop, tick, rows, process
  LiveRuntimeProofs
PublicationWorker     hand-over and delivery of results           implements ObservationRegister
  PublicationWorkerProofs
Publisher             publish() against the chain                 implements Chain (ControlPlane)
  PublisherProofs, MCPublisher
Binding               from provisioning to the enforcement check  Chain == INSTANCE ControlPlane
  BindingProofs
Provisioning          installing an approved panel
  ProvisioningProofs
MCDeployment          Binding and Provisioning                    Panels == INSTANCE Provisioning
Validation            the classifier
Panel                 a panel's readers, row by row               EXTENDS Validation
Historical            walk, build, scan, load, replay             EXTENDS Panel
  HistoricalProofs, PanelProofs, MCHistorical
```

### ControlPlane, ObservationRegister

`latest`, `hasAttestation`, `isPublisher`, `owner` are the registry's storage,
`policies` the guard's, `configured`, `vaultOwner` the vaults', `exposure` the last
`ExposureRequested`, `now` the timestamp of the block being built.  Each external
function is one action whose guard is the conjunction of its reverts; a reverting
transaction changes nothing and is a stutter.  Quotes (prices, hashes, model
version) are opaque records; the checks on them are kept. `ObservationRegister` says
what a consumer relies on: per pair, the observation time only grows once it exists.
`Newest` is the refinement mapping.

### LiveRuntime

One asset: assets share no rows.  `loop` is `LiveScheduler._run` (sleeping, awaiting
a tick, dead), `tick` the thread in `run_live_tick` with its program counter and
locals, `row`, `generation`, `archive`, `history` the SQLite tables, `cache` the
in-memory store, `active` the identity the running process was configured with.
Each store call is one step, because it holds the store's lock and commits one
transaction; crashes, clock steps, `stop` and failing writes come between.  A filter
state is abstracted to `[ts, since, steps, id]`: the bar it is of, the anchor it was
started from, how many process-noise steps it took and the binding it ran under.
Sleeps are measured on a monotonic clock (`mono`), bars on the wall clock (`mono +
skew`).

### PublicationWorker

What runs between two awaits is one step.  `worker` is where the worker's coroutine
is suspended; `wakeup` is the `asyncio.Event` (or its absence), `pending` the slot,
`published` the `publication_state` row, `stopping` where `stop()` is suspended.  A
result is its observation time.  The publisher's call is an outcome chosen when the
thread returns.

### Publisher

`call[c]` is a thread inside `publish()`; every RPC it makes is a step that reads
either the head of the chain or a lagging node (`replica`).  The contracts are an
instance of `ControlPlane`, so a mined transaction is its `PublishValidation`, and
one that the registry would revert is mined with a failed receipt.  `mempool`,
`receipts`, `nonce` belong to the chain and survive a crash.  Calls in `Serialized`
take the lock first, as the workers do; the others stand for `POST /api/publish`.

### Validation, Panel, Historical

`Validation` is `validate()` as operators over a snapshot: which observations it
carries and their timestamps.  What the arithmetic on prices and variances concludes
(deviation near or far, detector band, quality below a floor) is a judgement, and
every property quantifies over judgements.

`Panel` gives each reader by what it does with the next row: `ScanRow`, `LoadRow`,
`ReplayStep`, with the snapshot that is replayed, and `LiveSnapshot`, what `live.py`
assembles for a settled bar.  A row is its times, which observations it has, and at
most one defect; a filter state is what entered it (the anchor, the tokens, the
underlyings, the process-noise steps), which is what look-ahead is about.

`Historical` runs them.  A walk (`walk`) takes a page at a time from a vendor, that
may refuse, repeat a page, or get a new bar in between; `Write` joins what was
fetched into `file`; then `reader` steps scan, loader and replay together, for they
share nothing but the file, and the route answers.  With `builder = "none"` the file
is given from outside, row by row, well-formed or not.

### Binding, Provisioning

`Binding` starts from what `DeployValtide.s.sol` leaves on the chain. Each
transaction of the provisioning script is an action, so a broadcast may stop between
any two; `Capture` is the receipt script, `BuildManifest` the manifest's maker,
`EditManifest` an operator with an editor.  `call[c]` is a thread that publishes or
checks enforcement: each reading of the manifest and each of the chain is a step,
and `override` and `release` are what the process cached when it started.  Nonces
and receipts are left to `Publisher`.

`Provisioning` has a step for each system call of `provision_panel` whose order
matters: look, compare, stage and sync, verify, link, sync the directory, confirm.
A file is its bytes, whether they and its name have reached the disk, and (a ghost)
whose it is.

## 3. Runs

| Run | Question | Bounds and environment | States |
|---|---|---|---|
| `contracts` | coherence, no rollback, gating, age | 2 accounts, 1 pair, 1 vault, windows valid and not, all Evidence States and policies, times to 3 (past `maxAge`) | 298 404 |
| `live_skew` | state, binding, elapsed time, audit trail, recorded bars | 2 bindings, clock stepped up to one interval, failing writes, crashes | 633 410 |
| `live_steady` | settled bars, history, progress | as above without clock steps and failing writes | 39 658 |
| `delivery` | wake-ups, coalescing, the delivery record, hand-over, outcome, `stop()` | 5 observations, failing writes, stops, restarts, crashes, a publisher that may hang | 4 145 |
| `delivery_stops_valuation` | *violated*, see 5 | failing writes | - |
| `publish_serialized` | exact receipts, failures, idempotence, one register of two pairs | 2 workers, 2 assets, 4 results, revocation, expiry; RPC answers from the head | 295 332 |
| `publish_chaos` | a success is on record | 1 worker, 1 POST, lagging and failing RPCs, lost, evicted, replaced, late transactions, crashes | 1 106 232 |
| `publish_live` | calls end, the lock comes free | 2 workers, transactions possibly never mined | 56 816 |
| `publish_nonce` | *violated*, see 5 | 1 worker, 1 POST, nothing fails | - |
| `history` | a ready panel replays, no look-ahead, the classifier, live joins, walks | 4 token, 4 underlying and 4 index bars of which up to three are missing, pages of two, one repeated refusal, given files of up to three rows | 136 928 |
| `live_agrees` | *violated*, see 5 | as `history` | - |
| `deployment` | bindings, enforcement, made manifests, installed panels | 2 assets, 3 vaults (one of another guard), 2 builds, 2 settings, 6 edited manifests, 1 thread and another publisher, times to 3; 1 path, 2 provisioners, 2 manifest entries | 265 439 |

**Why the bounds suffice.**  `Interval = 2` clock units separate a bar's opening
from its inside, and `Grace = 1` lets the wait end inside the next bar. `MaxTime`
covers several bars, enough for a state to be saved, missed for two bars, resumed
under another binding and resumed again.  `MaxSkew` of one interval makes the loop
repeat or skip a bar.  Two settlement attempts distinguish the last from the others.
`MaxTs` allows one result in delivery, one pending, one behind it, and the same
again after a restart.  The registry keeps its pairs apart, which a run with one pair
cannot show: `contracts` has one, for all that its windows, roles and policies do to
it, and that the contracts refine the register is checked in `publish_serialized`
and proved for any number of pairs.  `Publisher` and `Binding` have two.  Two calls,
two observation times and two or more nonces are what a race for a nonce or between
a write and its read-back needs; `publish_serialized` has also been run with three
mined transactions, which changed nothing.

In `history`, two bars to a page make every walk cross a page, on and off the edge
of the range; one of its bars is in the regular session and the others are not;
three missing bars are enough to take away the anchor, the token and the comparator
of one row, or the same from three.  Three rows let a given file go wrong after it
has been right.  `MCJudgements` leaves out judgements that are bad in several ways
at once, which all abstain.  In `deployment`, bindings and panels share no state, so
each moves only while the other is where it started.  The edited manifests swap
identifiers, vaults and contracts, share a vault, and leave the declaration out; the
second manifest entry for a panel approves bytes the loader would refuse.

One run splits from another only where a property needs a quieter environment:
`HistoryHoldsLatest` and `OnlySettledBars` are false when the clock is stepped back
while the binding changes, `FailureWroteNothing`, `ReceiptIsOfResult` and
`NoIdleRewrite` are false with an RPC that times out or lags, and the code does not
claim otherwise.

**Deadlock** is checked for `contracts` and `deployment`.  The other configurations
turn it off, for they have legitimate ends: time, timestamps or nonces run out at
their bounds with the scheduler stopped or dead, and a replay ends with its answer.

**Fairness.**  `LiveRuntime!LiveSpec`: the clock advances, the event loop runs what
is ready, and the tick's thread makes progress: every HTTP call has a timeout and
the store's lock is held for one transaction.  No fairness on which way the sources
answer.  `PublicationWorker!LiveSpec`: the event loop only.  That the publisher's
thread returns (`PublisherReturns`) is a premise of the two properties that need it,
`HandedOverIsAttempted` and `AttemptIsResolved`, and `CallEnds` of `Publisher` is
the reason to assume it; `StopReturns` has no such premise, for `stop()` must not
rely on it.  `Publisher!LiveSpec`: each RPC answers or times out, and a wait for a
receipt does too.  Nothing is assumed of mining, of lagging nodes, or of taking the
lock (a `threading.Lock` is not fair), so `CallEnds` begins once the lock is held,
and says that it is given back. `Historical!LiveSpec`: a walk that may take a step
takes one, for every request has a timeout; the vendor may refuse and repeat itself,
within the retries that the code counts.

## 4. Proofs

`ControlPlaneProofs` proves, for every set of accounts, assets, references, vaults,
quotes and policies and every bound on time:

* `TypeCorrect`: `Spec => []TypeOK`.
* `CoherentAttestations`: `Spec => []AttestationCoherent`.  Together with the types
  the coherence of every stored attestation is inductive, because only
  `PublishValidation` writes one and it compares the window with the block's own
  time.
* `NeverRollsBack`: `Spec => NoRollback`, from `NotRollback` and from time never
  going back.
* `ExposureGated`, `StaysTooOld`: action properties of the vault and of age.
* `Implements`: `Spec => Register!Spec`; the initial states map to initial states
  and each transaction to an `Advance` of its pair or a stutter.

Each rests on the assumptions on constants named in `ControlPlane` (no account,
identifier or vault is the null one, bounds are natural numbers), which TLC also
evaluates.  Action steps are proved once per action.

`LiveRuntimeProofs` proves, for every interval, grace, number of settlement
attempts, set of bindings and fault setting:

* `TypeCorrect`, `GenerationIsOfState`, `NoStateCrossesBindings`,
  `EveryIntervalIsCounted`: the invariants `TypeOK`, `GenerationBindsState`,
  `NoForeignPrior`, `StepsMatchElapsedTime`.  None but the types is inductive alone:
  what a tick saves depends on what it loaded several awaits before.  `IInv` adds
  that the tick's prior is of the binding the process runs under and older than the
  tick's bar, and that it accounts for its own intervals.
* `NeverRollsBack`, `NothingIsLost`: the action properties `StateNeverRollsBack` and
  `AuditTrailKept`, from `IInv`.  They hold however the wall clock is stepped: a
  tick whose bar is not newer than the row is a duplicate.
* `LatestIsAccountedFor` (`LatestBarIsRecorded`): whichever way the clock is
  stepped, the bar that is served is in the history, and where the history kept
  another result for it, the binding of that one is in the archive with that bar or
  a later one.  `Accounted` says it of every recorded result: its binding carries
  it, or has gone on to a later bar, or was superseded.
* `TicksAskForSettledBars`, `LatestIsInHistory`: under `MaxSkew = 0`, stated in the
  theorem, because both are false when the clock is stepped back.  `SteadyInv` adds
  to `IInv` when the loop's sleep ends relative to its bar and that no bar as late
  as the one under way is in the history.

They rest on `ClockAssumption` (a positive interval) and the other assumptions of
`LiveRuntime`, and on elementary facts about division by the interval.

`PublicationWorkerProofs` proves, for any number of observations and whichever of
failing writes, stops and crashes may happen:

* `WakeupsAreKept`: `Spec => []NoLostWakeup`; the wake-up protocol is inductive as
  it stands.
* `TypeCorrect`, `NewestIsPending`, `ForwardOnly`: `TypeOK`, `PendingIsNewest`,
  `DeliveryMovesForward`.  They need an order of everything that holds an
  observation: what is on record, what is awaited, what is pending, what the loop is
  about to hand over (`RecordIsOld`, `AwaitedIsOld`, `Beyond`, `TickedIsNewest`).
* `DeliveryTrailsValuation`: `Spec => Record!Spec`, where `Record` is the
  `ObservationRegister` over two keys, what was valued and what was published, and
  the second is never ahead of the first.

`PublisherProofs` proves, for any number of calls, workers, results, nonces and
read-backs:

* `PublisherTypes` and `PublishedIsOnRecord` (`SuccessIsOnRecord`), whatever lags,
  fails, crashes or races.  `ChainOK` says that every node shows only what some
  successful transaction wrote, and that a pair never stands at an older observation
  than a successful transaction's; `CallOK` that what a call has found to be
  published, or has reported so, is on record.
* `ReceiptTellsItsResult`, `FailureIsFinal`, `PublicationIsIdempotent`
  (`ReceiptIsOfResult`, `FailureWroteNothing`, `NoIdleRewrite`), under `Serial`,
  stated in each theorem: every call takes the lock and the RPC answers from the
  head.  `SerialOK` adds whose turn it is (`TurnOK`: no other call is between its
  preflight and its receipt), that nonces and receipts agree (`LedgerOK`), and what
  each place of a call knows of the chain (`Fits`).
* `SerializedNoncesDiffer`, from the same invariant: with every call under the lock
  no two share a nonce.  It is the other half of the finding about nonces in 5.
* `CallsImplementChain`: `Spec => Chain!Spec`.  A mined transaction is one that an
  account of `ControlPlane` may send, and everything else a call, a node or a crash
  does leaves the chain alone.  The theorems of `ControlPlaneProofs`, instantiated
  for a chain without vaults (`ChainProofs`), then hold of it: `CallsNeverRollBack`
  and `CallsImplementRegister` (`ReadersSeeRegister`).  `ChainAssumption` of
  `Publisher` is what `ControlPlane` assumes of its constants.  `Chain!Spec` was
  checked on the instance of `publish_chaos` first, for 930 000 states.

`BindingProofs` proves, for any assets, vaults, builds, settings and edited
manifests:

* `NothingCrossesAssets`, `ChecksTellTheTruth` (`NoCrossAssetPublish`,
  `EnforcementIsReal`). A call keeps what it resolved while manifest, settings and
  build change, so the invariant says what each place of a call has established of
  that (`Fits`), and that every attestation is filed under its own asset's pair
  (`Filed`).
* `BuiltManifestsServe` (`BuiltManifestServes`), from `ToolsInv`: deployed vaults
  stay deployed and configured policies stay configured, so that what the receipt
  saw still holds when the manifest is used.
* `BindingMovesChain`: each step is one of `ControlPlane`'s or leaves the chain
  alone.  It is a theorem about steps and not a refinement, because `Init` is a
  deployment whose transactions are over; that this is a chain in order is proved
  (`DeployedInOrder`).  From it and from the step lemmas of `ControlPlaneProofs`
  follow `BoundEvidenceInOrder` and `BoundPairsNeverRollBack`: coherence and order of
  attestations survive any exchange of manifests and any other
  publisher.  They rest on `ChainAssumption` and `IdentityAssumption` of `Binding`
  besides.

`ProvisioningProofs` proves, for any provisioners, paths, contents and manifests,
`StagedIsApproved` and `ProvisioningInstalls` (`InstalledIsApproved`) from
`Contents`, the assumptions of `Provisioning`, which `MCDeployment` evaluates for
its instance; the run checks the same property there as
`Panels!InstalledIsApproved`.  What is needed beyond the property is the order of
stage, verify and link.

`HistoricalProofs` proves, for every source of bars, panel, request and judgement:

* `LessEvidenceNeverPromotes` and `ReasonsAgreeWithState` of the classifier itself.
* `PipelineInvariant`, `PipelineTypes`, `ReplayIsCausal` (`NoLookAhead`) and
  `EvidenceIsMonotone` (`WeakerEvidenceNeverPromotes`).  The invariant relates the
  filter's ingredients to the rows read so far (`ReplayCarries`), the loader's
  anchor to them (`LoadOfRows`), and a built file to what was fetched (`BuiltFile`,
  `BuiltRead`); that no comparator is from the future (`NoFutureComparator`) is what
  the classifier needs of the readers.

`PanelProofs` goes on from there, for the same constants, about what builders and
readers promise each other:

* `BackwardWalksReturn` (`WalkReturnsWindow`).  `WalkInv` says what a walk has
  between two pages: every wanted bar from its cursor on, unless the vendor ignored
  the cursor, and no bar the vendor lacks.  The lemmas about pages (`LatestPageIs`,
  `EarliestPageIs`, `PageCovers`) are where the size of a page enters.
* `WalksMoveOn`: each page moves the cursor strictly, within bounds, and each refusal
  uses up a retry.  This is all of `WalkEnds` but the fairness.
* `LiveJoinsThePanel` (`LiveJoinsAsPanel`), from `FileInv`: what a file's rows are in
  terms of the vendors' bars.  The two pipelines look back differently far, so that
  the anchors agree needs that each is the newest bar of its window.
* `LiveUnderlyingIsOfRow`: the underlying of a live snapshot as a function of the
  panel's row.  It makes the finding about live and replay in 5 exact: that
  difference and no other.
* `ScanAgreesWithReplay` (`ReadyPanelReplays`), from `ReadInv`: as long as the scan
  has found nothing, the loader has not either and replay runs (`Agreed`), and the
  scan finds nothing in a panel that a builder wrote (`BuiltReadInv`).
  `GridAssumption` of `Historical` (a vendor's bars start on the grid they were
  asked for) is what keeps a builder's anchors on the grid.

The inductive invariants of `ControlPlaneProofs`, `LiveRuntimeProofs`,
`PublicationWorkerProofs` and `PanelProofs`, and the further properties stated in
the last two, were checked with TLC on the instances of the runs before they were
proved.

Only model-checked: the liveness properties `TickComesBack`, `LoopKeepsGoing`,
`HandedOverIsAttempted`, `AttemptIsResolved`, `StopReturns`, `CallEnds` and
`WalkEnds`, for liveness under fairness and ENABLED are out of the provers' reach;
and that the properties of 5 are violated.  Every safety property of a passing run
is proved, and no theorem speaks of what a recursive definition computes, for there
is none in the models.

## 5. Where code and documents disagree

Shown by a run:

* **A delivery failure can stop valuation** (`delivery_stops_valuation`).
  `docs/DEPLOYMENT.md:146` and the comment at `scheduler.py:440` say it cannot.
  `_publish_if_enabled` writes the "blocked" status from the loop's own task; if
  SQLite raises there, the task dies.
* **Publisher calls are not all serialized** (`publish_nonce`).
  `_next_publisher_nonce` relies on the schedulers' lock, which `POST /api/publish`
  does not take: a POST and a worker can prepare one nonce.
* **Live and replay differ in the underlying** (`live_agrees`). `live.py:17` says
  that the joins are the panel's, so that both pipelines consume identical inputs.
  They are for the token, the anchor and the reference (`LiveJoinsAsPanel`), but the
  live snapshot has no underlying outside the regular session, where the panel's row
  carries the bar if the vendor has it; and inside the session, if its own bar is
  missing, it takes the bar before as the current one while that is not too old
  (`live_underlying_max_age_seconds`), where the row has none
  (`LiveUnderlyingIsOfRow`).

Noted while modelling, and built into the models as the code has them:

* The panel loader does not remember an explicit anchor: if an explicitly anchored
  row is followed by one without an anchor before any underlying was seen, the
  loader skips that row and replay answers 500 with a gap error, although readiness
  called the panel compatible.  A first explicit anchor off the grid does the same.
  `ReadyPanelReplays` excludes both by `Sparse`.
* A canonical header without `timestamp_utc` is a readiness reason for the scan and
  an uncaught `KeyError` (500) for the loader.
* The legacy panel builder keeps unconfirmed token candles; the canonical one drops
  them.
* Under a legacy profile the unit check needs the current underlying, so losing the
  underlying lifts it.  `WeakerEvidenceNeverPromotes` excludes that case.
* If the manifest is replaced during `publish`, the receipt names the registry of
  the first resolution beside the evaluation of the second.
* `build_multi_asset_manifest` takes over the legacy vault of NVDAx without a look
  at the chain.

## 6. Not modelled

* Floating-point arithmetic: the filter, the detector's score, the numeric
  thresholds of validation.  Which observations enter them, and what follows from
  their outcome, is modelled.
* Formats: number and payload parsing, addresses, hashes, fingerprints, explanatory
  text. A row that is wrong in its format is one of a few defects.
* Rows of the store that none of its writers produces; reading history back; the DEX
  price, which nothing values by; the cache of readiness, which is keyed by the
  file's identity.
* Chain reorganizations; a price so small that it rounds to zero, which the registry
  would revert; the hash and policy fields of a publication receipt.
* The web client, which decides nothing; `fetch_data.py`, the research and handoff
  tools, which are offline statistics.

`components` in `PROJECT.json` says the same part by part.

## 7. What is left

The composition of one asset's loop, its worker and its publisher over a shared
store and chain: each is checked against an environment that includes the others'
behaviour (results in order, a publisher that returns, fails or hangs, another
writer of the chain), but the product has not been explored.  Of its last link it is
proved that publishers and bindings move the chain as `ControlPlane` lets them.
After that, `load_history` and the identity fingerprint of the store, and the order
in which the web client's answers arrive.
