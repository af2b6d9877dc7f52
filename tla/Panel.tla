-------------------------------- MODULE Panel --------------------------------
(***************************************************************************)
(* A historical panel and its readers: the readiness scan and the loader   *)
(* of panel.py, the scenario loader, the replay driver with the P1a-C      *)
(* filter behind it, and the snapshot that live.py assembles instead.      *)
(*                                                                         *)
(* The readers are folds over a file's rows; each is given here by what it *)
(* does with the next row, and module Historical runs them over a file.    *)
(* Prices are abstracted to the time of the bar they are of, and a filter  *)
(* state to what entered it.                                               *)
(***************************************************************************)
EXTENDS Validation, FiniteSets

CONSTANTS
  Regular,           \* the times of the regular trading session
  LiveLookback,      \* get_trusted_bars: lookback_days
  MaxUnderlyingAge   \* Settings.live_underlying_max_age_seconds

ASSUME LiveAssumption == LiveLookback \in Nat /\ MaxUnderlyingAge \in Nat

-----------------------------------------------------------------------------
Newest(times) == CHOOSE t \in times : \A u \in times : u <= t
Oldest(times) == CHOOSE t \in times : \A u \in times : t <= u

Canonical(t) == t % Interval = 0

-----------------------------------------------------------------------------
(* Files.  Of a header only what classifies it matters: canonical, legacy  *)
(* (of NVDAx) with or without the reference columns, both at once, a       *)
(* canonical one that lacks the timestamp or another required column, or   *)
(* none of these.                                                          *)
Schema == {"canonical", "legacy", "legacy_bare", "hybrid", "untimed", "invalid", "scenario"}

(* What can be wrong with a row besides its timestamps:                    *)
(*   identity   another asset, instrument or deployment                    *)
(*   number     a price or volume that is not a finite positive number     *)
(*   price      an available token or underlying without a price           *)
(*   observed   an observation time other than the row's                   *)
(*   unpriced   an available reference without a price                     *)
(*   extra      more fields than the header                                *)
Defect == {"none", "identity", "number", "price", "observed", "unpriced", "extra"}

Row == [ts : Time, token : BOOLEAN, underlying : BOOLEAN,
        reference : Time \cup {None}, anchor : Time \cup {None}, defect : Defect]

(* A request for a replay: of which asset, whether NVDAx's deployment is   *)
(* pinned in the settings, and the source parameter.                       *)
Asset   == {"NVDAx", "SPYx"}
Request == [asset : Asset, pinned : BOOLEAN, mode : {"panel", "auto", "scenario", "unknown"}]

(* _panel_schema and _validate_panel_header.                               *)
HeaderRejected(schema, request) ==
  \/ schema = "invalid"
  \/ schema \in {"legacy", "legacy_bare"} /\ request.asset # "NVDAx"
  \/ /\ schema \in {"canonical", "untimed", "hybrid"}
     /\ request.asset = "NVDAx" /\ ~request.pinned

(* Where resolve_snapshots finds the snapshots, or the HTTP status.        *)
Resolved(request, panel) ==
  LET fallback == IF request.asset = "NVDAx" THEN "scenario" ELSE "503"
  IN  CASE request.mode = "scenario" -> fallback
        [] request.mode = "panel" /\ panel = "unconfigured" -> "503"
        [] request.mode = "panel" /\ panel = "absent" -> "404"
        [] request.mode = "auto" /\ panel \in {"unconfigured", "absent"} -> fallback
        [] request.mode \in {"panel", "auto"} /\ panel = "present" -> "panel"
        [] OTHER -> "400"

-----------------------------------------------------------------------------
(* The readiness scan (_inspect_panel_cached).  prev is the last row's     *)
(* timestamp, rows the number of rows as far as it matters, closed that an *)
(* underlying was seen and replayable that a row had a prior anchor.       *)

Scan == [verdict : {"reading", "ready", "PANEL_IDENTITY_INVALID", "PANEL_SCHEMA_AMBIGUOUS",
                    "PANEL_TIMESTAMP_INVALID", "PANEL_HAS_NO_REPLAY_OBSERVATIONS"},
         prev : Time \cup {None}, rows : 0..2, closed : BOOLEAN, replayable : BOOLEAN]

ScanStart(schema, request) ==
  [verdict |-> IF HeaderRejected(schema, request) THEN "PANEL_IDENTITY_INVALID" ELSE "reading",
   prev |-> None, rows |-> 0, closed |-> FALSE, replayable |-> FALSE]

OutOfStep(prev, row) == ~Canonical(row.ts) \/ (prev # None /\ row.ts # prev + Interval)

FutureReference(row) == row.reference # None /\ row.reference > row.ts

ScanVerdict(schema, scan, row) ==
  IF row.defect \in {"extra", "identity", "number"} THEN "PANEL_IDENTITY_INVALID"
  ELSE IF schema = "hybrid" THEN "PANEL_SCHEMA_AMBIGUOUS"
  ELSE IF schema = "untimed" \/ OutOfStep(scan.prev, row) THEN "PANEL_TIMESTAMP_INVALID"
  ELSE IF row.defect \in {"price", "observed", "unpriced"} THEN "PANEL_IDENTITY_INVALID"
  ELSE IF FutureReference(row) \/ (row.anchor # None /\ row.anchor >= row.ts)
    THEN "PANEL_TIMESTAMP_INVALID"
  ELSE "reading"

ScanRow(schema, scan, row) ==
  IF scan.verdict # "reading" THEN scan
  ELSE IF ScanVerdict(schema, scan, row) # "reading"
    THEN [scan EXCEPT !.verdict = ScanVerdict(schema, scan, row)]
  ELSE [verdict    |-> "reading",
        prev       |-> row.ts,
        rows       |-> IF scan.rows = 2 THEN 2 ELSE scan.rows + 1,
        closed     |-> scan.closed \/ row.underlying,
        replayable |-> scan.replayable \/ scan.closed \/ row.anchor # None]

(* Mutant: one row with an anchor is enough, wherever an anchor comes from *)
(* and whether or not a row follows it.                                    *)
ScanEndAnyRow(schema, scan) ==
  IF scan.verdict # "reading" THEN scan.verdict
  ELSE IF schema = "hybrid" THEN "PANEL_SCHEMA_AMBIGUOUS"
  ELSE "ready"

ScanEnd(schema, scan) ==
  IF scan.verdict # "reading" THEN scan.verdict
  ELSE IF schema = "hybrid" THEN "PANEL_SCHEMA_AMBIGUOUS"
  ELSE IF scan.rows < 2 \/ ~scan.replayable THEN "PANEL_HAS_NO_REPLAY_OBSERVATIONS"
  ELSE "ready"

-----------------------------------------------------------------------------
(* The loader (load_panel_snapshots).  close is the time of the last       *)
(* underlying; an explicit anchor is used while there is none, and is not  *)
(* remembered for the next row.  status is how the load has failed.        *)

Load == [status : {"reading", "value_error", "key_error"},
         prev : Time \cup {None}, close : Time \cup {None}]

LoadStart(schema, request) ==
  [status |-> IF schema # "scenario" /\ HeaderRejected(schema, request)
              THEN "value_error" ELSE "reading",
   prev |-> None, close |-> None]

LoadAnchor(load, row) == IF load.close # None THEN load.close ELSE row.anchor

LoadStatus(schema, load, row) ==
  IF schema = "scenario" THEN "reading"
  ELSE IF row.defect \in {"identity", "number"} \/ schema = "hybrid" THEN "value_error"
  ELSE IF schema = "untimed" THEN "key_error"
  ELSE IF \/ OutOfStep(load.prev, row)
          \/ row.defect \in {"price", "observed"}
          \/ FutureReference(row)
          \/ load.close = None /\ row.anchor # None /\ row.anchor >= row.ts
    THEN "value_error"
  ELSE "reading"

LoadRow(schema, load, row) ==
  IF load.status # "reading" THEN load
  ELSE IF LoadStatus(schema, load, row) # "reading"
    THEN [load EXCEPT !.status = LoadStatus(schema, load, row)]
  ELSE [status |-> "reading", prev |-> row.ts,
        close  |-> IF row.underlying /\ schema # "scenario" THEN row.ts ELSE load.close]

(* The row becomes a snapshot once there is a prior anchor.                *)
Emits(schema, load, row) ==
  LoadRow(schema, load, row).status = "reading" /\ LoadAnchor(load, row) # None

(* _reference_fields: a file without the reference columns is compared     *)
(* with its current underlying, or else with the anchor.                   *)
SnapshotOf(file, load, row) ==
  LET current == IF row.underlying THEN row.ts ELSE None
  IN  [ts         |-> row.ts,
       token      |-> row.token,
       underlying |-> current,
       anchor     |-> LoadAnchor(load, row),
       profile    |-> file.profile,
       source     |-> file.source,
       reference  |-> IF file.schema = "legacy_bare"
                        THEN IF row.underlying THEN current ELSE LoadAnchor(load, row)
                        ELSE IF row.defect = "unpriced" THEN None ELSE row.reference]

-----------------------------------------------------------------------------
(* The filter: the anchor it started from, its last step, the token and    *)
(* underlying observations assimilated, the process-noise steps taken.     *)

Filter == [since : Time, last : Time, tokens : SUBSET Time, underlyings : SUBSET Time,
           steps : Nat]

NoFilter == [since |-> 0, last |-> 0, tokens |-> {}, underlyings |-> {}, steps |-> 0]

(* What a step's estimate rests on, and what the step carries forward.     *)
(* P1aCRuntime.step assimilates the underlying only after the estimate.    *)
Initialized(filter, snapshot) ==
  IF filter = NoFilter THEN [NoFilter EXCEPT !.since = snapshot.anchor] ELSE filter

Predicted(filter, snapshot) ==
  LET start == Initialized(filter, snapshot)
  IN  [since |-> start.since, last |-> snapshot.ts,
       tokens |-> start.tokens \cup (IF snapshot.token THEN {snapshot.ts} ELSE {}),
       underlyings |-> start.underlyings, steps |-> start.steps + 1]

Assimilated(estimate, snapshot) ==
  [estimate EXCEPT !.underlyings =
     @ \cup (IF snapshot.underlying = None THEN {} ELSE {snapshot.underlying})]

(* Mutant: the underlying is assimilated before the estimate.              *)
EstimateAfterUnderlying(filter, snapshot) == Assimilated(Predicted(filter, snapshot), snapshot)

Estimate(filter, snapshot) == Predicted(filter, snapshot)

Carried(filter, snapshot) == Assimilated(Predicted(filter, snapshot), snapshot)

(* _warm_state_to_first_observation: steps without measurements from the   *)
(* anchor to just before the first snapshot; without a gap the filter      *)
(* starts cold.                                                            *)
Warmed(snapshot) ==
  IF snapshot.ts <= snapshot.anchor + Interval
  THEN NoFilter
  ELSE [since |-> snapshot.anchor, last |-> snapshot.ts - Interval, tokens |-> {},
        underlyings |-> {}, steps |-> (snapshot.ts - snapshot.anchor) \div Interval - 1]

(* replay: its status, the previous snapshot's time, and the filter.       *)
Replay == [status : {"running", "gap_error", "value_error"}, prev : Time \cup {None},
           filter : Filter]

ReplayStart == [status |-> "running", prev |-> None, filter |-> NoFilter]

ReplayStatus(replay, snapshot) ==
  IF replay.status # "running" THEN replay.status
  ELSE IF replay.prev # None
    THEN IF OutOfStep(replay.prev, snapshot) THEN "gap_error" ELSE "running"
  ELSE IF ~(Canonical(snapshot.anchor) /\ Canonical(snapshot.ts)) THEN "gap_error"
  ELSE IF snapshot.ts < snapshot.anchor THEN "value_error"
  ELSE "running"

(* The state the snapshot is valued from.                                  *)
Prior(replay, snapshot) == IF replay.prev = None THEN Warmed(snapshot) ELSE replay.filter

ReplayStep(replay, snapshot) ==
  IF ReplayStatus(replay, snapshot) = "running"
  THEN [status |-> "running", prev |-> snapshot.ts,
        filter |-> Carried(Prior(replay, snapshot), snapshot)]
  ELSE [replay EXCEPT !.status = ReplayStatus(replay, snapshot)]

(* The HTTP status of the answer.  A gap found by replay, like a missing   *)
(* column found by the loader, is not caught by the route.                 *)
Answer(load, replay) ==
  IF load.status = "value_error" THEN "400"
  ELSE IF load.status = "key_error" \/ replay.status # "running" THEN "500"
  ELSE "200"

-----------------------------------------------------------------------------
(* build_live_snapshot for the bar at t, once that bar has settled, from   *)
(* the bars that exist.                                                    *)

NoSnapshot == [ts |-> None]

LiveBars(source, t) == {b \in source.underlying : t - LiveLookback <= b /\ b <= t}

(* Mutant: the bar under valuation may be its own anchor.                  *)
LiveAnchorsUpTo(source, t) == LiveBars(source, t)

LiveAnchors(source, t) == {b \in LiveBars(source, t) : b < t}

LiveUnderlying(source, t) ==
  LET last == Newest(LiveBars(source, t))
  IN  IF t \in Regular /\ t - last <= MaxUnderlyingAge THEN last ELSE None

(* get_token_candle_at and get_confirmed_index_bar walk a window of the one *)
(* bar and take it if it is confirmed, which a settled bar is.             *)
LiveToken(source, t) == t \in source.token

LiveReference(source, t) == IF t \in source.index THEN t ELSE None

LiveSnapshot(source, t) ==
  IF ~LiveToken(source, t) \/ LiveAnchors(source, t) = {}
  THEN NoSnapshot
  ELSE [ts |-> t, token |-> TRUE, underlying |-> LiveUnderlying(source, t),
        anchor |-> Newest(LiveAnchors(source, t)), profile |-> "unified",
        source |-> "okx_xperp_index", reference |-> LiveReference(source, t)]
=============================================================================
