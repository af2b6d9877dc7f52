----------------------------- MODULE Historical -----------------------------
(***************************************************************************)
(* The historical pipeline: an operator builds a panel from the vendors'   *)
(* histories, page by page, while new bars keep coming; the API then scans *)
(* the panel for readiness and replays it.  Panels and scenarios that come *)
(* from elsewhere, well-formed or not, are read as well.                   *)
(*                                                                         *)
(* The scan, the loader and the replay driver share nothing but the file,  *)
(* so they are stepped together: one action is one row for all three.      *)
(***************************************************************************)
EXTENDS Panel

CONSTANTS
  Start, End,       \* the requested range of bars
  PanelLookback,    \* UNDERLYING_LOOKBACK of the builders
  PageSize,         \* bars per page of a vendor's history
  MaxRetries,       \* _MAX_429_RETRIES, _MAX_RATE_LIMIT_RETRIES
  Sources,          \* the vendors' bars: [token, underlying, index]
  Requests,         \* requests for a replay
  GivenRow(_, _),   \* rows of given files, by schema and previous timestamp
  MaxRows,          \* bound on the rows of a given file
  Judgements        \* what the arithmetic of a valuation may conclude

ASSUME RangeAssumption ==
  /\ Start \in Nat /\ End \in Nat /\ Start <= End
  /\ Start % Interval = 0 /\ End % Interval = 0
  /\ PanelLookback \in Nat /\ PageSize \in Nat \ {0} /\ MaxRetries \in Nat
ASSUME SourceAssumption ==
  /\ Sources \subseteq [token : SUBSET Time, underlying : SUBSET Time, index : SUBSET Time]
  /\ Requests \subseteq Request
  /\ Judgements \subseteq Judgement
\* Bars are asked for with timeframe "5Min", and start on the grid.
ASSUME GridAssumption == \A s \in Sources : \A b \in s.underlying : Canonical(b)

VARIABLES
  source,   \* every bar the vendors have or will have, confirmed or not
  newest,   \* the time of the newest bar; older ones are confirmed
  builder,  \* which program writes the panel: canonical, legacy, or none
  phase,    \* the walk under way, then writing, reading and answering
  walk,     \* the walk's locals
  fetched,  \* what the walks have returned
  file,     \* the file that is read
  request,  \* the request for a replay
  reader,   \* the scan, the loader and the replay
  last      \* the last snapshot valued and the state its estimate rests on

vars == <<source, newest, builder, phase, walk, fetched, file, request, reader, last>>

-----------------------------------------------------------------------------
Walks == {"token", "underlying", "index"}

NoWalk    == [cursor |-> None, oldest |-> None, tries |-> 0, bars |-> {}, confirmed |-> {},
              began |-> None, honest |-> TRUE]
NoFetched == [token |-> {}, confirmed |-> {}, underlying |-> {}, index |-> {}, began |-> None]
NoFile    == [schema |-> "invalid", profile |-> "unified", source |-> "okx_xperp_index",
              rows |-> {}, began |-> None]
NoReader  == [scan |-> ScanStart("invalid", [asset |-> "SPYx", pinned |-> TRUE, mode |-> "panel"]),
              load |-> [status |-> "reading", prev |-> None, close |-> None],
              replay |-> ReplayStart, sparse |-> FALSE, rows |-> 0]
NoLast    == [snapshot |-> NoSnapshot, estimate |-> NoFilter]

BuiltRequest == [asset |-> "NVDAx", pinned |-> TRUE, mode |-> "panel"]

Init ==
  /\ newest = End
  /\ walk = NoWalk /\ fetched = NoFetched /\ reader = NoReader /\ last = NoLast
  /\ \/ /\ builder \in {"canonical", "legacy"} /\ source \in Sources
        /\ phase = "token" /\ file = NoFile /\ request = BuiltRequest
     \/ /\ builder = "none" /\ source = [token |-> {}, underlying |-> {}, index |-> {}]
        /\ phase = "open" /\ request \in Requests
        /\ \E schema \in Schema, profile \in Profile, comparator \in Source :
             /\ profile = "legacy" => schema = "scenario"
             /\ schema # "scenario" => (comparator = "other" <=> schema = "legacy_bare")
             /\ file = [schema |-> schema, profile |-> profile, source |-> comparator,
                        rows |-> {}, began |-> None]

-----------------------------------------------------------------------------
(* A new bar starts at every vendor; the one before it is confirmed.       *)
NewBar ==
  /\ phase \in Walks /\ newest = End
  /\ newest' = newest + Interval
  /\ UNCHANGED <<source, builder, phase, walk, fetched, file, request, reader, last>>

Begun == IF walk.began = None THEN newest ELSE walk.began

(* A page of at most PageSize of the bars, the latest or the earliest ones *)
(* beyond the cursor.                                                      *)
LatestPage(bars, cursor) ==
  LET older == {b \in bars : cursor = None \/ b < cursor}
  IN  {b \in older : Cardinality({c \in older : c > b}) < PageSize}

EarliestPage(bars, cursor) ==
  LET newer == {b \in bars : cursor = None \/ b > cursor}
  IN  {b \in newer : Cardinality({c \in newer : c < b}) < PageSize}

Window == Start..End

(* The walk's result reaches its variable and the next walk begins.  began *)
(* and honest are kept to state what a walk returns.                       *)
NextPhase == [token |-> "underlying", underlying |-> "index", index |-> "write"]

Finish(bars, confirmed, honest) ==
  /\ phase' = NextPhase[phase]
  /\ walk' = [NoWalk EXCEPT !.honest = honest]
  /\ fetched' = CASE phase = "token" ->
                       [fetched EXCEPT !.token = bars, !.confirmed = confirmed, !.began = Begun]
                  [] phase = "underlying" -> [fetched EXCEPT !.underlying = bars]
                  [] phase = "index" -> [fetched EXCEPT !.index = confirmed]

Continue(bars, confirmed, cursor, honest) ==
  /\ walk' = [cursor |-> cursor, oldest |-> cursor, tries |-> 0, bars |-> bars,
              confirmed |-> confirmed, began |-> Begun, honest |-> honest]
  /\ UNCHANGED <<phase, fetched>>

(* okx.get_historical_candles starts from the newest bar, and              *)
(* get_okx_xperp_index_candles just beyond the end, because the cursor is  *)
(* exclusive.  Mutant: as if it were inclusive.                            *)
FirstCursorAtEnd(kind) == IF kind = "index" THEN End ELSE None

FirstCursor(kind) == IF kind = "index" THEN End + 1 ELSE None

Cursor == IF walk.cursor = None THEN FirstCursor(phase) ELSE walk.cursor

(* A history has the forming bar too, flagged as not confirmed; a bar's    *)
(* flag is the one it was fetched with.                                    *)
Offered == {b \in source[phase] : b <= newest}

Settled(page) == {b \in page : b < newest}

(* Mutant: a page that brings nothing older does not end the walk.         *)
ExhaustedAtStart(page) == page = {} \/ Oldest(page) <= Start

Exhausted(page) ==
  \/ page = {}
  \/ Oldest(page) <= Start
  \/ walk.oldest # None /\ Oldest(page) >= walk.oldest

(* One page of a backward walk; a vendor that ignores the cursor sends the *)
(* first page again.                                                       *)
WalkBack ==
  /\ phase \in {"token", "index"}
  /\ \E honest \in {walk.honest, FALSE} :
       LET page == LatestPage(Offered, IF honest THEN Cursor ELSE FirstCursor(phase))
           kept == page \cap Window
           bars == walk.bars \cup kept
           confirmed == walk.confirmed \cup Settled(kept)
       IN  IF Exhausted(page)
           THEN Finish(bars, confirmed, honest)
           ELSE Continue(bars, confirmed, Oldest(page), honest)
  /\ UNCHANGED <<source, newest, builder, file, request, reader, last>>

(* One page of equity.get_stock_bars, in ascending order by page tokens.   *)
WalkForward ==
  /\ phase = "underlying"
  /\ LET asked == {b \in Offered : Start - PanelLookback <= b /\ b <= End}
         page  == EarliestPage(asked, walk.cursor)
         bars  == walk.bars \cup page
     IN  IF EarliestPage(asked, IF page = {} THEN walk.cursor ELSE Newest(page)) = {}
         THEN Finish(bars, bars, walk.honest)
         ELSE Continue(bars, bars, Newest(page), walk.honest)
  /\ UNCHANGED <<source, newest, builder, file, request, reader, last>>

(* A 429 is retried, in the backward walks, a bounded number of times.     *)
(* Mutant: without the bound.                                              *)
RateLimitedForEver ==
  /\ phase \in {"token", "index"}
  /\ walk' = [walk EXCEPT !.tries = @ + 1, !.began = Begun]
  /\ UNCHANGED <<source, newest, builder, phase, fetched, file, request, reader, last>>

RateLimited ==
  /\ phase \in {"token", "index"} /\ walk.tries < MaxRetries
  /\ walk' = [walk EXCEPT !.tries = @ + 1, !.began = Begun]
  /\ UNCHANGED <<source, newest, builder, phase, fetched, file, request, reader, last>>

(* One 429 too many, or any other error of a request, ends the build.      *)
RequestFails ==
  /\ phase \in Walks
  /\ phase' = "failed" /\ walk' = NoWalk /\ fetched' = NoFetched
  /\ UNCHANGED <<source, newest, builder, file, request, reader, last>>

-----------------------------------------------------------------------------
(* build_rows: a row per bar of the range that has a prior underlying.     *)
(* The legacy builder does not look at a candle's confirmation.            *)

Grid == {t \in Start..End : Canonical(t)}

Joined == IF builder = "canonical" THEN fetched.confirmed ELSE fetched.token

RowAt(t) ==
  [ts |-> t, token |-> t \in Joined, underlying |-> t \in fetched.underlying,
   reference |-> IF t \in fetched.index THEN t ELSE None,
   anchor |-> Newest({b \in fetched.underlying : b < t}), defect |-> "none"]

BuiltRows == {RowAt(t) : t \in {t \in Grid : \E b \in fetched.underlying : b < t}}

(* _write refuses an empty panel and replaces the file in one step.        *)
WritePanel ==
  /\ phase = "write"
  /\ IF BuiltRows = {}
     THEN phase' = "failed" /\ UNCHANGED file
     ELSE /\ phase' = "open"
          /\ file' = [NoFile EXCEPT !.schema = builder, !.rows = BuiltRows,
                                    !.began = fetched.began]
  /\ fetched' = NoFetched
  /\ UNCHANGED <<source, newest, builder, walk, request, reader, last>>

-----------------------------------------------------------------------------
(* GET /api/replay or /api/backtest, with the readiness scan of the panel  *)
(* that /api/assets reports beside it.                                     *)

Open(panel) ==
  /\ phase = "open"
  /\ file.schema = "scenario" <=> Resolved(request, panel) = "scenario"
  /\ IF Resolved(request, panel) \in {"panel", "scenario"}
     THEN /\ phase' = "read"
          /\ reader' = [NoReader EXCEPT !.scan = ScanStart(file.schema, request),
                                        !.load = LoadStart(file.schema, request)]
     ELSE phase' = Resolved(request, panel) /\ UNCHANGED reader
  /\ UNCHANGED <<source, newest, builder, walk, fetched, file, request, last>>

OpenPresent      == Open("present")
OpenAbsent       == builder = "none" /\ Open("absent")
OpenUnconfigured == builder = "none" /\ request.asset # "NVDAx" /\ Open("unconfigured")

Unread == {r \in file.rows : reader.load.prev = None \/ r.ts > reader.load.prev}

(* The scenario, which is checked in, has no comparator from the future.   *)
Given ==
  {r \in GivenRow(file.schema, reader.load.prev) :
     r \in Row /\ (file.schema = "scenario" => ~FutureReference(r))}

NextRow ==
  IF builder = "none"
  THEN IF reader.rows < MaxRows THEN Given ELSE {}
  ELSE {r \in Unread : \A q \in Unread : r.ts <= q.ts}

(* A row leans on an explicit anchor that replay cannot use: off the grid, *)
(* or given once and then left out before any underlying was seen.         *)
Sparse(row) ==
  /\ reader.load.close = None
  /\ \/ row.anchor # None /\ ~Canonical(row.anchor)
     \/ row.anchor = None /\ reader.replay.prev # None

ReadRow ==
  /\ phase = "read"
  /\ \E row \in NextRow :
       LET snapshot == SnapshotOf(file, reader.load, row)
           emitted  == Emits(file.schema, reader.load, row)
           running  == emitted /\ ReplayStatus(reader.replay, snapshot) = "running"
       IN  /\ reader' =
                [scan   |-> ScanRow(file.schema, reader.scan, row),
                 load   |-> LoadRow(file.schema, reader.load, row),
                 replay |-> IF emitted THEN ReplayStep(reader.replay, snapshot) ELSE reader.replay,
                 sparse |-> reader.sparse \/ Sparse(row),
                 rows   |-> IF builder = "none" THEN reader.rows + 1 ELSE 0]
           /\ last' = IF running
                      THEN [snapshot |-> snapshot,
                            estimate |-> Estimate(Prior(reader.replay, snapshot), snapshot)]
                      ELSE last
  /\ UNCHANGED <<source, newest, builder, phase, walk, fetched, file, request>>

EndOfFile ==
  /\ phase = "read"
  /\ builder = "none" \/ Unread = {}
  /\ phase' = Answer(reader.load, reader.replay)
  /\ reader' = [reader EXCEPT !.scan.verdict = ScanEnd(file.schema, reader.scan)]
  /\ UNCHANGED <<source, newest, builder, walk, fetched, file, request, last>>

-----------------------------------------------------------------------------
Next ==
  \/ NewBar
  \/ WalkBack \/ WalkForward \/ RateLimited \/ RequestFails
  \/ WritePanel
  \/ OpenPresent \/ OpenAbsent \/ OpenUnconfigured
  \/ ReadRow \/ EndOfFile

Spec == Init /\ [][Next]_vars

(* Every request to a vendor is answered: with a page or with a refusal    *)
(* that is retried.  Nothing is assumed of how often requests fail.        *)
LiveSpec == Spec /\ WF_vars(WalkBack \/ WalkForward \/ RateLimited)

-----------------------------------------------------------------------------
Answers == {"200", "400", "404", "500", "503"}

(* Every variable has its type.                                            *)
TypeOK ==
  /\ source \in [token : SUBSET Time, underlying : SUBSET Time, index : SUBSET Time]
  /\ newest \in Time
  /\ builder \in {"canonical", "legacy", "none"}
  /\ phase \in Walks \cup {"write", "open", "read", "failed"} \cup Answers
  /\ walk \in [cursor : Time \cup {None}, oldest : Time \cup {None}, tries : 0..MaxRetries,
                bars : SUBSET Time, confirmed : SUBSET Time, began : Time \cup {None},
                honest : BOOLEAN]
  /\ fetched \in [token : SUBSET Time, confirmed : SUBSET Time, underlying : SUBSET Time,
                   index : SUBSET Time, began : Time \cup {None}]
  /\ file \in [schema : Schema, profile : Profile, source : Source, rows : SUBSET Row,
                began : Time \cup {None}]
  /\ request \in Request
  /\ reader \in [scan : Scan, load : Load, replay : Replay, sparse : BOOLEAN, rows : Nat]
  /\ last \in [snapshot : Snapshot \cup {NoSnapshot}, estimate : Filter]

Valued == last.snapshot # NoSnapshot

(* A panel that the readiness scan calls replay-compatible is loaded and   *)
(* replayed to a non-empty answer, although scan, loader and replay check  *)
(* the file separately and in different ways; and a panel of at least two  *)
(* rows that a builder wrote is ready.  The exception are files from       *)
(* elsewhere that give an explicit anchor off the grid or only once.       *)
ReadyPanelReplays ==
  phase \in {"200", "400", "500"} /\ file.schema # "scenario" =>
    /\ reader.scan.verdict = "ready" /\ ~reader.sparse => phase = "200" /\ Valued
    /\ builder # "none" => ~reader.sparse
    /\ builder # "none" /\ Cardinality(file.rows) >= 2 => reader.scan.verdict = "ready"

(* The estimate at t rests on an anchor from before t (a scenario may start *)
(* at its anchor), on tokens up to t and on underlyings before t only, on   *)
(* all of those the panel has, and on one process-noise step per interval   *)
(* since the anchor.                                                        *)
NoLookAhead ==
  Valued =>
    LET t == last.snapshot.ts
        e == last.estimate
    IN  /\ e.since < t \/ (file.schema = "scenario" /\ e.since = last.snapshot.anchor)
        /\ \A b \in e.underlyings : b < t
        /\ e.since < t /\ file.schema # "scenario" => e.steps * Interval = t - e.since
        /\ builder # "none" =>
             /\ e.tokens = {r.ts : r \in {q \in file.rows : q.token /\ q.ts <= t}}
             /\ e.underlyings = {r.ts : r \in {q \in file.rows : q.underlying /\ q.ts < t}}

(* validate(): taking evidence away from a snapshot or making it older     *)
(* never turns its Evidence State into SUPPORTED or CHALLENGED, nor one of *)
(* these into the other; and the separately collected reason codes agree   *)
(* with the state.  (Under a legacy profile the unit check needs the       *)
(* underlying, so a missing underlying lifts it.)                          *)
WeakerEvidenceNeverPromotes ==
  Valued =>
    LET s == last.snapshot
    IN  \A j \in Judgements :
          /\ \A w \in Weakened(s) :
               \/ StateOf(w, j) \in {StateOf(s, j), "INCONCLUSIVE"}
               \/ s.profile = "legacy" /\ j.unit /\ w.underlying # s.underlying
          /\ StateOf(s, j) # "INCONCLUSIVE" =>
               ReasonsOf(s, j) \cap {"COMPARATOR_UNAVAILABLE", "TOKEN_DATA_UNAVAILABLE",
                                     "XPERP_EVIDENCE_STALE", "XPERP_EVIDENCE_AMBIGUOUS",
                                     "XPERP_CORROBORATES_XSTOCK"} = {}

(* The backward walks return every bar of the range that was confirmed     *)
(* when the walk began, and nothing the vendor does not have, whatever new *)
(* bars shift the pages meanwhile, if the vendor honours the cursor.       *)
WalkReturnsWindow ==
  [][ LET wanted == {b \in source[phase] \cap Window : b < Begun}
          got    == IF phase = "token" THEN fetched'.confirmed ELSE fetched'.index
      IN  phase \in {"token", "index"} /\ phase' = NextPhase[phase] /\ walk'.honest
            => wanted \subseteq got /\ got \subseteq source[phase] \cap Window ]_vars

(* Each walk over a vendor's history ends, even if the vendor sends the    *)
(* same page again and again and refuses requests in between.              *)
WalkEnds == \A kind \in Walks : phase = kind ~> phase # kind

(* live.py builds the snapshot of a settled bar from the same vendors on   *)
(* its own; where it succeeds, it has the same token, anchor and reference *)
(* as the row for that bar of a canonical panel built from honest pages.   *)
LiveJoinsAsPanel ==
  builder = "canonical" /\ walk.honest =>
    \A r \in file.rows :
      LET live == LiveSnapshot(source, r.ts)
      IN  r.ts < file.began /\ live # NoSnapshot =>
            live.token = r.token /\ live.anchor = r.anchor /\ live.reference = r.reference

(* "the live and backtest pipelines consume identical, causally-clean      *)
(* inputs" (live.py:17-20): the underlying observation is the same too.    *)
LiveAgreesWithPanel ==
  builder = "canonical" /\ walk.honest =>
    \A r \in file.rows :
      LET live == LiveSnapshot(source, r.ts)
      IN  r.ts < file.began /\ live # NoSnapshot =>
            live.underlying = IF r.underlying THEN r.ts ELSE None
=============================================================================
