---------------------------- MODULE HistoricalProofs ----------------------------
(***************************************************************************)
(* What the evidence classifier and the replay of a panel promise, for     *)
(* every panel, request and judgement.                                     *)
(***************************************************************************)
EXTENDS Historical, WellFoundedInduction, TLAPS

-----------------------------------------------------------------------------
(* The classifier.                                                         *)

(* w rests on no more than what s rests on, and on nothing newer.          *)
Weaker(w, s) ==
  /\ w.ts = s.ts /\ w.profile = s.profile /\ w.source = s.source
  /\ w.token => s.token
  /\ w.underlying \in {s.underlying, None}
  /\ w.anchor <= s.anchor
  /\ w.reference <= s.reference

LEMMA QualityGates ==
  ASSUME NEW s, NEW j
  PROVE  QualityAbstentions(s, j) = {} <=>
           /\ s.token
           /\ ~TooOld(s, s.anchor) /\ ~TooOld(s, s.reference)
           /\ ~j.thin
           /\ ~(j.unit /\ s.token /\ (s.profile = "unified" \/ s.underlying # None))
           /\ j.uncertainty # "invalid" /\ j.uncertainty # "high"
<1>1. QualityAbstentions(s, j) = {} <=>
        /\ When(~s.token, "TOKEN_DATA_UNAVAILABLE") = {}
        /\ When(TooOld(s, s.anchor), "UNDERLYING_REFERENCE_STALE") = {}
        /\ When(TooOld(s, s.reference), "REFERENCE_UNDER_TEST_STALE") = {}
        /\ When(j.thin, "TOKEN_MARKET_QUALITY_LOW") = {}
        /\ When(/\ j.unit /\ s.token
                /\ s.profile = "unified" \/ s.underlying # None, "TOKEN_UNIT_SUSPECT") = {}
        /\ When(j.uncertainty = "invalid", "MODEL_UNCERTAINTY_INVALID") = {}
        /\ When(j.uncertainty = "high", "MODEL_UNCERTAINTY_HIGH") = {}
  BY DEF QualityAbstentions
<1>. QED
  BY <1>1 DEF When

(* The exception: under a legacy profile the token's unit is checked       *)
(* against the current underlying.                                         *)
UnitCheckLifted(w, s, j) == s.profile = "legacy" /\ j.unit /\ w.underlying # s.underlying

LEMMA QualityOfWeaker ==
  ASSUME NEW s \in Snapshot, NEW w \in Snapshot, NEW j \in Judgement,
         Weaker(w, s), ~UnitCheckLifted(w, s, j),
         QualityAbstentions(w, j) = {}, w.reference # None
  PROVE  QualityAbstentions(s, j) = {}
<1>1. w.token /\ s.token
  BY QualityGates DEF Weaker
<1>2. ~TooOld(s, s.anchor) /\ ~TooOld(s, s.reference)
  <2>1. /\ w.ts - w.anchor <= MaxReferenceAge /\ w.ts - w.reference <= MaxReferenceAge
    BY QualityGates, ThresholdAssumption DEF TooOld, Snapshot, Time, None
  <2>. QED
    BY <2>1, ThresholdAssumption DEF Weaker, TooOld, Snapshot, Time, None
<1>3. ~(j.unit /\ s.token /\ (s.profile = "unified" \/ s.underlying # None))
  BY <1>1, QualityGates DEF Weaker, UnitCheckLifted, Snapshot, Profile
<1>4. ~j.thin /\ j.uncertainty # "invalid" /\ j.uncertainty # "high"
  BY QualityGates
<1>. QED
  BY <1>1, <1>2, <1>3, <1>4, QualityGates

LEMMA ExactOfWeaker ==
  ASSUME NEW s \in Snapshot, NEW w \in Snapshot, Weaker(w, s), s.reference <= s.ts,
         XperpExact(w)
  PROVE  XperpExact(s)
BY DEF Weaker, XperpExact, XperpPrice, Snapshot, Time, None

LEMMA UnifiedWeaker ==
  ASSUME NEW s \in Snapshot, NEW w \in Snapshot, NEW j \in Judgement,
         Weaker(w, s), ~UnitCheckLifted(w, s, j), s.reference <= s.ts
  PROVE  UnifiedState(w, j) \in {UnifiedState(s, j), "INCONCLUSIVE"}
<1>1. ASSUME XperpExact(w), QualityAbstentions(w, j) = {}
      PROVE  XperpExact(s) /\ QualityAbstentions(s, j) = {} /\ s.token /\ w.token
  BY <1>1, ExactOfWeaker, QualityOfWeaker, QualityGates DEF XperpExact, XperpPrice, Weaker
<1>2. Supports(w, j) => Supports(s, j)
  BY <1>1 DEF Supports, Band
<1>3. Challenges(w, j) => Challenges(s, j)
  BY <1>1 DEF Challenges, Band
<1>4. ~(Supports(s, j) /\ Challenges(s, j))
  BY DEF Supports, Challenges
<1>. QED
  BY <1>2, <1>3, <1>4 DEF UnifiedState

LEMMA LegacyWeaker ==
  ASSUME NEW s \in Snapshot, NEW w \in Snapshot, NEW j \in Judgement,
         Weaker(w, s), ~UnitCheckLifted(w, s, j), s.reference <= s.ts
  PROVE  LegacyState(w, j) \in {LegacyState(s, j), "INCONCLUSIVE"}
<1>1. CASE TailApplies(w, j)
  <2>1. w.underlying = s.underlying /\ w.token /\ s.token
    BY <1>1, QualityGates DEF TailApplies, Weaker, Snapshot, Time, None
  <2>2. XperpExact(s) /\ QualityAbstentions(s, j) = {}
    BY <1>1, ExactOfWeaker, QualityOfWeaker DEF TailApplies, XperpExact, XperpPrice
  <2>3. TailApplies(s, j)
    BY <1>1, <2>1, <2>2 DEF TailApplies, Weaker, Band
  <2>4. Gated(w, j) = "INCONCLUSIVE"
    BY <1>1 DEF TailApplies, XperpExact, XperpPrice, Gated, Compared
  <2>. QED
    BY <1>1, <2>3, <2>4 DEF LegacyState
<1>2. CASE ~TailApplies(w, j) /\ Gated(w, j) # "INCONCLUSIVE"
  <2>1. /\ QualityAbstentions(w, j) = {} /\ Compared(w, j) # "INCONCLUSIVE"
        /\ LegacyState(w, j) = Compared(w, j)
    BY <1>2 DEF Gated, LegacyState
  <2>2. w.reference # None /\ w.source # "okx_xperp_index" /\ j.uncertainty # "invalid"
    BY <2>1 DEF Compared
  <2>3. QualityAbstentions(s, j) = {}
    BY <2>1, <2>2, QualityOfWeaker
  <2>4. s.reference # None /\ s.source # "okx_xperp_index"
    BY <2>2 DEF Weaker, Snapshot, Time, None
  <2>5. ~TailApplies(s, j)
    BY <2>4 DEF TailApplies, XperpExact, XperpPrice
  <2>6. Compared(s, j) = Compared(w, j)
    BY <2>2, <2>4 DEF Compared
  <2>. QED
    BY <2>1, <2>3, <2>5, <2>6 DEF LegacyState, Gated
<1>3. CASE ~TailApplies(w, j) /\ Gated(w, j) = "INCONCLUSIVE"
  BY <1>3 DEF LegacyState
<1>. QED
  BY <1>1, <1>2, <1>3

(* Whatever evidence is taken away or made older, the Evidence State stays *)
(* or falls back to INCONCLUSIVE (validate); a comparator from the future  *)
(* is what the readers of a snapshot have to keep out.                     *)
THEOREM LessEvidenceNeverPromotes ==
  ASSUME NEW s \in Snapshot, NEW w \in Snapshot, NEW j \in Judgement,
         Weaker(w, s), ~UnitCheckLifted(w, s, j), s.reference <= s.ts
  PROVE  StateOf(w, j) \in {StateOf(s, j), "INCONCLUSIVE"}
BY UnifiedWeaker, LegacyWeaker DEF StateOf, Weaker

(* A result that claims something carries no reason code that denies it:   *)
(* the two are collected by separate branches of validate.                 *)
THEOREM ReasonsAgreeWithState ==
  ASSUME NEW s \in Snapshot, NEW j \in Judgement, StateOf(s, j) # "INCONCLUSIVE"
  PROVE  ReasonsOf(s, j) \cap {"COMPARATOR_UNAVAILABLE", "TOKEN_DATA_UNAVAILABLE",
                               "XPERP_EVIDENCE_STALE", "XPERP_EVIDENCE_AMBIGUOUS",
                               "XPERP_CORROBORATES_XSTOCK"} = {}
<1>. DEFINE Denials == {"COMPARATOR_UNAVAILABLE", "TOKEN_DATA_UNAVAILABLE",
                        "XPERP_EVIDENCE_STALE", "XPERP_EVIDENCE_AMBIGUOUS",
                        "XPERP_CORROBORATES_XSTOCK"}
<1>1. QualityAbstentions(s, j) = {}
  BY DEF StateOf, UnifiedState, Supports, Challenges, LegacyState, TailApplies, Gated
<1>2. s.reference # None
  BY DEF StateOf, UnifiedState, Supports, Challenges, LegacyState, TailApplies, Gated,
         Compared, XperpExact, XperpPrice
<1>3. CASE s.profile = "unified"
  <2>1. XperpExact(s)
    BY <1>3 DEF StateOf, UnifiedState, Supports, Challenges
  <2>2. Band(s, j) = "review" => j.nearer = "p1a"
    BY <1>3 DEF StateOf, UnifiedState, Supports, Challenges
  <2>3. UnifiedReasons(s, j) \cap Denials = {}
    BY <2>1, <2>2 DEF UnifiedReasons, When
  <2>. QED
    BY <1>1, <1>2, <1>3, <2>3 DEF ReasonsOf, When
<1>4. CASE s.profile # "unified"
  <2>1. ~(TailApplies(s, j) /\ j.nearer = "neither")
    BY <1>4 DEF StateOf, LegacyState, TailApplies, Gated, Compared, XperpExact, XperpPrice
  <2>2. LegacyReasons(s, j) \cap Denials = {}
    BY <2>1 DEF LegacyReasons, When
  <2>. QED
    BY <1>1, <1>2, <1>4, <2>2 DEF ReasonsOf, When
<1>. QED
  BY <1>3, <1>4

-----------------------------------------------------------------------------
(* Times.                                                                  *)

LEMMA OldestIs ==
  ASSUME NEW S \in SUBSET Nat, S # {}
  PROVE  Oldest(S) \in S /\ \A u \in S : Oldest(S) <= u
<1>. DEFINE R == OpToRel(<, Nat)
<1>1. IsWellFoundedOn(R, Nat)
  BY NatLessThanWellFounded
<1>2. \A x, y \in Nat : x < y => <<x, y>> \in R
  BY DEF OpToRel
<1>. HIDE DEF R
<1>3. PICK x \in S : \A y \in S : ~(<<y, x>> \in R)
  BY <1>1, WFMin
<1>4. ASSUME NEW y \in S
      PROVE  x <= y
  <2>1. x \in Nat /\ y \in Nat
    OBVIOUS
  <2>2. ~(y < x)
    BY <1>2, <1>3, <2>1
  <2>. QED
    BY <2>1, <2>2
<1>. QED
  BY <1>4 DEF Oldest

LEMMA NewestIs ==
  ASSUME NEW S \in SUBSET Nat, S # {}, NEW n \in Nat, \A t \in S : t <= n
  PROVE  Newest(S) \in S /\ \A u \in S : u <= Newest(S)
<1>. DEFINE D == {n - t : t \in S}
<1>1. D \in SUBSET Nat
  <2>. SUFFICES ASSUME NEW t \in S
                PROVE  n - t \in Nat
    OBVIOUS
  <2>1. t \in Nat /\ t <= n
    OBVIOUS
  <2>. QED
    BY <2>1
<1>2. D # {}
  <2>1. PICK t \in S : TRUE
    OBVIOUS
  <2>. QED
    BY <2>1
<1>3. Oldest(D) \in D /\ \A u \in D : Oldest(D) <= u
  BY <1>1, <1>2, OldestIs
<1>4. PICK x \in S : Oldest(D) = n - x
  BY <1>3
<1>5. ASSUME NEW y \in S
      PROVE  y <= x
  <2>1. n - x <= n - y
    BY <1>3, <1>4
  <2>2. x \in Nat /\ y \in Nat
    OBVIOUS
  <2>. QED
    BY <2>1, <2>2
<1>. QED
  BY <1>5 DEF Newest

(* The number of bars from one time of the grid to a later one.            *)
LEMMA BarsBetween ==
  ASSUME NEW a \in Nat, NEW t \in Nat, Canonical(a), Canonical(t), a < t
  PROVE  \E n \in Nat \ {0} : /\ t = a + n * Interval
                             /\ (t - a) \div Interval = n
<1>. DEFINE q == t \div Interval
            p == a \div Interval
<1>1. /\ q \in Nat /\ t % Interval = t - Interval * q
      /\ p \in Nat /\ a % Interval = a - Interval * p
  BY IntervalAssumption, SMT
<1>2. t = Interval * q /\ a = Interval * p
  BY <1>1, IntervalAssumption DEF Canonical
<1>. HIDE DEF q, p
<1>3. q > p
  <2>1. CASE q <= p
    <3>1. Interval * q <= Interval * p
      BY <1>1, <2>1, IntervalAssumption
    <3>. QED
      BY <1>1, <1>2, <3>1, IntervalAssumption
  <2>. QED
    BY <1>1, <2>1
<1>. DEFINE n == q - p
<1>4. n \in Nat \ {0}
  BY <1>1, <1>3
<1>5. t - a = n * Interval
  BY <1>1, <1>2, IntervalAssumption
<1>. HIDE DEF n
<1>6. (n * Interval) \div Interval = n
  BY <1>4, IntervalAssumption
<1>7. t = a + n * Interval
  BY <1>4, <1>5, IntervalAssumption
<1>. QED
  BY <1>4, <1>5, <1>6, <1>7

-----------------------------------------------------------------------------
(* Types.                                                                  *)

LEMMA PageIsOfOffered ==
  ASSUME TypeOK, phase \in Walks, NEW cursor
  PROVE  /\ Offered \in SUBSET Time
         /\ LatestPage(Offered, cursor) \in SUBSET Time
<1>1. Offered \in SUBSET Time
  BY DEF TypeOK, Walks, Offered
<1>. QED
  BY <1>1 DEF LatestPage

(* A walk's result is typed like the page it adds, and ends or goes on.    *)
LEMMA WalkTyped ==
  ASSUME TypeOK, phase \in Walks, NEW bars \in SUBSET Time, NEW confirmed \in SUBSET Time,
         NEW honest \in BOOLEAN, NEW cursor \in Time,
         Finish(bars, confirmed, honest) \/ Continue(bars, confirmed, cursor, honest),
         UNCHANGED <<source, newest, builder, file, request, reader, last>>
  PROVE  TypeOK' /\ phase' \in Walks \cup {"write"}
<1>1. Begun \in Time \cup {None}
  BY DEF TypeOK, Begun
<1>2. CASE Finish(bars, confirmed, honest)
  <2>1. phase' \in {"underlying", "index", "write"}
    BY <1>2 DEF Finish, NextPhase, Walks
  <2>2. walk' \in [cursor : Time \cup {None}, oldest : Time \cup {None}, tries : 0..MaxRetries,
                   bars : SUBSET Time, confirmed : SUBSET Time, began : Time \cup {None},
                   honest : BOOLEAN]
    BY <1>2, RangeAssumption DEF Finish, NoWalk
  <2>3. fetched' \in [token : SUBSET Time, confirmed : SUBSET Time, underlying : SUBSET Time,
                      index : SUBSET Time, began : Time \cup {None}]
    <3>1. CASE phase = "token"
      BY <1>1, <1>2, <3>1 DEF Finish, TypeOK
    <3>2. CASE phase = "underlying"
      BY <1>2, <3>2 DEF Finish, TypeOK
    <3>3. CASE phase = "index"
      BY <1>2, <3>3 DEF Finish, TypeOK
    <3>. QED
      BY <3>1, <3>2, <3>3 DEF Walks
  <2>. QED
    BY <2>1, <2>2, <2>3 DEF TypeOK, Walks
<1>3. CASE Continue(bars, confirmed, cursor, honest)
  BY <1>1, <1>3, RangeAssumption DEF Continue, TypeOK
<1>. QED
  BY <1>2, <1>3

LEMMA WalkBackTyped ==
  ASSUME TypeOK, WalkBack PROVE TypeOK' /\ phase' \in Walks \cup {"write"}
<1>1. PICK honest \in {walk.honest, FALSE} :
        LET page == LatestPage(Offered, IF honest THEN Cursor ELSE FirstCursor(phase))
            kept == page \cap Window
            bars == walk.bars \cup kept
            confirmed == walk.confirmed \cup Settled(kept)
        IN  IF Exhausted(page)
            THEN Finish(bars, confirmed, honest)
            ELSE Continue(bars, confirmed, Oldest(page), honest)
  BY DEF WalkBack
<1>. DEFINE page == LatestPage(Offered, IF honest THEN Cursor ELSE FirstCursor(phase))
            bars == walk.bars \cup (page \cap Window)
            confirmed == walk.confirmed \cup Settled(page \cap Window)
<1>2. phase \in Walks /\ honest \in BOOLEAN
  BY <1>1 DEF WalkBack, Walks, TypeOK
<1>3. page \in SUBSET Time
  BY <1>2, PageIsOfOffered
<1>. HIDE DEF page
<1>4. bars \in SUBSET Time /\ confirmed \in SUBSET Time
  BY <1>3 DEF TypeOK, Settled
<1>5. CASE Exhausted(page)
  <2>1. Finish(bars, confirmed, honest)
    BY <1>1, <1>5 DEF page
  <2>2. 0 \in Time
    BY DEF Time
  <2>. QED
    BY <1>2, <1>4, <2>1, <2>2, WalkTyped DEF WalkBack
<1>6. CASE ~Exhausted(page)
  <2>1. Continue(bars, confirmed, Oldest(page), honest)
    BY <1>1, <1>6 DEF page
  <2>2. Oldest(page) \in Time
    BY <1>3, <1>6, OldestIs DEF Exhausted, Time
  <2>. QED
    BY <1>2, <1>4, <2>1, <2>2, WalkTyped DEF WalkBack
<1>. QED
  BY <1>5, <1>6

LEMMA WalkForwardTyped ==
  ASSUME TypeOK, WalkForward PROVE TypeOK' /\ phase' \in Walks \cup {"write"}
<1>. DEFINE asked == {b \in Offered : Start - PanelLookback <= b /\ b <= End}
            page == EarliestPage(asked, walk.cursor)
            bars == walk.bars \cup page
<1>1. phase \in Walks /\ walk.honest \in BOOLEAN
  BY DEF WalkForward, Walks, TypeOK
<1>2. page \in SUBSET Time /\ \A b \in page : b <= End
  BY <1>1, PageIsOfOffered DEF EarliestPage
<1>3. bars \in SUBSET Time
  BY <1>2 DEF TypeOK
<1>4. CASE Finish(bars, bars, walk.honest)
  <2>1. 0 \in Time
    BY DEF Time
  <2>. QED
    BY <1>1, <1>3, <1>4, <2>1, WalkTyped DEF WalkForward
<1>5. CASE /\ EarliestPage(asked, IF page = {} THEN walk.cursor ELSE Newest(page)) # {}
           /\ Continue(bars, bars, Newest(page), walk.honest)
  <2>1. page # {}
    BY <1>5
  <2>2. Newest(page) \in Time
    BY <1>2, <2>1, NewestIs, RangeAssumption DEF Time
  <2>. QED
    BY <1>1, <1>3, <1>5, <2>2, WalkTyped DEF WalkForward
<1>. QED
  BY <1>4, <1>5 DEF WalkForward

(* A row that a builder wrote is anchored before its own time.             *)
LEMMA RowTyped ==
  ASSUME TypeOK, NEW t \in Grid, \E b \in fetched.underlying : b < t
  PROVE  /\ RowAt(t) \in Row
         /\ RowAt(t).ts = t /\ RowAt(t).defect = "none"
         /\ RowAt(t).anchor \in Time /\ RowAt(t).anchor < t
<1>. DEFINE priors == {b \in fetched.underlying : b < t}
<1>1. t \in Time
  BY RangeAssumption DEF Grid, Time
<1>2. priors \in SUBSET Nat /\ priors # {} /\ \A b \in priors : b <= t
  BY <1>1 DEF TypeOK, Time
<1>3. Newest(priors) \in priors
  BY <1>1, <1>2, NewestIs DEF Time
<1>4. Newest(priors) \in Time /\ Newest(priors) < t
  BY <1>2, <1>3 DEF Time
<1>. HIDE DEF priors
<1>5. RowAt(t) = [ts |-> t, token |-> t \in Joined, underlying |-> t \in fetched.underlying,
                 reference |-> IF t \in fetched.index THEN t ELSE None,
                 anchor |-> Newest(priors), defect |-> "none"]
  BY DEF RowAt, priors
<1>. QED
  BY <1>1, <1>4, <1>5 DEF Row, Defect

-----------------------------------------------------------------------------
(* The invariant.                                                          *)

(* Nothing is read before there is a file.                                 *)
Unopened ==
  phase \in Walks \cup {"write", "open"} => reader = NoReader /\ last = NoLast

(* Only a builder walks and writes.                                        *)
Building == phase \in Walks \cup {"write"} => builder # "none"

LoadOfRows ==
  /\ reader.load.close # None => reader.load.prev # None /\ reader.load.close <= reader.load.prev
  /\ file.schema = "scenario" => reader.load.close = None

(* A filter state that was carried to t: from an anchor before t it took   *)
(* one step per interval.                                                  *)
CarriedTo(filter, t) ==
  /\ filter.steps # 0 /\ filter.since <= t
  /\ \A b \in filter.underlyings : b <= t
  /\ file.schema # "scenario" => filter.since < t /\ filter.steps * Interval = t - filter.since

ReplayCarries ==
  reader.replay.prev # None => CarriedTo(reader.replay.filter, reader.replay.prev)

(* The rows that a builder wrote can be told apart by their times, and     *)
(* each can be valued.                                                     *)
BuiltFile ==
  builder # "none" =>
    /\ file.schema # "scenario"
    /\ \A r \in file.rows : r.anchor \in Time
    /\ \A q, r \in file.rows : q.ts = r.ts => q = r

TokensTo(t)      == {r.ts : r \in {q \in file.rows : q.token /\ q.ts <= t}}
UnderlyingsTo(t) == {r.ts : r \in {q \in file.rows : q.underlying /\ q.ts <= t}}

(* Of such a file, replay has assimilated what the loader has read.        *)
BuiltRead ==
  builder # "none" =>
    /\ reader.replay.status = "running" => reader.load.prev = reader.replay.prev
    /\ reader.replay.prev # None =>
         /\ reader.replay.filter.tokens = TokensTo(reader.replay.prev)
         /\ reader.replay.filter.underlyings = UnderlyingsTo(reader.replay.prev)

NoFutureComparator == Valued => last.snapshot.reference <= last.snapshot.ts

IInv ==
  /\ TypeOK /\ Unopened /\ Building /\ LoadOfRows /\ ReplayCarries /\ BuiltFile /\ BuiltRead
  /\ NoFutureComparator /\ NoLookAhead

-----------------------------------------------------------------------------
(* One row.                                                                *)

LEMMA RowRead ==
  ASSUME IInv, NEW row \in NextRow
  PROVE  row \in Row /\ (file.schema = "scenario" => ~FutureReference(row))
BY DEF IInv, TypeOK, BuiltFile, NextRow, Given, Unread

(* A row that is loaded follows the last one, and what it is compared with *)
(* and anchored to is not of its future.                                   *)
LEMMA RowLoaded ==
  ASSUME IInv, NEW row \in NextRow, LoadRow(file.schema, reader.load, row).status = "reading"
  PROVE  /\ LoadRow(file.schema, reader.load, row).prev = row.ts
         /\ ~FutureReference(row)
         /\ (file.schema # "scenario" /\ reader.load.prev # None) =>
              row.ts = reader.load.prev + Interval
         /\ (file.schema # "scenario" /\ LoadAnchor(reader.load, row) # None) =>
              LoadAnchor(reader.load, row) < row.ts
<1>. DEFINE load == reader.load
<1>1. load.status = "reading" /\ LoadStatus(file.schema, load, row) = "reading"
  BY DEF LoadRow
<1>2. LoadRow(file.schema, load, row).prev = row.ts
  BY <1>1 DEF LoadRow
<1>3. file.schema # "scenario" =>
        /\ ~OutOfStep(load.prev, row) /\ ~FutureReference(row)
        /\ ~(load.close = None /\ row.anchor # None /\ row.anchor >= row.ts)
  BY <1>1 DEF LoadStatus
<1>4. /\ row.ts \in Nat /\ row.anchor \in Nat \cup {-1}
      /\ load.prev \in Nat \cup {-1} /\ load.close \in Nat \cup {-1}
  BY RowRead DEF Row, IInv, TypeOK, Load, Time, None
<1>5. load.close # None => load.prev # None /\ load.close <= load.prev
  BY DEF IInv, LoadOfRows
<1>. QED
  BY <1>2, <1>3, <1>4, <1>5, RowRead, IntervalAssumption DEF OutOfStep, LoadAnchor, None

LEMMA LoadTyped ==
  ASSUME IInv, NEW row \in NextRow
  PROVE  /\ ScanRow(file.schema, reader.scan, row) \in Scan
         /\ LoadRow(file.schema, reader.load, row) \in Load
<1>. row \in Row /\ reader.scan \in Scan /\ reader.load \in Load
  BY RowRead DEF IInv, TypeOK
<1>1. ScanVerdict(file.schema, reader.scan, row) \in
        {"reading", "PANEL_IDENTITY_INVALID", "PANEL_SCHEMA_AMBIGUOUS", "PANEL_TIMESTAMP_INVALID"}
  BY DEF ScanVerdict
<1>2. ScanRow(file.schema, reader.scan, row) \in Scan
  BY <1>1 DEF ScanRow, Scan, Row
<1>3. LoadStatus(file.schema, reader.load, row) \in {"reading", "value_error", "key_error"}
  BY DEF LoadStatus
<1>. QED
  BY <1>2, <1>3 DEF LoadRow, Load, Row

LEMMA SnapshotTyped ==
  ASSUME IInv, NEW row \in NextRow, Emits(file.schema, reader.load, row)
  PROVE  LET snapshot == SnapshotOf(file, reader.load, row)
         IN  /\ snapshot \in Snapshot
             /\ snapshot.ts = row.ts /\ snapshot.token = row.token
             /\ snapshot.underlying = IF row.underlying THEN row.ts ELSE None
             /\ snapshot.reference <= snapshot.ts
             /\ file.schema # "scenario" => snapshot.anchor < snapshot.ts
<1>. DEFINE snapshot == SnapshotOf(file, reader.load, row)
            anchor == LoadAnchor(reader.load, row)
<1>1. /\ row \in Row /\ reader.load \in Load
      /\ file.profile \in Profile /\ file.source \in Source
  BY RowRead DEF IInv, TypeOK
<1>2. anchor \in Time
  BY <1>1 DEF Emits, LoadAnchor, Load, Row
<1>3. ~FutureReference(row) /\ (file.schema # "scenario" => anchor < row.ts)
  BY <1>2, RowLoaded DEF Emits
<1>4. snapshot.reference \in Time \cup {None} /\ snapshot.reference <= row.ts
  <2>1. CASE file.schema = "legacy_bare"
    BY <1>1, <1>2, <1>3, <2>1 DEF SnapshotOf, Row, Time, None
  <2>2. CASE file.schema # "legacy_bare"
    <3>1. snapshot.reference \in {None, row.reference}
      BY <2>2 DEF SnapshotOf
    <3>. QED
      BY <1>1, <1>3, <3>1 DEF FutureReference, Row, Time, None
  <2>. QED
    BY <2>1, <2>2
<1>5. /\ snapshot.ts = row.ts /\ snapshot.token = row.token /\ snapshot.anchor = anchor
      /\ snapshot.underlying = IF row.underlying THEN row.ts ELSE None
  BY DEF SnapshotOf
<1>6. snapshot \in Snapshot
  BY <1>1, <1>2, <1>4, <1>5 DEF SnapshotOf, Snapshot, Row
<1>. QED
  BY <1>3, <1>4, <1>5, <1>6

-----------------------------------------------------------------------------
(* One step of the filter.                                                 *)

Seen(snapshot) == IF snapshot.token THEN {snapshot.ts} ELSE {}

LEMMA PredictedFrom ==
  ASSUME NEW filter, NEW s
  PROVE  Predicted(filter, s) =
           [since |-> Initialized(filter, s).since, last |-> s.ts,
            tokens |-> Initialized(filter, s).tokens \cup Seen(s),
            underlyings |-> Initialized(filter, s).underlyings,
            steps |-> Initialized(filter, s).steps + 1]
BY Zenon DEF Predicted, Seen

(* The first snapshot is valued from its anchor, one step per bar since.   *)
LEMMA FirstEstimate ==
  ASSUME NEW s \in Snapshot, NEW replay, replay.prev = None,
         ReplayStatus(replay, s) = "running"
  PROVE  /\ s.anchor <= s.ts
         /\ \E n \in Nat \ {0} :
              /\ Predicted(Warmed(s), s) =
                   [since |-> s.anchor, last |-> s.ts, tokens |-> Seen(s),
                    underlyings |-> {}, steps |-> n]
              /\ s.anchor < s.ts => n * Interval = s.ts - s.anchor
<1>1. /\ Canonical(s.anchor) /\ Canonical(s.ts) /\ ~(s.ts < s.anchor)
  BY DEF ReplayStatus, None
<1>2. s.anchor \in Nat /\ s.ts \in Nat
  BY DEF Snapshot, Time
<1>3. CASE s.ts <= s.anchor + Interval
  <2>1. Warmed(s) = NoFilter
    BY <1>3 DEF Warmed
  <2>2. Predicted(Warmed(s), s) =
          [since |-> s.anchor, last |-> s.ts, tokens |-> Seen(s), underlyings |-> {}, steps |-> 1]
    <3>1. Initialized(Warmed(s), s) =
            [since |-> s.anchor, last |-> 0, tokens |-> {}, underlyings |-> {}, steps |-> 0]
      BY <2>1 DEF Initialized, NoFilter
    <3>2. /\ Initialized(Warmed(s), s).since = s.anchor
          /\ Initialized(Warmed(s), s).tokens = {}
          /\ Initialized(Warmed(s), s).underlyings = {}
          /\ Initialized(Warmed(s), s).steps = 0
      BY <3>1
    <3>3. Predicted(Warmed(s), s) =
            [since |-> s.anchor, last |-> s.ts, tokens |-> {} \cup Seen(s), underlyings |-> {},
             steps |-> 0 + 1]
      <4>1. Predicted(Warmed(s), s) =
              [since |-> Initialized(Warmed(s), s).since, last |-> s.ts,
               tokens |-> Initialized(Warmed(s), s).tokens \cup Seen(s),
               underlyings |-> Initialized(Warmed(s), s).underlyings,
               steps |-> Initialized(Warmed(s), s).steps + 1]
        BY PredictedFrom, Zenon
      <4>. QED
        BY <4>1, <3>2, Zenon
    <3>4. {} \cup Seen(s) = Seen(s) /\ 0 + 1 = 1
      OBVIOUS
    <3>. QED
      BY <3>3, <3>4, Zenon
  <2>3. s.anchor < s.ts => 1 * Interval = s.ts - s.anchor
    <3>. SUFFICES ASSUME s.anchor < s.ts
                  PROVE  Interval = s.ts - s.anchor
      BY IntervalAssumption
    <3>1. PICK n \in Nat \ {0} : s.ts = s.anchor + n * Interval
      BY <1>1, <1>2, BarsBetween
    <3>2. n * Interval <= Interval /\ n * Interval \in Nat
      BY <1>2, <1>3, <3>1, IntervalAssumption
    <3>3. n = 1
      <4>1. CASE n >= 2
        <5>1. n * Interval >= 2 * Interval
          BY <4>1, IntervalAssumption
        <5>. QED
          BY <5>1, <3>2, IntervalAssumption
      <4>. QED
        BY <4>1
    <3>. QED
      BY <1>2, <3>1, <3>3, IntervalAssumption
  <2>. QED
    <3>1. s.anchor <= s.ts /\ 1 \in Nat \ {0}
      BY <1>1, <1>2
    <3>. QED
      BY <2>2, <2>3, <3>1, Zenon
<1>4. CASE ~(s.ts <= s.anchor + Interval)
  <2>1. s.anchor < s.ts
    BY <1>2, <1>4, IntervalAssumption
  <2>2. PICK n \in Nat \ {0} : s.ts = s.anchor + n * Interval
                               /\ (s.ts - s.anchor) \div Interval = n
    BY <1>1, <1>2, <2>1, BarsBetween
  <2>3. Warmed(s) = [since |-> s.anchor, last |-> s.ts - Interval, tokens |-> {},
                     underlyings |-> {}, steps |-> n - 1]
    BY <1>4, <2>2 DEF Warmed
  <2>4. n # 1
    BY <1>2, <1>4, <2>2, IntervalAssumption
  <2>5. Warmed(s) # NoFilter /\ (n - 1) + 1 = n
    BY <2>3, <2>4 DEF NoFilter
  <2>6. Predicted(Warmed(s), s) =
          [since |-> s.anchor, last |-> s.ts, tokens |-> Seen(s), underlyings |-> {}, steps |-> n]
    <3>1. Initialized(Warmed(s), s) = Warmed(s)
      BY <2>5 DEF Initialized
    <3>2. /\ Warmed(s).since = s.anchor /\ Warmed(s).tokens = {}
          /\ Warmed(s).underlyings = {} /\ Warmed(s).steps = n - 1
      BY <2>3
    <3>3. /\ Initialized(Warmed(s), s).since = s.anchor
          /\ Initialized(Warmed(s), s).tokens = {}
          /\ Initialized(Warmed(s), s).underlyings = {}
          /\ Initialized(Warmed(s), s).steps = n - 1
      BY <3>1, <3>2, Zenon
    <3>4. Predicted(Warmed(s), s) =
            [since |-> s.anchor, last |-> s.ts, tokens |-> {} \cup Seen(s), underlyings |-> {},
             steps |-> (n - 1) + 1]
      <4>1. Predicted(Warmed(s), s) =
              [since |-> Initialized(Warmed(s), s).since, last |-> s.ts,
               tokens |-> Initialized(Warmed(s), s).tokens \cup Seen(s),
               underlyings |-> Initialized(Warmed(s), s).underlyings,
               steps |-> Initialized(Warmed(s), s).steps + 1]
        BY PredictedFrom, Zenon
      <4>. QED
        BY <4>1, <3>3, Zenon
    <3>5. {} \cup Seen(s) = Seen(s)
      OBVIOUS
    <3>. QED
      BY <2>5, <3>4, <3>5, Zenon
  <2>7. n * Interval = s.ts - s.anchor
    BY <1>2, <2>2, IntervalAssumption
  <2>8. s.anchor <= s.ts
    BY <1>2, <2>1
  <2>. QED
    BY <2>6, <2>7, <2>8, Zenon
<1>. QED
  BY <1>3, <1>4

LEMMA NextEstimate ==
  ASSUME NEW s, NEW filter \in Filter, filter.steps # 0
  PROVE  Predicted(filter, s) =
           [since |-> filter.since, last |-> s.ts, tokens |-> filter.tokens \cup Seen(s),
            underlyings |-> filter.underlyings, steps |-> filter.steps + 1]
<1>1. filter # NoFilter
  BY DEF NoFilter
<1>. QED
  BY <1>1 DEF Predicted, Initialized, Seen

(* What the running replay makes of the row it reads.                      *)
LEMMA StepCarries ==
  ASSUME IInv, NEW row \in NextRow, Emits(file.schema, reader.load, row),
         ReplayStatus(reader.replay, SnapshotOf(file, reader.load, row)) = "running"
  PROVE  LET s == SnapshotOf(file, reader.load, row)
             p == Prior(reader.replay, s)
             e == Estimate(p, s)
         IN  /\ e \in Filter
             /\ e.tokens = (IF reader.replay.prev = None THEN {} ELSE reader.replay.filter.tokens)
                             \cup Seen(s)
             /\ e.underlyings = IF reader.replay.prev = None THEN {}
                                ELSE reader.replay.filter.underlyings
             /\ e.steps # 0
             /\ e.since < s.ts \/ (file.schema = "scenario" /\ e.since = s.anchor)
             /\ e.since <= s.ts
             /\ \A b \in e.underlyings : b < s.ts
             /\ file.schema # "scenario" => e.steps * Interval = s.ts - e.since
             /\ reader.replay.prev # None => s.ts = reader.replay.prev + Interval
<1>. DEFINE s == SnapshotOf(file, reader.load, row)
            R == reader.replay
            e == Estimate(Prior(R, s), s)
<1>1. /\ s \in Snapshot /\ (file.schema # "scenario" => s.anchor < s.ts)
  BY SnapshotTyped
<1>2. R \in Replay /\ ReplayStatus(R, s) = "running"
  BY DEF IInv, TypeOK
<1>3. s.ts \in Nat /\ s.anchor \in Nat
  BY <1>1 DEF Snapshot, Time
<1>. HIDE DEF s
<1>4. Seen(s) \in SUBSET Time
  BY <1>3 DEF Seen, Time
<1>5. CASE R.prev = None
  <2>1. e = Predicted(Warmed(s), s)
    BY <1>5 DEF Estimate, Prior
  <2>2. PICK n \in Nat \ {0} :
          /\ e = [since |-> s.anchor, last |-> s.ts, tokens |-> Seen(s),
                  underlyings |-> {}, steps |-> n]
          /\ s.anchor < s.ts => n * Interval = s.ts - s.anchor
    BY <1>1, <1>2, <1>5, <2>1, FirstEstimate
  <2>3. s.anchor <= s.ts
    BY <1>1, <1>2, <1>5, FirstEstimate
  <2>. HIDE DEF e
  <2>4. /\ e.since = s.anchor /\ e.tokens = Seen(s) /\ e.underlyings = {} /\ e.steps = n
        /\ e \in Filter
    BY <2>2, <1>3, <1>4 DEF Filter, Time
  <2>5. e.since < s.ts \/ (file.schema = "scenario" /\ e.since = s.anchor)
    BY <1>1, <2>4
  <2>6. file.schema # "scenario" => e.steps * Interval = s.ts - e.since
    BY <1>1, <2>2, <2>4
  <2>. QED
    BY <1>3, <1>5, <2>3, <2>4, <2>5, <2>6 DEF e, s
<1>6. CASE R.prev # None
  <2>1. /\ R.filter \in Filter /\ R.prev \in Nat /\ R.filter.since \in Nat
        /\ R.filter.steps \in Nat /\ R.filter.tokens \in SUBSET Time
        /\ R.filter.underlyings \in SUBSET Time
    BY <1>2, <1>6 DEF Replay, Filter, Time, None
  <2>2. CarriedTo(R.filter, R.prev)
    BY <1>6 DEF IInv, ReplayCarries
  <2>3. e = [since |-> R.filter.since, last |-> s.ts, tokens |-> R.filter.tokens \cup Seen(s),
             underlyings |-> R.filter.underlyings, steps |-> R.filter.steps + 1]
    BY <1>6, <2>1, <2>2, NextEstimate DEF Estimate, Prior, CarriedTo
  <2>4. s.ts = R.prev + Interval
    BY <1>2, <1>6 DEF ReplayStatus, OutOfStep
  <2>. HIDE DEF e
  <2>5. /\ e.since = R.filter.since /\ e.tokens = R.filter.tokens \cup Seen(s)
        /\ e.underlyings = R.filter.underlyings /\ e.steps = R.filter.steps + 1
    BY <2>3
  <2>6. e \in Filter
    BY <1>3, <1>4, <2>1, <2>3 DEF Filter, Time
  <2>7. e.since < s.ts
    BY <2>1, <2>2, <2>4, <2>5, IntervalAssumption DEF CarriedTo
  <2>8. ASSUME NEW b \in e.underlyings
        PROVE  b < s.ts
    <3>1. b \in Nat /\ b <= R.prev
      BY <2>1, <2>2, <2>5 DEF CarriedTo, Time
    <3>. QED
      BY <2>1, <2>4, <3>1, IntervalAssumption
  <2>9. file.schema # "scenario" => e.steps * Interval = s.ts - e.since
    <3>. SUFFICES ASSUME file.schema # "scenario"
                  PROVE  e.steps * Interval = s.ts - e.since
      OBVIOUS
    <3>1. R.filter.steps * Interval = R.prev - R.filter.since
      BY <2>2 DEF CarriedTo
    <3>2. (R.filter.steps + 1) * Interval = R.filter.steps * Interval + Interval
      BY <2>1, IntervalAssumption
    <3>. QED
      BY <2>1, <2>4, <2>5, <3>1, <3>2, IntervalAssumption
  <2>10. e.steps # 0
    BY <2>1, <2>5
  <2>11. e.since <= s.ts
    BY <2>1, <2>5, <2>7, <1>3
  <2>. QED
    BY <1>6, <2>4, <2>5, <2>6, <2>7, <2>8, <2>9, <2>10, <2>11 DEF e, s
<1>. QED
  BY <1>5, <1>6

(* What the step carries on to the next row.                               *)
LEMMA CarriedOn ==
  ASSUME NEW s \in Snapshot, NEW filter, Estimate(filter, s) \in Filter
  PROVE  /\ Carried(filter, s) \in Filter
         /\ Carried(filter, s).since = Estimate(filter, s).since
         /\ Carried(filter, s).steps = Estimate(filter, s).steps
         /\ Carried(filter, s).tokens = Estimate(filter, s).tokens
         /\ Carried(filter, s).underlyings =
              Estimate(filter, s).underlyings
                \cup (IF s.underlying = None THEN {} ELSE {s.underlying})
<1>. DEFINE e == Estimate(filter, s)
            taken == IF s.underlying = None THEN {} ELSE {s.underlying}
<1>1. Carried(filter, s) = [e EXCEPT !.underlyings = @ \cup taken]
  BY DEF Carried, Assimilated, Estimate
<1>2. taken \in SUBSET Time
  BY DEF Snapshot
<1>. HIDE DEF e, taken
<1>3. e \in Filter
  BY DEF e
<1>. QED
  BY <1>1, <1>2, <1>3 DEF Filter, e, taken

LEMMA ReplayTyped ==
  ASSUME IInv, NEW row \in NextRow, Emits(file.schema, reader.load, row)
  PROVE  LET s == SnapshotOf(file, reader.load, row)
             R == reader.replay
         IN  /\ ReplayStep(R, s) \in Replay
             /\ ReplayStatus(R, s) = "running" =>
                  ReplayStep(R, s) = [status |-> "running", prev |-> s.ts,
                                      filter |-> Carried(Prior(R, s), s)]
             /\ ReplayStatus(R, s) # "running" =>
                  /\ ReplayStep(R, s).status # "running"
                  /\ ReplayStep(R, s).prev = R.prev
                  /\ ReplayStep(R, s).filter = R.filter
<1>. DEFINE s == SnapshotOf(file, reader.load, row)
            R == reader.replay
<1>1. s \in Snapshot /\ R \in Replay
  BY SnapshotTyped DEF IInv, TypeOK
<1>2. CASE ReplayStatus(R, s) = "running"
  <2>1. ReplayStep(R, s) = [status |-> "running", prev |-> s.ts,
                            filter |-> Carried(Prior(R, s), s)]
    BY <1>2 DEF ReplayStep
  <2>2. Carried(Prior(R, s), s) \in Filter
    BY <1>1, <1>2, StepCarries, CarriedOn
  <2>3. s.ts \in Time
    BY <1>1 DEF Snapshot
  <2>. HIDE DEF s, R
  <2>. QED
    BY <1>2, <2>1, <2>2, <2>3 DEF Replay, s, R
<1>3. CASE ReplayStatus(R, s) # "running"
  <2>1. ReplayStatus(R, s) \in {"running", "gap_error", "value_error"}
    BY <1>1 DEF ReplayStatus, Replay
  <2>2. ReplayStep(R, s) = [R EXCEPT !.status = ReplayStatus(R, s)]
    BY <1>3 DEF ReplayStep
  <2>. HIDE DEF s, R
  <2>. QED
    BY <1>1, <1>3, <2>1, <2>2 DEF Replay, s, R
<1>. QED
  BY <1>2, <1>3

(* The rows of a built file up to the next row: the ones read, and it.     *)
LEMMA RowsUpTo ==
  ASSUME IInv, builder # "none", NEW row \in NextRow, NEW q \in file.rows
  PROVE  /\ row \in file.rows
         /\ q.ts <= row.ts <=> q = row \/ (reader.load.prev # None /\ q.ts <= reader.load.prev)
         /\ q.ts < row.ts <=> reader.load.prev # None /\ q.ts <= reader.load.prev
<1>1. /\ row \in Unread /\ \A r \in Unread : row.ts <= r.ts
      /\ row \in file.rows
  BY DEF NextRow, Unread
<1>2. /\ q.ts \in Nat /\ row.ts \in Nat
      /\ reader.load.prev = None \/ reader.load.prev \in Nat
  BY <1>1 DEF IInv, TypeOK, Row, Load, Time
<1>3. q.ts = row.ts => q = row
  BY <1>1 DEF IInv, BuiltFile
<1>4. q \notin Unread <=> reader.load.prev # None /\ q.ts <= reader.load.prev
  BY <1>2 DEF Unread
<1>5. reader.load.prev = None \/ reader.load.prev < row.ts
  BY <1>1, <1>2 DEF Unread
<1>. QED
  BY <1>1, <1>2, <1>3, <1>4, <1>5

LEMMA BuiltStep ==
  ASSUME IInv, builder # "none", NEW row \in NextRow
  PROVE  LET prev == reader.load.prev
             own(is) == IF is THEN {row.ts} ELSE {}
             before(S) == IF prev = None THEN {} ELSE S
         IN  /\ TokensTo(row.ts) = before(TokensTo(prev)) \cup own(row.token)
             /\ UnderlyingsTo(row.ts) = before(UnderlyingsTo(prev)) \cup own(row.underlying)
             /\ {r.ts : r \in {q \in file.rows : q.underlying /\ q.ts < row.ts}} =
                  before(UnderlyingsTo(prev))
<1>. DEFINE prev == reader.load.prev
<1>1. \A q \in file.rows :
        /\ row \in file.rows
        /\ q.ts <= row.ts <=> q = row \/ (prev # None /\ q.ts <= prev)
        /\ q.ts < row.ts <=> prev # None /\ q.ts <= prev
  BY RowsUpTo
<1>2. row \in file.rows
  BY DEF NextRow, Unread
<1>. HIDE DEF prev
<1>3. CASE prev = None
  <2>1. {q \in file.rows : q.token /\ q.ts <= row.ts} = IF row.token THEN {row} ELSE {}
    BY <1>1, <1>2, <1>3
  <2>2. {q \in file.rows : q.underlying /\ q.ts <= row.ts} = IF row.underlying THEN {row} ELSE {}
    BY <1>1, <1>2, <1>3
  <2>3. {q \in file.rows : q.underlying /\ q.ts < row.ts} = {}
    BY <1>1, <1>3
  <2>4. TokensTo(row.ts) = IF row.token THEN {row.ts} ELSE {}
    BY <2>1 DEF TokensTo
  <2>5. UnderlyingsTo(row.ts) = IF row.underlying THEN {row.ts} ELSE {}
    BY <2>2 DEF UnderlyingsTo
  <2>6. {r.ts : r \in {q \in file.rows : q.underlying /\ q.ts < row.ts}} = {}
    BY <2>3
  <2>. QED
    BY <1>3, <2>4, <2>5, <2>6 DEF prev
<1>4. CASE prev # None
  <2>1. {q \in file.rows : q.token /\ q.ts <= row.ts} =
          {q \in file.rows : q.token /\ q.ts <= prev} \cup (IF row.token THEN {row} ELSE {})
    BY <1>1, <1>2, <1>4
  <2>2. {q \in file.rows : q.underlying /\ q.ts <= row.ts} =
          {q \in file.rows : q.underlying /\ q.ts <= prev}
            \cup (IF row.underlying THEN {row} ELSE {})
    BY <1>1, <1>2, <1>4
  <2>3. {q \in file.rows : q.underlying /\ q.ts < row.ts} =
          {q \in file.rows : q.underlying /\ q.ts <= prev}
    BY <1>1, <1>4
  <2>4. TokensTo(row.ts) = TokensTo(prev) \cup (IF row.token THEN {row.ts} ELSE {})
    BY <2>1 DEF TokensTo
  <2>5. UnderlyingsTo(row.ts) =
          UnderlyingsTo(prev) \cup (IF row.underlying THEN {row.ts} ELSE {})
    BY <2>2 DEF UnderlyingsTo
  <2>6. {r.ts : r \in {q \in file.rows : q.underlying /\ q.ts < row.ts}} = UnderlyingsTo(prev)
    BY <2>3 DEF UnderlyingsTo
  <2>. QED
    BY <1>4, <2>4, <2>5, <2>6 DEF prev
<1>. QED
  BY <1>3, <1>4

(* A row that is valued.                                                   *)
LEMMA RunningRow ==
  ASSUME IInv, NEW row \in NextRow, Emits(file.schema, reader.load, row),
         ReplayStatus(reader.replay, SnapshotOf(file, reader.load, row)) = "running",
         UNCHANGED <<builder, file>>,
         LET s == SnapshotOf(file, reader.load, row)
         IN  /\ reader'.load = LoadRow(file.schema, reader.load, row)
             /\ reader'.replay = ReplayStep(reader.replay, s)
             /\ last' = [snapshot |-> s, estimate |-> Estimate(Prior(reader.replay, s), s)]
  PROVE  /\ ReplayCarries' /\ BuiltRead' /\ NoFutureComparator' /\ NoLookAhead'
         /\ last' \in [snapshot : Snapshot \cup {NoSnapshot}, estimate : Filter]
<1>. DEFINE s == SnapshotOf(file, reader.load, row)
            R == reader.replay
            e == Estimate(Prior(R, s), s)
            c == Carried(Prior(R, s), s)
<1>1. /\ s \in Snapshot /\ s.ts = row.ts /\ s.token = row.token
      /\ s.underlying = (IF row.underlying THEN row.ts ELSE None)
      /\ s.reference <= s.ts
  BY SnapshotTyped
<1>2. /\ e \in Filter
      /\ e.tokens = (IF R.prev = None THEN {} ELSE R.filter.tokens) \cup Seen(s)
      /\ e.underlyings = IF R.prev = None THEN {} ELSE R.filter.underlyings
      /\ e.steps # 0
      /\ e.since < s.ts \/ (file.schema = "scenario" /\ e.since = s.anchor)
      /\ e.since <= s.ts
      /\ \A b \in e.underlyings : b < s.ts
      /\ file.schema # "scenario" => e.steps * Interval = s.ts - e.since
  BY StepCarries
<1>3. /\ c \in Filter /\ c.since = e.since /\ c.steps = e.steps /\ c.tokens = e.tokens
      /\ c.underlyings = e.underlyings \cup (IF s.underlying = None THEN {} ELSE {s.underlying})
  BY <1>1, <1>2, CarriedOn
<1>4. reader'.replay = [status |-> "running", prev |-> s.ts, filter |-> c]
  BY ReplayTyped
<1>5. reader'.load.prev = row.ts /\ LoadRow(file.schema, reader.load, row).status = "reading"
  BY RowLoaded DEF Emits
<1>6. last' = [snapshot |-> s, estimate |-> e]
  OBVIOUS
<1>7. s.ts \in Nat /\ row.ts \in Nat
  BY <1>1 DEF Snapshot, Time
<1>8. R.status = "running"
  BY DEF ReplayStatus
<1>. HIDE DEF s, e, c
<1>9. /\ reader'.replay.prev = s.ts /\ reader'.replay.filter = c
      /\ reader'.replay.status = "running"
      /\ last'.snapshot = s /\ last'.estimate = e
  BY <1>4, <1>6
<1>10. CarriedTo(reader.replay.filter, reader.replay.prev)'
  <2>1. s.underlying = s.ts \/ s.underlying = None
    BY <1>1
  <2>2. \A b \in c.underlyings : b <= s.ts
    <3>. SUFFICES ASSUME NEW b \in c.underlyings
                  PROVE  b <= s.ts
      OBVIOUS
    <3>1. b \in e.underlyings \/ b = s.ts
      BY <1>3, <2>1
    <3>2. b \in Nat
      BY <1>3 DEF Filter, Time
    <3>. QED
      BY <1>2, <1>7, <3>1, <3>2
  <2>. DEFINE f == reader'.replay.filter
              t == reader'.replay.prev
  <2>3. f.steps # 0 /\ f.since <= t /\ \A b \in f.underlyings : b <= t
    BY <1>2, <1>3, <1>9, <2>2
  <2>4. file'.schema # "scenario" => f.since < t /\ f.steps * Interval = t - f.since
    BY <1>2, <1>3, <1>9
  <2>. QED
    BY <2>3, <2>4 DEF CarriedTo
<1>11. ReplayCarries'
  BY <1>10 DEF ReplayCarries
<1>12. NoFutureComparator'
  BY <1>1, <1>9 DEF NoFutureComparator
<1>13. last' \in [snapshot : Snapshot \cup {NoSnapshot}, estimate : Filter]
  BY <1>1, <1>2, <1>6
<1>14. ASSUME builder # "none"
       PROVE  /\ reader.load.prev = R.prev
              /\ c.tokens = TokensTo(s.ts) /\ c.underlyings = UnderlyingsTo(s.ts)
              /\ e.tokens = TokensTo(s.ts)
              /\ e.underlyings = {r.ts : r \in {q \in file.rows : q.underlying /\ q.ts < s.ts}}
  <2>1. /\ reader.load.prev = R.prev
        /\ R.prev # None => /\ R.filter.tokens = TokensTo(R.prev)
                           /\ R.filter.underlyings = UnderlyingsTo(R.prev)
    BY <1>8, <1>14 DEF IInv, BuiltRead
  <2>2. Seen(s) = IF row.token THEN {row.ts} ELSE {}
    BY <1>1 DEF Seen
  <2>3. e.tokens = TokensTo(s.ts)
    BY <1>1, <1>2, <1>14, <2>1, <2>2, BuiltStep
  <2>4. e.underlyings = {r.ts : r \in {q \in file.rows : q.underlying /\ q.ts < s.ts}}
    BY <1>1, <1>2, <1>14, <2>1, BuiltStep
  <2>5. (IF s.underlying = None THEN {} ELSE {s.underlying}) =
          IF row.underlying THEN {row.ts} ELSE {}
    BY <1>1, <1>7 DEF None
  <2>6. c.underlyings = UnderlyingsTo(s.ts)
    BY <1>1, <1>2, <1>3, <1>14, <2>1, <2>5, BuiltStep
  <2>. QED
    BY <1>3, <2>1, <2>3, <2>4, <2>6
<1>15. BuiltRead'
  <2>. SUFFICES ASSUME builder' # "none"
                PROVE  /\ reader'.load.prev = reader'.replay.prev
                       /\ reader'.replay.filter.tokens = TokensTo(reader.replay.prev)'
                       /\ reader'.replay.filter.underlyings = UnderlyingsTo(reader.replay.prev)'
    BY DEF BuiltRead
  <2>1. /\ TokensTo(reader.replay.prev)' = TokensTo(s.ts)
        /\ UnderlyingsTo(reader.replay.prev)' = UnderlyingsTo(s.ts)
    BY <1>9 DEF TokensTo, UnderlyingsTo
  <2>. QED
    BY <1>1, <1>5, <1>9, <1>14, <2>1
<1>16. NoLookAhead'
  <2>1. builder' # "none" =>
          /\ e.tokens = {r.ts : r \in {q \in file'.rows : q.token /\ q.ts <= s.ts}}
          /\ e.underlyings = {r.ts : r \in {q \in file'.rows : q.underlying /\ q.ts < s.ts}}
    BY <1>14 DEF TokensTo
  <2>. QED
    BY <1>2, <1>9, <2>1 DEF NoLookAhead
<1>. QED
  BY <1>11, <1>12, <1>13, <1>15, <1>16

(* A row that is not valued changes none of what was.                      *)
LEMMA OtherRow ==
  ASSUME IInv, NEW row \in NextRow, UNCHANGED <<builder, file, last>>,
         LET s == SnapshotOf(file, reader.load, row)
             emitted == Emits(file.schema, reader.load, row)
         IN  /\ ~(emitted /\ ReplayStatus(reader.replay, s) = "running")
             /\ reader'.load = LoadRow(file.schema, reader.load, row)
             /\ reader'.replay = IF emitted THEN ReplayStep(reader.replay, s) ELSE reader.replay
  PROVE  /\ ReplayCarries' /\ BuiltRead' /\ NoFutureComparator' /\ NoLookAhead'
         /\ last' \in [snapshot : Snapshot \cup {NoSnapshot}, estimate : Filter]
<1>. DEFINE s == SnapshotOf(file, reader.load, row)
            R == reader.replay
            emitted == Emits(file.schema, reader.load, row)
<1>1. reader'.replay.prev = R.prev /\ reader'.replay.filter = R.filter
  BY ReplayTyped
<1>2. reader'.replay.status = "running" => R.status = "running" /\ ~emitted
  BY ReplayTyped
<1>3. ReplayCarries'
  BY <1>1 DEF IInv, ReplayCarries, CarriedTo
<1>4. BuiltRead'
  <2>. SUFFICES ASSUME builder # "none"
                PROVE  /\ reader'.replay.status = "running" => reader'.load.prev = R.prev
                       /\ R.prev # None => /\ R.filter.tokens = TokensTo(R.prev)
                                          /\ R.filter.underlyings = UnderlyingsTo(R.prev)
    BY <1>1 DEF BuiltRead, TokensTo, UnderlyingsTo
  <2>1. row.anchor # None
    BY DEF IInv, BuiltFile, NextRow, Unread, Time, None
  <2>2. ~emitted => LoadRow(file.schema, reader.load, row).status # "reading"
    BY <2>1 DEF Emits, LoadAnchor
  <2>3. LoadRow(file.schema, reader.load, row).status # "reading" =>
          reader'.load.prev = reader.load.prev
    BY DEF LoadRow
  <2>4. /\ R.status = "running" => reader.load.prev = R.prev
        /\ R.prev # None => /\ R.filter.tokens = TokensTo(R.prev)
                           /\ R.filter.underlyings = UnderlyingsTo(R.prev)
    BY DEF IInv, BuiltRead
  <2>. QED
    BY <1>2, <2>2, <2>3, <2>4
<1>5. NoFutureComparator' /\ NoLookAhead'
  BY DEF IInv, NoFutureComparator, NoLookAhead, Valued
<1>. QED
  BY <1>3, <1>4, <1>5 DEF IInv, TypeOK

LEMMA ReadRowKeepsIInv == ASSUME IInv, ReadRow PROVE IInv'
<1>1. PICK row \in NextRow :
        LET snapshot == SnapshotOf(file, reader.load, row)
            emitted  == Emits(file.schema, reader.load, row)
            running  == emitted /\ ReplayStatus(reader.replay, snapshot) = "running"
        IN  /\ reader' =
                 [scan   |-> ScanRow(file.schema, reader.scan, row),
                  load   |-> LoadRow(file.schema, reader.load, row),
                  replay |-> IF emitted THEN ReplayStep(reader.replay, snapshot)
                             ELSE reader.replay,
                  sparse |-> reader.sparse \/ Sparse(row),
                  rows   |-> IF builder = "none" THEN reader.rows + 1 ELSE 0]
            /\ last' = IF running
                       THEN [snapshot |-> snapshot,
                             estimate |-> Estimate(Prior(reader.replay, snapshot), snapshot)]
                       ELSE last
  BY DEF ReadRow
<1>2. /\ phase = "read"
      /\ UNCHANGED <<source, newest, builder, phase, walk, fetched, file, request>>
  BY DEF ReadRow
<1>. DEFINE snapshot == SnapshotOf(file, reader.load, row)
            emitted  == Emits(file.schema, reader.load, row)
            running  == emitted /\ ReplayStatus(reader.replay, snapshot) = "running"
<1>3. /\ reader'.load = LoadRow(file.schema, reader.load, row)
      /\ reader'.replay = IF emitted THEN ReplayStep(reader.replay, snapshot) ELSE reader.replay
  BY <1>1
<1>4. /\ ReplayCarries' /\ BuiltRead' /\ NoFutureComparator' /\ NoLookAhead'
      /\ last' \in [snapshot : Snapshot \cup {NoSnapshot}, estimate : Filter]
  <2>1. CASE running
    <3>1. /\ reader'.replay = ReplayStep(reader.replay, snapshot)
          /\ last' = [snapshot |-> snapshot,
                      estimate |-> Estimate(Prior(reader.replay, snapshot), snapshot)]
      BY <1>1, <1>3, <2>1
    <3>. QED
      BY <1>2, <1>3, <2>1, <3>1, RunningRow
  <2>2. CASE ~running
    <3>1. last' = last
      BY <1>1, <2>2
    <3>. QED
      BY <1>2, <1>3, <2>2, <3>1, OtherRow
  <2>. QED
    BY <2>1, <2>2
<1>5. TypeOK'
  <2>1. /\ ScanRow(file.schema, reader.scan, row) \in Scan
        /\ LoadRow(file.schema, reader.load, row) \in Load
    BY LoadTyped
  <2>2. (IF emitted THEN ReplayStep(reader.replay, snapshot) ELSE reader.replay) \in Replay
    BY ReplayTyped DEF IInv, TypeOK
  <2>3. (reader.sparse \/ Sparse(row)) \in BOOLEAN
    OBVIOUS
  <2>4. (IF builder = "none" THEN reader.rows + 1 ELSE 0) \in Nat
    BY DEF IInv, TypeOK
  <2>. HIDE DEF snapshot, emitted
  <2>5. reader' \in [scan : Scan, load : Load, replay : Replay, sparse : BOOLEAN, rows : Nat]
    BY <1>1, <2>1, <2>2, <2>3, <2>4 DEF snapshot, emitted
  <2>. QED
    BY <1>2, <1>4, <2>5 DEF IInv, TypeOK
<1>6. LoadOfRows'
  <2>. DEFINE load == LoadRow(file.schema, reader.load, row)
  <2>1. CASE load.status # "reading"
    <3>1. load.prev = reader.load.prev /\ load.close = reader.load.close
      BY <2>1 DEF LoadRow
    <3>. QED
      BY <1>2, <1>3, <3>1 DEF IInv, LoadOfRows
  <2>2. CASE load.status = "reading"
    <3>1. /\ load.prev = row.ts
          /\ load.close = IF row.underlying /\ file.schema # "scenario" THEN row.ts
                          ELSE reader.load.close
      BY <2>2 DEF LoadRow
    <3>2. (file.schema # "scenario" /\ reader.load.prev # None) =>
            row.ts = reader.load.prev + Interval
      BY <2>2, RowLoaded
    <3>3. /\ row.ts \in Nat /\ reader.load.close \in Nat \cup {-1}
          /\ reader.load.prev \in Nat \cup {-1}
      BY RowRead DEF IInv, TypeOK, Row, Load, Time, None
    <3>4. /\ reader.load.close # None =>
                reader.load.prev # None /\ reader.load.close <= reader.load.prev
          /\ file.schema = "scenario" => reader.load.close = None
      BY DEF IInv, LoadOfRows
    <3>5. load.close # None => load.prev # None /\ load.close <= load.prev
      BY <3>1, <3>2, <3>3, <3>4, IntervalAssumption DEF None
    <3>. QED
      BY <1>2, <1>3, <3>1, <3>4, <3>5 DEF LoadOfRows
  <2>. QED
    BY <2>1, <2>2
<1>7. Unopened' /\ Building' /\ BuiltFile'
  BY <1>2 DEF IInv, Unopened, Building, BuiltFile, Walks
<1>. QED
  BY <1>4, <1>5, <1>6, <1>7 DEF IInv

-----------------------------------------------------------------------------
(* The other steps.                                                        *)

LEMMA NothingYetTyped ==
  /\ ReplayStart \in Replay /\ NoFilter \in Filter
  /\ NoReader \in [scan : Scan, load : Load, replay : Replay, sparse : BOOLEAN, rows : Nat]
  /\ NoLast \in [snapshot : Snapshot \cup {NoSnapshot}, estimate : Filter]
  /\ NoWalk \in [cursor : Time \cup {None}, oldest : Time \cup {None}, tries : 0..MaxRetries,
                 bars : SUBSET Time, confirmed : SUBSET Time, began : Time \cup {None},
                 honest : BOOLEAN]
  /\ NoFetched \in [token : SUBSET Time, confirmed : SUBSET Time, underlying : SUBSET Time,
                    index : SUBSET Time, began : Time \cup {None}]
<1>1. NoFilter \in Filter
  BY DEF NoFilter, Filter, Time
<1>2. ReplayStart \in Replay
  BY <1>1 DEF ReplayStart, Replay
<1>3. NoReader.scan \in Scan /\ NoReader.load \in Load
  BY DEF NoReader, ScanStart, HeaderRejected, Scan, Load
<1>4. NoReader \in [scan : Scan, load : Load, replay : Replay, sparse : BOOLEAN, rows : Nat]
  BY <1>2, <1>3 DEF NoReader
<1>5. NoLast \in [snapshot : Snapshot \cup {NoSnapshot}, estimate : Filter]
  BY <1>1 DEF NoLast
<1>. QED
  BY <1>1, <1>2, <1>4, <1>5, RangeAssumption DEF NoWalk, NoFetched

LEMMA NothingValued ==
  ASSUME reader.load.prev = None, reader.load.close = None, reader.replay = ReplayStart,
         last = NoLast
  PROVE  LoadOfRows /\ ReplayCarries /\ BuiltRead /\ NoFutureComparator /\ NoLookAhead
<1>1. ~Valued
  BY DEF Valued, NoLast
<1>2. reader.replay.prev = None
  BY DEF ReplayStart
<1>. QED
  BY <1>1, <1>2 DEF LoadOfRows, ReplayCarries, BuiltRead, NoFutureComparator, NoLookAhead

(* Until a file is opened, only the types and the file matter.             *)
LEMMA UnopenedIInv ==
  ASSUME TypeOK, reader = NoReader, last = NoLast, Building, BuiltFile
  PROVE  IInv
<1>1. reader.load.prev = None /\ reader.load.close = None /\ reader.replay = ReplayStart
  BY DEF NoReader
<1>. QED
  BY <1>1, NothingValued DEF IInv, Unopened

LEMMA InitIInv == ASSUME Init PROVE IInv
<1>. DEFINE Builds == /\ builder \in {"canonical", "legacy"} /\ source \in Sources
                         /\ phase = "token" /\ file = NoFile /\ request = BuiltRequest
            Reads ==
              /\ builder = "none" /\ source = [token |-> {}, underlying |-> {}, index |-> {}]
              /\ phase = "open" /\ request \in Requests
              /\ \E schema \in Schema, profile \in Profile, comparator \in Source :
                   file = [schema |-> schema, profile |-> profile, source |-> comparator,
                           rows |-> {}, began |-> None]
<1>0. /\ newest = End
      /\ walk = NoWalk /\ fetched = NoFetched /\ reader = NoReader /\ last = NoLast
      /\ Builds \/ Reads
  BY DEF Init
<1>1. End \in Time
  BY RangeAssumption DEF Time
<1>2. NoFile \in [schema : Schema, profile : Profile, source : Source, rows : SUBSET Row,
                 began : Time \cup {None}]
  BY DEF NoFile, Schema, Profile, Source
<1>3. CASE Builds
  <2>1. /\ source \in [token : SUBSET Time, underlying : SUBSET Time, index : SUBSET Time]
        /\ builder \in {"canonical", "legacy", "none"} /\ phase \in Walks
    BY <1>3, SourceAssumption DEF Walks
  <2>2. BuiltRequest \in Request
    BY DEF BuiltRequest, Request, Asset
  <2>3. TypeOK
    BY <1>0, <1>1, <1>2, <1>3, <2>1, <2>2, NothingYetTyped DEF TypeOK
  <2>4. Building /\ BuiltFile
    BY <1>3 DEF Building, BuiltFile, NoFile
  <2>. QED
    BY <1>0, <2>3, <2>4, UnopenedIInv, Zenon
<1>4. CASE Reads
  <2>1. /\ source \in [token : SUBSET Time, underlying : SUBSET Time, index : SUBSET Time]
        /\ builder \in {"canonical", "legacy", "none"}
        /\ phase \in Walks \cup {"write", "open", "read", "failed"} \cup Answers
        /\ request \in Request
    BY <1>4, SourceAssumption
  <2>2. file \in [schema : Schema, profile : Profile, source : Source, rows : SUBSET Row,
                  began : Time \cup {None}]
    BY <1>2, <1>4
  <2>3. TypeOK
    BY <1>0, <1>1, <2>1, <2>2, NothingYetTyped DEF TypeOK
  <2>4. Building /\ BuiltFile
    BY <1>4 DEF Building, BuiltFile, Walks
  <2>. QED
    BY <1>0, <2>3, <2>4, UnopenedIInv, Zenon
<1>. QED
  BY <1>0, <1>3, <1>4

(* The steps of a build leave the readers alone.                           *)
LEMMA BuildKeepsIInv ==
  ASSUME IInv, phase \in Walks \cup {"write"}, TypeOK',
         phase' \in Walks \cup {"write", "failed"}, UNCHANGED <<builder, file, reader, last>>
  PROVE  IInv'
<1>1. reader' = NoReader /\ last' = NoLast
  BY DEF IInv, Unopened
<1>2. Building' /\ BuiltFile'
  BY DEF IInv, Building, BuiltFile
<1>3. reader'.load.prev = None /\ reader'.load.close = None /\ reader'.replay = ReplayStart
  BY <1>1 DEF NoReader
<1>4. LoadOfRows' /\ ReplayCarries' /\ BuiltRead' /\ NoFutureComparator' /\ NoLookAhead'
  BY <1>1, <1>3, NothingValued DEF NoLast, ReplayStart, LoadOfRows, ReplayCarries, BuiltRead,
     NoFutureComparator, NoLookAhead, Valued
<1>. QED
  BY <1>1, <1>2, <1>4 DEF IInv, Unopened

LEMMA WritePanelKeepsIInv == ASSUME IInv, WritePanel PROVE IInv'
<1>1. /\ phase = "write" /\ builder # "none" /\ fetched' = NoFetched
      /\ UNCHANGED <<source, newest, builder, walk, request, reader, last>>
  BY DEF WritePanel, IInv, Building
<1>2. fetched' \in [token : SUBSET Time, confirmed : SUBSET Time, underlying : SUBSET Time,
                    index : SUBSET Time, began : Time \cup {None}]
  BY <1>1, NothingYetTyped
<1>3. CASE phase' = "failed" /\ UNCHANGED file
  <2>1. TypeOK'
    BY <1>1, <1>2, <1>3 DEF IInv, TypeOK
  <2>. QED
    BY <1>1, <1>3, <2>1, BuildKeepsIInv
<1>4. CASE /\ phase' = "open"
           /\ file' = [NoFile EXCEPT !.schema = builder, !.rows = BuiltRows,
                                     !.began = fetched.began]
  <2>1. \A t \in {t \in Grid : \E b \in fetched.underlying : b < t} :
          /\ RowAt(t) \in Row /\ RowAt(t).ts = t /\ RowAt(t).anchor \in Time
    BY RowTyped DEF IInv
  <2>2. /\ BuiltRows \in SUBSET Row
        /\ \A r \in BuiltRows : r.anchor \in Time
        /\ \A q, r \in BuiltRows : q.ts = r.ts => q = r
    BY <2>1 DEF BuiltRows
  <2>3. builder \in {"canonical", "legacy"} /\ fetched.began \in Time \cup {None}
    BY <1>1 DEF IInv, TypeOK
  <2>4. file' = [schema |-> builder, profile |-> "unified", source |-> "okx_xperp_index",
                 rows |-> BuiltRows, began |-> fetched.began]
    BY <1>4 DEF NoFile
  <2>5. file' \in [schema : Schema, profile : Profile, source : Source, rows : SUBSET Row,
                   began : Time \cup {None}]
    BY <2>2, <2>3, <2>4 DEF Schema, Profile, Source
  <2>6. TypeOK'
    BY <1>1, <1>2, <1>4, <2>5 DEF IInv, TypeOK
  <2>7. BuiltFile'
    BY <1>1, <2>2, <2>3, <2>4 DEF BuiltFile
  <2>8. Unopened' /\ Building'
    BY <1>1, <1>4 DEF IInv, Unopened, Building, Walks
  <2>9. reader = NoReader /\ last = NoLast
    BY <1>1 DEF IInv, Unopened
  <2>10. reader'.load.prev = None /\ reader'.load.close = None /\ reader'.replay = ReplayStart
    BY <1>1, <2>9 DEF NoReader
  <2>11. LoadOfRows' /\ ReplayCarries' /\ BuiltRead' /\ NoFutureComparator' /\ NoLookAhead'
    BY <1>1, <2>9, <2>10 DEF NoLast, ReplayStart, LoadOfRows, ReplayCarries, BuiltRead,
       NoFutureComparator, NoLookAhead, Valued
  <2>. QED
    BY <2>6, <2>7, <2>8, <2>11 DEF IInv
<1>. QED
  BY <1>3, <1>4 DEF WritePanel

LEMMA OpenKeepsIInv == ASSUME IInv, NEW panel, Open(panel) PROVE IInv'
<1>1. /\ phase = "open" /\ reader = NoReader /\ last = NoLast
      /\ UNCHANGED <<source, newest, builder, walk, fetched, file, request, last>>
  BY DEF Open, IInv, Unopened
<1>2. Resolved(request, panel) \in {"panel", "scenario", "404", "503", "400"}
  BY DEF Resolved
<1>3. /\ reader' \in [scan : Scan, load : Load, replay : Replay, sparse : BOOLEAN, rows : Nat]
      /\ reader'.load.prev = None /\ reader'.load.close = None
      /\ reader'.replay = ReplayStart
      /\ phase' \in {"read"} \cup Answers
  <2>1. CASE Resolved(request, panel) \in {"panel", "scenario"}
    <3>1. reader' = [NoReader EXCEPT !.scan = ScanStart(file.schema, request),
                                     !.load = LoadStart(file.schema, request)]
      BY <2>1 DEF Open
    <3>2. ScanStart(file.schema, request) \in Scan
      <4>1. (IF HeaderRejected(file.schema, request) THEN "PANEL_IDENTITY_INVALID"
             ELSE "reading") \in {"PANEL_IDENTITY_INVALID", "reading"}
        OBVIOUS
      <4>. QED
        BY <4>1 DEF ScanStart, Scan
    <3>3. /\ LoadStart(file.schema, request) \in Load
          /\ LoadStart(file.schema, request).prev = None
          /\ LoadStart(file.schema, request).close = None
      <4>1. (IF file.schema # "scenario" /\ HeaderRejected(file.schema, request)
             THEN "value_error" ELSE "reading") \in {"value_error", "reading"}
        OBVIOUS
      <4>. QED
        BY <4>1 DEF LoadStart, Load
    <3>4. phase' = "read"
      BY <2>1 DEF Open
    <3>5. NoReader.replay = ReplayStart
      BY DEF NoReader
    <3>. HIDE DEF NoReader
    <3>. QED
      BY <3>1, <3>2, <3>3, <3>4, <3>5, NothingYetTyped
  <2>2. CASE Resolved(request, panel) \in {"404", "503", "400"}
    <3>1. reader' = NoReader /\ phase' = Resolved(request, panel)
      BY <1>1, <2>2 DEF Open
    <3>2. NoReader.load.prev = None /\ NoReader.load.close = None /\ NoReader.replay = ReplayStart
      BY DEF NoReader
    <3>. QED
      BY <2>2, <3>1, <3>2, NothingYetTyped DEF Answers
  <2>. QED
    BY <1>2, <2>1, <2>2
<1>4. TypeOK'
  BY <1>1, <1>3 DEF IInv, TypeOK
<1>5. Unopened' /\ Building' /\ BuiltFile'
  BY <1>1, <1>3 DEF IInv, Unopened, Building, BuiltFile, Answers, Walks
<1>6. LoadOfRows' /\ ReplayCarries' /\ BuiltRead' /\ NoFutureComparator' /\ NoLookAhead'
  BY <1>1, <1>3 DEF NoLast, ReplayStart, LoadOfRows, ReplayCarries, BuiltRead,
     NoFutureComparator, NoLookAhead, Valued
<1>. QED
  BY <1>4, <1>5, <1>6 DEF IInv

LEMMA EndOfFileKeepsIInv == ASSUME IInv, EndOfFile PROVE IInv'
<1>1. /\ phase = "read"
      /\ UNCHANGED <<source, newest, builder, walk, fetched, file, request, last>>
      /\ reader' = [reader EXCEPT !.scan.verdict = ScanEnd(file.schema, reader.scan)]
      /\ phase' \in Answers
  BY DEF EndOfFile, Answer, Answers
<1>2. ScanEnd(file.schema, reader.scan) \in
        {"reading", "ready", "PANEL_IDENTITY_INVALID", "PANEL_SCHEMA_AMBIGUOUS",
         "PANEL_TIMESTAMP_INVALID", "PANEL_HAS_NO_REPLAY_OBSERVATIONS"}
  BY DEF IInv, TypeOK, ScanEnd, Scan
<1>3. reader \in [scan : Scan, load : Load, replay : Replay, sparse : BOOLEAN, rows : Nat]
  BY DEF IInv, TypeOK
<1>4. /\ reader' \in [scan : Scan, load : Load, replay : Replay, sparse : BOOLEAN, rows : Nat]
      /\ reader'.load = reader.load /\ reader'.replay = reader.replay
  BY <1>1, <1>2, <1>3 DEF Scan
<1>5. TypeOK'
  BY <1>1, <1>4 DEF IInv, TypeOK
<1>6. Unopened' /\ Building' /\ BuiltFile'
  BY <1>1 DEF IInv, Unopened, Building, BuiltFile, Answers, Walks
<1>7. LoadOfRows' /\ ReplayCarries' /\ BuiltRead'
  BY <1>1, <1>4 DEF IInv, LoadOfRows, ReplayCarries, CarriedTo, BuiltRead, TokensTo, UnderlyingsTo
<1>8. NoFutureComparator' /\ NoLookAhead'
  BY <1>1 DEF IInv, NoFutureComparator, NoLookAhead, Valued
<1>. QED
  BY <1>5, <1>6, <1>7, <1>8 DEF IInv

LEMMA NextKeepsIInv == ASSUME IInv, [Next]_vars PROVE IInv'
<1>1. CASE NewBar
  <2>1. TypeOK'
    BY <1>1, IntervalAssumption DEF NewBar, IInv, TypeOK, Time
  <2>. QED
    BY <1>1, <2>1, BuildKeepsIInv DEF NewBar
<1>2. CASE WalkBack
  BY <1>2, WalkBackTyped, BuildKeepsIInv DEF WalkBack, Walks, IInv
<1>3. CASE WalkForward
  BY <1>3, WalkForwardTyped, BuildKeepsIInv DEF WalkForward, Walks, IInv
<1>4. CASE RateLimited
  <2>1. Begun \in Time \cup {None} /\ walk.tries + 1 \in 0..MaxRetries
    BY <1>4, RangeAssumption DEF RateLimited, IInv, TypeOK, Begun
  <2>2. TypeOK'
    BY <1>4, <2>1 DEF RateLimited, IInv, TypeOK
  <2>. QED
    BY <1>4, <2>2, BuildKeepsIInv DEF RateLimited, Walks
<1>5. CASE RequestFails
  <2>1. TypeOK'
    BY <1>5, NothingYetTyped DEF RequestFails, IInv, TypeOK
  <2>. QED
    BY <1>5, <2>1, BuildKeepsIInv DEF RequestFails
<1>6. CASE WritePanel
  BY <1>6, WritePanelKeepsIInv
<1>7. CASE OpenPresent \/ OpenAbsent \/ OpenUnconfigured
  BY <1>7, OpenKeepsIInv DEF OpenPresent, OpenAbsent, OpenUnconfigured
<1>8. CASE ReadRow
  BY <1>8, ReadRowKeepsIInv
<1>9. CASE EndOfFile
  BY <1>9, EndOfFileKeepsIInv
<1>10. CASE UNCHANGED vars
  <2>1. UNCHANGED <<source, newest, builder, phase, walk, fetched, file, request, reader, last>>
    BY <1>10 DEF vars
  <2>2. TypeOK' /\ Unopened' /\ Building' /\ BuiltFile'
    BY <2>1 DEF IInv, TypeOK, Unopened, Building, BuiltFile
  <2>3. LoadOfRows' /\ ReplayCarries' /\ BuiltRead'
    BY <2>1 DEF IInv, LoadOfRows, ReplayCarries, CarriedTo, BuiltRead, TokensTo, UnderlyingsTo
  <2>4. NoFutureComparator' /\ NoLookAhead'
    BY <2>1 DEF IInv, NoFutureComparator, NoLookAhead, Valued
  <2>. QED
    BY <2>2, <2>3, <2>4 DEF IInv
<1>. QED
  BY <1>1, <1>2, <1>3, <1>4, <1>5, <1>6, <1>7, <1>8, <1>9, <1>10 DEF Next

-----------------------------------------------------------------------------
(* The theorems.                                                           *)

(* Every step of a build, a scan or a replay keeps the invariant.          *)
THEOREM PipelineInvariant == Spec => []IInv
<1>1. Init => IInv
  BY InitIInv
<1>2. IInv /\ [Next]_vars => IInv'
  BY NextKeepsIInv
<1>. QED
  BY <1>1, <1>2, PTL DEF Spec

(* Every variable of the pipeline keeps its type.                          *)
THEOREM PipelineTypes == Spec => []TypeOK
<1>1. IInv => TypeOK
  BY DEF IInv
<1>. QED
  BY <1>1, PipelineInvariant, PTL

(* The replay of a panel never looks ahead, and leaves nothing out.        *)
THEOREM ReplayIsCausal == Spec => []NoLookAhead
<1>1. IInv => NoLookAhead
  BY DEF IInv
<1>. QED
  BY <1>1, PipelineInvariant, PTL

(* No snapshot that is ever valued, weakened in any way, is promoted.      *)
THEOREM EvidenceIsMonotone == Spec => []WeakerEvidenceNeverPromotes
<1>1. IInv => WeakerEvidenceNeverPromotes
  <2>. SUFFICES ASSUME IInv, Valued, NEW j \in Judgements
                PROVE  LET s == last.snapshot
                       IN  /\ \A w \in Weakened(s) :
                                \/ StateOf(w, j) \in {StateOf(s, j), "INCONCLUSIVE"}
                                \/ s.profile = "legacy" /\ j.unit
                                     /\ w.underlying # s.underlying
                           /\ StateOf(s, j) # "INCONCLUSIVE" =>
                                ReasonsOf(s, j) \cap
                                  {"COMPARATOR_UNAVAILABLE", "TOKEN_DATA_UNAVAILABLE",
                                   "XPERP_EVIDENCE_STALE", "XPERP_EVIDENCE_AMBIGUOUS",
                                   "XPERP_CORROBORATES_XSTOCK"} = {}
    BY DEF WeakerEvidenceNeverPromotes
  <2>. DEFINE s == last.snapshot
  <2>1. s \in Snapshot /\ s.reference <= s.ts /\ j \in Judgement
    BY SourceAssumption DEF IInv, TypeOK, Valued, NoFutureComparator
  <2>. HIDE DEF s
  <2>2. ASSUME NEW w \in Weakened(s)
        PROVE  w \in Snapshot /\ Weaker(w, s)
    <3>1. \/ w = [s EXCEPT !.token = FALSE]
          \/ w = [s EXCEPT !.underlying = None]
          \/ w = [s EXCEPT !.reference = None]
          \/ s.anchor - 1 \in Time /\ w = [s EXCEPT !.anchor = s.anchor - 1]
          \/ s.reference - 1 \in Time /\ w = [s EXCEPT !.reference = s.reference - 1]
      BY <2>2 DEF Weakened
    <3>2. s.anchor \in Nat /\ s.reference \in Nat \cup {-1} /\ s.underlying \in Nat \cup {-1}
      BY <2>1 DEF Snapshot, Time, None
    <3>3. CASE w = [s EXCEPT !.token = FALSE]
      <4>1. w \in Snapshot
        BY <2>1, <3>3 DEF Snapshot
      <4>2. w.token = FALSE
        BY <2>1, <3>3 DEF Snapshot
      <4>3. /\ w.ts = s.ts /\ w.profile = s.profile /\ w.source = s.source
            /\ w.underlying = s.underlying /\ w.anchor = s.anchor /\ w.reference = s.reference
        BY <2>1, <3>3 DEF Snapshot
      <4>. QED
        BY <3>2, <4>1, <4>2, <4>3 DEF Weaker
    <3>4. CASE w = [s EXCEPT !.underlying = None]
      BY <2>1, <3>2, <3>4 DEF Snapshot, Weaker
    <3>5. CASE w = [s EXCEPT !.reference = None]
      <4>1. w.reference = None /\ None <= s.reference
        BY <2>1, <3>2, <3>5 DEF Snapshot, None
      <4>. QED
        BY <2>1, <3>2, <3>5, <4>1 DEF Snapshot, Weaker
    <3>6. CASE s.anchor - 1 \in Time /\ w = [s EXCEPT !.anchor = s.anchor - 1]
      BY <2>1, <3>2, <3>6 DEF Snapshot, Weaker
    <3>7. CASE s.reference - 1 \in Time /\ w = [s EXCEPT !.reference = s.reference - 1]
      BY <2>1, <3>2, <3>7 DEF Snapshot, Weaker
    <3>. QED
      BY <3>1, <3>3, <3>4, <3>5, <3>6, <3>7
  <2>3. ASSUME NEW w \in Weakened(s)
        PROVE  \/ StateOf(w, j) \in {StateOf(s, j), "INCONCLUSIVE"}
               \/ s.profile = "legacy" /\ j.unit /\ w.underlying # s.underlying
    BY <2>1, <2>2, <2>3, LessEvidenceNeverPromotes DEF UnitCheckLifted
  <2>. QED
    BY <2>1, <2>3, ReasonsAgreeWithState DEF s
<1>. QED
  BY <1>1, PipelineInvariant, PTL
=============================================================================
