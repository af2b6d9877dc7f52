------------------------------ MODULE Validation ------------------------------
(***************************************************************************)
(* The evidence classifier: validate() of validation.py with the frozen    *)
(* detector of challenger_detector.py.                                     *)
(*                                                                         *)
(* A snapshot is reduced to which observations it carries and their        *)
(* timestamps; what the arithmetic on prices and variances concludes is a  *)
(* judgement:                                                              *)
(*   uncertainty  of the estimate: usable, above its cap, or not positive  *)
(*   unit         the token is a multiple of its reference                 *)
(*   thin         volume or liquidity below the floors                     *)
(*   z            the comparator's deviation: near, between, or far        *)
(*   band         the detector's band of the token against the estimate    *)
(*   nearer       which of estimate and token the X-Perp index is nearer   *)
(***************************************************************************)
EXTENDS Integers

CONSTANTS
  Interval,         \* time units per canonical five-minute bar
  MaxReferenceAge,  \* Thresholds.max_reference_age_s
  Detector,         \* the asset's frozen detector: [known, promotable]
  Capability        \* what its evidence may claim: [support, challenge]

ASSUME IntervalAssumption == Interval \in Nat \ {0}
ASSUME ThresholdAssumption == MaxReferenceAge \in Nat
ASSUME DetectorAssumption ==
  /\ Detector \in [known : BOOLEAN, promotable : BOOLEAN]
  /\ Capability \in [support : BOOLEAN, challenge : BOOLEAN]

-----------------------------------------------------------------------------
(* No timestamp: an observation that is missing.                           *)
None == -1

Time == Nat

Profile == {"unified", "legacy"}
Source  == {"okx_xperp_index", "other"}

(* underlying and reference are the timestamps of those observations, and  *)
(* anchor that of the last trusted reference.                              *)
Snapshot ==
  [ts : Time, token : BOOLEAN, underlying : Time \cup {None}, anchor : Time,
   profile : Profile, source : Source, reference : Time \cup {None}]

Judgement ==
  [uncertainty : {"usable", "high", "invalid"}, unit : BOOLEAN, thin : BOOLEAN,
   z : {"near", "between", "far"}, band : {"support", "watch", "review"},
   nearer : {"xstock", "p1a", "neither"}]

EvidenceState == {"SUPPORTED", "INCONCLUSIVE", "CHALLENGED"}

When(condition, reason) == IF condition THEN {reason} ELSE {}

-----------------------------------------------------------------------------
(* The gates on data quality, each with its reason code.                   *)

TooOld(s, observed) == observed # None /\ s.ts - observed > MaxReferenceAge

QualityAbstentions(s, j) ==
  When(~s.token, "TOKEN_DATA_UNAVAILABLE")
    \cup When(TooOld(s, s.anchor), "UNDERLYING_REFERENCE_STALE")
    \cup When(TooOld(s, s.reference), "REFERENCE_UNDER_TEST_STALE")
    \cup When(j.thin, "TOKEN_MARKET_QUALITY_LOW")
    \cup When(/\ j.unit /\ s.token
              /\ s.profile = "unified" \/ s.underlying # None, "TOKEN_UNIT_SUSPECT")
    \cup When(j.uncertainty = "invalid", "MODEL_UNCERTAINTY_INVALID")
    \cup When(j.uncertainty = "high", "MODEL_UNCERTAINTY_HIGH")

(* The snapshot's X-Perp evidence.                                         *)
XperpPrice(s) == s.source = "okx_xperp_index" /\ s.reference # None

(* Mutant: only an age that is known and positive counts against it.       *)
XperpNotKnownOld(s) == s.source = "okx_xperp_index" /\ ~(s.reference # None /\ s.reference < s.ts)

XperpExact(s) == XperpPrice(s) /\ s.reference = s.ts

(* detector_band; a missing token has no score.                            *)
Band(s, j) == IF s.token THEN j.band ELSE "unavailable"

-----------------------------------------------------------------------------
(* The unified profile: the token against the estimate in the detector's   *)
(* band, and the X-Perp index as a witness.  The state starts over at      *)
(* INCONCLUSIVE and only one of these two promotes it.                     *)

Supports(s, j) ==
  /\ Detector.known /\ Band(s, j) = "support" /\ Capability.support
  /\ XperpExact(s)
  /\ QualityAbstentions(s, j) = {}

Challenges(s, j) ==
  /\ Detector.known /\ Band(s, j) = "review" /\ Capability.challenge
  /\ XperpExact(s) /\ s.token /\ j.nearer = "p1a"
  /\ QualityAbstentions(s, j) = {}

UnifiedState(s, j) ==
  CASE Supports(s, j)   -> "SUPPORTED"
    [] Challenges(s, j) -> "CHALLENGED"
    [] OTHER            -> "INCONCLUSIVE"

UnifiedReasons(s, j) ==
  LET band     == Band(s, j)
      promoted == (band = "support" => Capability.support)
                    /\ (band = "review" => Capability.challenge)
      judged(nearer) ==
        Detector.known /\ band = "review" /\ promoted /\ XperpExact(s) /\ j.nearer = nearer
  IN  When(~Detector.known, "P1A_XSTOCK_DETECTOR_UNAVAILABLE")
        \cup When(Detector.known /\ band = "support", "P1A_XSTOCK_SUPPORT_BAND")
        \cup When(Detector.known /\ band = "watch", "P1A_XSTOCK_WATCH_BAND")
        \cup When(Detector.known /\ band = "review", "P1A_XSTOCK_REVIEW_BAND")
        \cup When(Detector.known /\ ~XperpPrice(s), "XPERP_EVIDENCE_UNAVAILABLE")
        \cup When(Detector.known /\ XperpPrice(s) /\ ~XperpExact(s), "XPERP_EVIDENCE_STALE")
        \cup When(Detector.known /\ band = "support" /\ ~promoted,
                  "P1A_XSTOCK_SUPPORT_NOT_PROMOTED")
        \cup When(Detector.known /\ band = "review" /\ ~promoted,
                  "P1A_XSTOCK_CHALLENGE_NOT_PROMOTED")
        \cup When(judged("xstock"), "XPERP_CORROBORATES_XSTOCK")
        \cup When(Challenges(s, j), "XPERP_CORROBORATES_P1A")
        \cup When(judged("neither"), "XPERP_EVIDENCE_AMBIGUOUS")

-----------------------------------------------------------------------------
(* Legacy profiles: the selected reference against the estimate's          *)
(* predictive interval, and the promoted tail detector over it.            *)

Compared(s, j) ==
  IF s.reference # None /\ j.uncertainty # "invalid" /\ s.source # "okx_xperp_index"
    THEN [far |-> "CHALLENGED", near |-> "SUPPORTED", between |-> "INCONCLUSIVE"][j.z]
    ELSE "INCONCLUSIVE"

Gated(s, j) == IF QualityAbstentions(s, j) = {} THEN Compared(s, j) ELSE "INCONCLUSIVE"

(* The tail detector has everything it needs to overrule the comparison.   *)
TailApplies(s, j) ==
  /\ Detector.known /\ Detector.promotable /\ Band(s, j) = "review"
  /\ s.underlying = s.ts
  /\ QualityAbstentions(s, j) = {}
  /\ XperpExact(s)

LegacyState(s, j) ==
  CASE TailApplies(s, j) /\ j.nearer = "p1a"    -> "CHALLENGED"
    [] TailApplies(s, j) /\ j.nearer = "xstock" -> "INCONCLUSIVE"
    [] OTHER                                    -> Gated(s, j)

LegacyReasons(s, j) ==
  LET review == Detector.known /\ Detector.promotable /\ Band(s, j) = "review"
      fair   == review /\ s.underlying = s.ts /\ QualityAbstentions(s, j) = {}
  IN  When(Detector.known /\ ~Detector.promotable, "P1A_XSTOCK_DETECTOR_NOT_PROMOTED")
        \cup When(Detector.known /\ Detector.promotable /\ Band(s, j) = "watch",
                  "P1A_XSTOCK_REVIEW_THRESHOLD")
        \cup When(review /\ s.underlying # s.ts, "UNDERLYING_REFERENCE_NOT_CONTEMPORANEOUS")
        \cup When(fair /\ ~XperpExact(s), "XPERP_EVIDENCE_UNCALIBRATED")
        \cup When(TailApplies(s, j) /\ j.nearer = "p1a", "XPERP_CORROBORATES_CHALLENGE")
        \cup When(TailApplies(s, j) /\ j.nearer = "xstock", "XPERP_CONTRADICTS_MODEL_CHALLENGE")
        \cup When(TailApplies(s, j) /\ j.nearer = "neither", "XPERP_EVIDENCE_AMBIGUOUS")
        \cup When(s.reference # None /\ j.uncertainty # "invalid"
                    /\ s.source = "okx_xperp_index", "XPERP_RESIDUAL_CALIBRATION_UNVERIFIED")

-----------------------------------------------------------------------------
(* The result's Evidence State and reason codes.                           *)

StateOf(s, j) == IF s.profile = "unified" THEN UnifiedState(s, j) ELSE LegacyState(s, j)

ReasonsOf(s, j) ==
  QualityAbstentions(s, j)
    \cup When(s.reference = None, "COMPARATOR_UNAVAILABLE")
    \cup (IF s.profile = "unified" THEN UnifiedReasons(s, j) ELSE LegacyReasons(s, j))

(* The same observation with a little less evidence: without the token,    *)
(* the comparator or the underlying, or with an older anchor or comparator.*)
Weakened(s) ==
  {[s EXCEPT !.token = FALSE], [s EXCEPT !.underlying = None], [s EXCEPT !.reference = None]}
    \cup {[s EXCEPT !.anchor = t] : t \in {s.anchor - 1} \cap Time}
    \cup {[s EXCEPT !.reference = t] : t \in {s.reference - 1} \cap Time}
=============================================================================
