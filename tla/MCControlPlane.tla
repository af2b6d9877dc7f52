--------------------------- MODULE MCControlPlane ---------------------------
(***************************************************************************)
(* Values for ControlPlane's constants: one valid quote and the quotes     *)
(* that each line of _validateInput rejects, and policies that differ in   *)
(* how far they trust current and stale evidence.                          *)
(***************************************************************************)
EXTENDS ControlPlane

CONSTANTS v1, aapl, chainlink

GoodQuote == [referencePriceE8 |-> 2, fairValueE8 |-> 2, lowerBoundE8 |-> 1, upperBoundE8 |-> 3,
              evidenceHash |-> "hash", modelVersion |-> "model"]

\* One invalid quote per check that a quote can fail.
MCQuote ==
  {GoodQuote,
   [GoodQuote EXCEPT !.fairValueE8 = 0],
   [GoodQuote EXCEPT !.lowerBoundE8 = 4],
   [GoodQuote EXCEPT !.evidenceHash = NoId]}

MCVaultPair == [v \in {v1} |-> <<aapl, chainlink>>]

Cautious == [maxAge |-> 1, onSupported |-> "ALLOW", onInconclusive |-> "REQUIRE_REVIEW",
             onChallenged |-> "RESTRICT_NEW_RISK", onStale |-> "RESTRICT_NEW_RISK"]

Lenient  == [maxAge |-> 2, onSupported |-> "ALLOW", onInconclusive |-> "MONITOR",
             onChallenged |-> "REQUIRE_REVIEW", onStale |-> "MONITOR"]

Invalid  == [Cautious EXCEPT !.maxAge = 0]

MCPolicy == {Cautious, Lenient, Invalid}
=============================================================================
