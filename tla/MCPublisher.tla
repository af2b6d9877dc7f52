----------------------------- MODULE MCPublisher -----------------------------
(***************************************************************************)
(* Warmed results for Publisher: two assets of one reference, observations *)
(* at consecutive times, and a second evaluation of one observation under  *)
(* another profile and with a longer validity.                             *)
(***************************************************************************)
EXTENDS Publisher

CONSTANTS nvda, spy, ref

QuoteOf(hash) == [referencePriceE8 |-> 2, fairValueE8 |-> 2, lowerBoundE8 |-> 1,
                  upperBoundE8 |-> 3, evidenceHash |-> hash, modelVersion |-> "model"]

MCQuote == {QuoteOf("hash"), QuoteOf("rehash")}

ResultOf(asset, hash, observedAt, validUntil) ==
  [asset |-> asset,
   input |-> [referenceId |-> ref, quote |-> QuoteOf(hash), evidenceState |-> "SUPPORTED",
              observedAt |-> observedAt, validUntil |-> validUntil]]

MCResultAssets ==
  {ResultOf(nvda, "hash", 1, 2), ResultOf(nvda, "hash", 1, 3), ResultOf(nvda, "rehash", 2, 3),
   ResultOf(spy, "hash", 1, 3)}

MCResultOrder == {ResultOf(nvda, "hash", 1, 2), ResultOf(nvda, "hash", 2, 3)}
=============================================================================
