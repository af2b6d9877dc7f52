------------------------- MODULE ObservationRegister -------------------------
(***************************************************************************)
(* What the X Layer control plane promises to its readers, with everything *)
(* else abstracted: for each asset/reference pair there is one observation *)
(* time, 0 before the first publication, and it only moves forward.  A     *)
(* publication with the same observation time is a retry or a correction   *)
(* (contracts/README.md, "equal timestamps are allowed for retries or      *)
(* corrections") and does not show here.                                   *)
(***************************************************************************)
EXTENDS Integers

CONSTANT Pair     \* the asset/reference pairs

VARIABLE newest   \* newest[p]: observedAt of the attestation readers see for p

Init == newest = [p \in Pair |-> 0]

(* An accepted publication moves one pair to a later observation.          *)
Advance(p) ==
  /\ newest'[p] \in Nat
  /\ newest'[p] > newest[p]
  /\ newest' = [newest EXCEPT ![p] = newest'[p]]

Next == \E p \in Pair : Advance(p)

Spec == Init /\ [][Next]_newest
=============================================================================
