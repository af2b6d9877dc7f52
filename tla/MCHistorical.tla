---------------------------- MODULE MCHistorical ----------------------------
(***************************************************************************)
(* Values for Historical's constants: five bars of two clock units, of     *)
(* which the range asked for is the second to the fourth, some of them     *)
(* missing at some vendors; and rows of given files that are regular or    *)
(* wrong in one way.                                                       *)
(***************************************************************************)
EXTENDS Historical

Bar(k) == k * Interval

MCRegular == {Bar(2)}

\* At most three of the twelve bars are missing.
MCSources ==
  {s \in [token : SUBSET {Bar(k) : k \in 1..4}, underlying : SUBSET {Bar(k) : k \in 0..3},
          index : SUBSET {Bar(k) : k \in 1..4}] :
     Cardinality(s.token) + Cardinality(s.underlying) + Cardinality(s.index) >= 9}

MCDetector   == [known |-> TRUE, promotable |-> TRUE]
MCCapability == [support |-> TRUE, challenge |-> TRUE]

\* Each way to resolve a request, without repeating those that read alike.
MCRequests ==
  {r \in Request :
     CASE r.mode = "auto"  -> r.asset = "NVDAx" /\ r.pinned
       [] r.mode = "panel" -> (r.asset = "NVDAx") <=> ~r.pinned
       [] OTHER            -> r.pinned}

\* At most one judgement of quality is bad at a time.
MCJudgements ==
  [uncertainty : {"usable"}, unit : {FALSE}, thin : {FALSE}, z : {"near", "far"},
   band : {"support", "watch", "review"}, nearer : {"xstock", "p1a", "neither"}]
    \cup {j \in [uncertainty : {"usable", "high", "invalid"}, unit : BOOLEAN, thin : BOOLEAN,
                 z : {"far"}, band : {"support", "review"}, nearer : {"p1a"}] :
           Cardinality({q \in {"unit", "thin"} : j[q]}) <= (IF j.uncertainty = "usable" THEN 1 ELSE 0)}

MCRow(schema, prev) ==
  LET next  == IF prev = None THEN Bar(2) ELSE prev + Interval
      Regularly(ts) == [ts : {ts}, token : {TRUE}, underlying : {TRUE}, reference : {ts},
                        anchor : {Bar(0)}, defect : {"none"}]
      plain == [ts : {next}, token : BOOLEAN, underlying : BOOLEAN,
                reference : {next, next - Interval, None},
                anchor : {Bar(1), Bar(1) - 1, None}, defect : {"none"}]
      wrong == [ts : {next}, token : {TRUE}, underlying : BOOLEAN, reference : {next},
                anchor : {Bar(1), None}, defect : Defect \ {"none"}]
      late  == [ts : {next}, token : {TRUE}, underlying : BOOLEAN,
                reference : {next, next + Interval}, anchor : {next, Bar(1)}, defect : {"none"}]
  IN  CASE schema = "scenario" ->
             [ts : {next, next + 1, next + Interval}, token : BOOLEAN, underlying : BOOLEAN,
              reference : {next, None}, anchor : {Bar(1), Bar(2)}, defect : {"none"}]
        [] schema = "legacy_bare" -> {r \in plain \cup wrong : r.reference = None}
        [] OTHER -> plain \cup wrong \cup late
                      \cup Regularly(next + 1) \cup Regularly(next + Interval)
                      \cup Regularly(next - Interval)
=============================================================================
