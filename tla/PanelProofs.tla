----------------------------- MODULE PanelProofs -----------------------------
(***************************************************************************)
(* What builders and readers of a panel promise each other, for every      *)
(* vendor's history: the walks return the bars that were asked for, the    *)
(* live snapshot joins them as the panel does, and a panel that the        *)
(* readiness scan accepts is replayed.                                     *)
(*                                                                         *)
(* None of it is inductive.  A walk's result depends on what each page     *)
(* left below its cursor (WalkInv), a file on the three walks before it    *)
(* (FileInv), and that scan, loader and replay agree at the end on how     *)
(* they stood to each other at every row (ReadInv).                        *)
(***************************************************************************)
EXTENDS HistoricalProofs, FiniteSetTheorems

-----------------------------------------------------------------------------
(* Walks.                                                                  *)

(* The underlying bars that a builder asks for.                            *)
Asked == {b \in source.underlying : Start - PanelLookback <= b /\ b <= End}

(* A backward walk has every bar from its cursor on that was confirmed     *)
(* when it began, unless the vendor ignored the cursor.                    *)
BackwardInv ==
  phase \in {"token", "index"} =>
    /\ walk.bars \subseteq source[phase] \cap Window
    /\ walk.confirmed \subseteq source[phase] \cap Window
    /\ walk.oldest = walk.cursor
    /\ walk.began = None => walk.cursor = None
    /\ walk.began <= newest
    /\ (walk.honest /\ walk.cursor # None) =>
         \A b \in source[phase] \cap Window :
           b < walk.began /\ walk.cursor <= b => b \in walk.confirmed

(* A forward walk has exactly the bars up to its cursor.                   *)
ForwardInv ==
  phase = "underlying" => walk.bars = {b \in Asked : b <= walk.cursor}

(* What the walks that are over have returned.                             *)
TokensFetched ==
  phase \in {"underlying", "index", "write"} =>
    /\ fetched.began \in Time /\ fetched.began <= newest
    /\ fetched.confirmed \subseteq source.token
    /\ walk.honest =>
         \A b \in source.token \cap Window : b < fetched.began => b \in fetched.confirmed

UnderlyingsFetched == phase \in {"index", "write"} => fetched.underlying = Asked

IndexFetched ==
  /\ phase = "index" /\ walk.began # None => fetched.began <= walk.began
  /\ phase = "write" =>
       /\ fetched.index \subseteq source.index
       /\ walk.honest =>
            \A b \in source.index \cap Window : b < fetched.began => b \in fetched.index

WalkInv ==
  /\ End <= newest
  /\ BackwardInv /\ ForwardInv /\ TokensFetched /\ UnderlyingsFetched /\ IndexFetched

-----------------------------------------------------------------------------
(* Files.                                                                  *)

(* A builder leaves out no bar of the grid after the first it can anchor.  *)
BuiltRowsInv(rows) ==
  \A r \in rows :
    /\ r.ts \in Grid /\ r.defect = "none" /\ r.reference \in {r.ts, None}
    /\ r.anchor \in Time /\ r.anchor < r.ts /\ Canonical(r.anchor)
    /\ r.anchor = Newest({b \in Asked : b < r.ts})
    /\ \E b \in Asked : b < r.ts
    /\ r.underlying <=> r.ts \in Asked
    /\ \A t \in Grid : r.ts < t => \E q \in rows : q.ts = t

(* The joins of a canonical file, where the vendor honoured the cursor.    *)
Joins(rows, began) ==
  builder = "canonical" /\ walk.honest =>
    \A r \in rows :
      r.ts < began =>
        /\ r.token <=> r.ts \in source.token
        /\ r.reference = IF r.ts \in source.index THEN r.ts ELSE None

FileInv ==
  builder # "none" =>
    /\ source \in Sources /\ request = BuiltRequest
    /\ phase \in Walks \cup {"write", "failed"} => file.rows = {}
    /\ phase \notin Walks \cup {"write", "failed"} => file.schema = builder
    /\ BuiltRowsInv(file.rows) /\ Joins(file.rows, file.began)

-----------------------------------------------------------------------------
(* Readers.                                                                *)

(* Where the scan has found nothing wrong, the loader has not either, and  *)
(* replay started with the first row that had an anchor.                   *)
Agreed ==
  LET scan == reader.scan
      load == reader.load
      replay == reader.replay
  IN  file.schema # "scenario" /\ scan.verdict = "reading" =>
        /\ load.status = "reading" /\ load.prev = scan.prev
        /\ scan.rows = 0 <=> scan.prev = None
        /\ scan.rows # 0 => file.schema \notin {"hybrid", "untimed"}
        /\ load.prev # None => Canonical(load.prev)
        /\ scan.closed <=> load.close # None
        /\ load.close # None => Canonical(load.close)
        /\ ~reader.sparse =>
             /\ replay.status = "running"
             /\ replay.prev # None => replay.prev = load.prev
             /\ scan.replayable => replay.prev # None

(* A panel that a builder wrote is not found wrong, and no row is missed.  *)
BuiltReadInv ==
  LET scan == reader.scan
  IN  builder # "none" =>
        /\ ~reader.sparse
        /\ phase = "read" =>
             /\ scan.verdict = "reading"
             /\ reader.load.prev # None => \E r \in file.rows : r.ts = reader.load.prev
             /\ scan.rows # 0 => scan.replayable
             /\ scan.rows = 1 =>
                  \A r \in file.rows : r.ts <= reader.load.prev => r.ts = reader.load.prev

ReadInv ==
  /\ phase \notin Answers => reader.scan.verdict # "ready"
  /\ reader.replay.prev # None => Valued
  /\ Agreed /\ BuiltReadInv /\ ReadyPanelReplays

PanelInv == WalkInv /\ FileInv /\ ReadInv

-----------------------------------------------------------------------------
(* Pages.                                                                  *)

Older(bars, cursor) == {b \in bars : cursor = None \/ b < cursor}
Newer(bars, cursor) == {b \in bars : cursor = None \/ b > cursor}

LEMMA FewerBeyond ==
  ASSUME NEW S \in SUBSET Nat, NEW n \in Nat, \A b \in S : b <= n,
         NEW T \in SUBSET S, NEW U \in SUBSET T, Cardinality(T) < PageSize
  PROVE  Cardinality(U) < PageSize
<1>1. IsFiniteSet(T)
  BY FS_BoundedSetOfNaturals, FS_Subset
<1>2. IsFiniteSet(U) /\ Cardinality(U) <= Cardinality(T)
  BY <1>1, FS_Subset
<1>3. Cardinality(T) \in Nat /\ Cardinality(U) \in Nat
  BY <1>1, <1>2, FS_CardinalityType
<1>. QED
  BY <1>2, <1>3, RangeAssumption

(* A page is not empty while there are bars, and has no gap up to the      *)
(* cursor.                                                                 *)
LEMMA LatestPageIs ==
  ASSUME NEW S \in SUBSET Nat, NEW n \in Nat, \A b \in S : b <= n, NEW cursor
  PROVE  /\ LatestPage(S, cursor) \subseteq Older(S, cursor)
         /\ Older(S, cursor) # {} => LatestPage(S, cursor) # {}
         /\ \A b \in LatestPage(S, cursor), c \in Older(S, cursor) :
              b <= c => c \in LatestPage(S, cursor)
<1>. DEFINE older == Older(S, cursor)
            Beyond(b) == {c \in older : c > b}
<1>1. older \in SUBSET S /\ \A u \in older : u \in Nat
  BY DEF Older
<1>2. LatestPage(S, cursor) = {b \in older : Cardinality(Beyond(b)) < PageSize}
  BY DEF LatestPage, Older
<1>. HIDE DEF older
<1>3. ASSUME older # {}
      PROVE  LatestPage(S, cursor) # {}
  <2>1. Newest(older) \in older /\ \A u \in older : u <= Newest(older)
    BY <1>1, <1>3, NewestIs
  <2>2. ASSUME NEW c \in Beyond(Newest(older)) PROVE FALSE
    <3>1. c \in older /\ c \in Nat /\ Newest(older) \in Nat
      BY <1>1, <2>1, <2>2
    <3>. QED
      BY <2>1, <2>2, <3>1
  <2>3. Cardinality(Beyond(Newest(older))) < PageSize
    BY <2>2, FS_EmptySet, RangeAssumption
  <2>. QED
    BY <1>2, <2>1, <2>3
<1>4. ASSUME NEW b \in LatestPage(S, cursor), NEW c \in older, b <= c
      PROVE  c \in LatestPage(S, cursor)
  <2>1. b \in older /\ Cardinality(Beyond(b)) < PageSize
    BY <1>2
  <2>2. Beyond(c) \subseteq Beyond(b) /\ Beyond(b) \subseteq S
    <3>1. b \in Nat /\ c \in Nat
      BY <1>1, <1>4, <2>1
    <3>2. ASSUME NEW d \in Beyond(c) PROVE d \in Beyond(b)
      <4>1. d \in older /\ d \in Nat
        BY <1>1, <3>2
      <4>. QED
        BY <1>4, <3>1, <3>2, <4>1
    <3>. QED
      BY <1>1, <3>2
  <2>3. Cardinality(Beyond(c)) < PageSize
    BY <2>1, <2>2, FewerBeyond
  <2>. QED
    BY <1>2, <2>3
<1>. QED
  BY <1>2, <1>3, <1>4 DEF older

LEMMA EarliestPageIs ==
  ASSUME NEW S \in SUBSET Nat, NEW n \in Nat, \A b \in S : b <= n, NEW cursor
  PROVE  /\ EarliestPage(S, cursor) \subseteq Newer(S, cursor)
         /\ Newer(S, cursor) # {} => EarliestPage(S, cursor) # {}
         /\ \A b \in EarliestPage(S, cursor), c \in Newer(S, cursor) :
              c <= b => c \in EarliestPage(S, cursor)
<1>. DEFINE newer == Newer(S, cursor)
            Before(b) == {c \in newer : c < b}
<1>1. newer \in SUBSET S /\ \A u \in newer : u \in Nat
  BY DEF Newer
<1>2. EarliestPage(S, cursor) = {b \in newer : Cardinality(Before(b)) < PageSize}
  BY DEF EarliestPage, Newer
<1>. HIDE DEF newer
<1>3. ASSUME newer # {}
      PROVE  EarliestPage(S, cursor) # {}
  <2>1. Oldest(newer) \in newer /\ \A u \in newer : Oldest(newer) <= u
    BY <1>1, <1>3, OldestIs
  <2>2. ASSUME NEW c \in Before(Oldest(newer)) PROVE FALSE
    <3>1. c \in newer /\ c \in Nat /\ Oldest(newer) \in Nat
      BY <1>1, <2>1, <2>2
    <3>. QED
      BY <2>1, <2>2, <3>1
  <2>3. Cardinality(Before(Oldest(newer))) < PageSize
    BY <2>2, FS_EmptySet, RangeAssumption
  <2>. QED
    BY <1>2, <2>1, <2>3
<1>4. ASSUME NEW b \in EarliestPage(S, cursor), NEW c \in newer, c <= b
      PROVE  c \in EarliestPage(S, cursor)
  <2>1. b \in newer /\ Cardinality(Before(b)) < PageSize
    BY <1>2
  <2>2. Before(c) \subseteq Before(b) /\ Before(b) \subseteq S
    <3>1. b \in Nat /\ c \in Nat
      BY <1>1, <1>4, <2>1
    <3>2. ASSUME NEW d \in Before(c) PROVE d \in Before(b)
      <4>1. d \in newer /\ d \in Nat
        BY <1>1, <3>2
      <4>. QED
        BY <1>4, <3>1, <3>2, <4>1
    <3>. QED
      BY <1>1, <3>2
  <2>3. Cardinality(Before(c)) < PageSize
    BY <2>1, <2>2, FewerBeyond
  <2>. QED
    BY <1>2, <2>3
<1>. QED
  BY <1>2, <1>3, <1>4 DEF newer

-----------------------------------------------------------------------------
(* The backward walks.                                                     *)

LEMMA OfferedIs ==
  ASSUME TypeOK, phase \in Walks
  PROVE  /\ source[phase] \in SUBSET Nat
         /\ Offered \in SUBSET Nat /\ \A b \in Offered : b <= newest
         /\ newest \in Nat
BY DEF TypeOK, Walks, Offered, Time

LEMMA BegunIs ==
  ASSUME TypeOK, WalkInv, phase \in {"token", "index"}
  PROVE  /\ Begun \in Nat /\ Begun <= newest /\ newest \in Nat
         /\ walk.cursor # None => Begun = walk.began
<1>1. walk.began \in Nat \cup {None} /\ newest \in Nat
  BY DEF TypeOK, Time
<1>2. walk.began <= newest /\ (walk.began = None => walk.cursor = None)
  BY DEF WalkInv, BackwardInv
<1>. QED
  BY <1>1, <1>2 DEF Begun

(* A wanted bar that an honest page does not bring, and none before it     *)
(* did, is older than the page, and the walk goes on.                      *)
LEMMA PageCovers ==
  ASSUME TypeOK, WalkInv, phase \in {"token", "index"}, walk.honest,
         NEW b \in source[phase] \cap Window, b < Begun
  PROVE  LET page == LatestPage(Offered, Cursor)
         IN  \/ b \in walk.confirmed \cup Settled(page \cap Window)
             \/ ~Exhausted(page) /\ b < Oldest(page)
<1>. DEFINE page == LatestPage(Offered, Cursor)
            older == Older(Offered, Cursor)
<1>. SUFFICES ASSUME b \notin walk.confirmed, b \notin Settled(page \cap Window)
              PROVE  ~Exhausted(page) /\ b < Oldest(page)
  OBVIOUS
<1>1. /\ Offered \in SUBSET Nat /\ \A c \in Offered : c <= newest
      /\ newest \in Nat /\ b \in Nat
  BY OfferedIs DEF Walks
<1>2. /\ page \subseteq older
      /\ older # {} => page # {}
      /\ \A c \in page, d \in older : c <= d => d \in page
  BY <1>1, LatestPageIs
<1>3. b < newest /\ b \in Offered /\ Start <= b /\ b <= End
  BY <1>1, BegunIs, RangeAssumption DEF Offered, Window
<1>4. walk.cursor # None => b < walk.cursor
  <2>. SUFFICES ASSUME walk.cursor # None
                PROVE  b < walk.cursor
    OBVIOUS
  <2>1. walk.cursor \in Nat
    BY DEF TypeOK, Time
  <2>2. ~(walk.cursor <= b)
    BY BegunIs DEF WalkInv, BackwardInv
  <2>. QED
    BY <1>1, <2>1, <2>2
<1>5. b \in older
  <2>1. CASE walk.cursor # None
    BY <1>3, <1>4, <2>1 DEF Older, Cursor
  <2>2. CASE walk.cursor = None
    BY <1>1, <1>3, <2>2, RangeAssumption DEF Older, Cursor, FirstCursor, None
  <2>. QED
    BY <2>1, <2>2
<1>6. b \notin page
  BY <1>3 DEF Settled, Window
<1>7. page \in SUBSET Nat /\ page # {} /\ older \subseteq Offered
  BY <1>1, <1>2, <1>5 DEF Older
<1>. HIDE DEF page, older
<1>8. Oldest(page) \in page /\ Oldest(page) \in Nat
  BY <1>7, OldestIs
<1>9. b < Oldest(page)
  BY <1>1, <1>2, <1>5, <1>6, <1>8
<1>10. ~(Oldest(page) <= Start)
  BY <1>1, <1>3, <1>8, <1>9, RangeAssumption
<1>11. walk.oldest # None => Oldest(page) < walk.oldest
  <2>. SUFFICES ASSUME walk.oldest # None
                PROVE  Oldest(page) < walk.oldest
    OBVIOUS
  <2>1. walk.cursor = walk.oldest /\ walk.cursor # None
    BY DEF WalkInv, BackwardInv
  <2>2. Oldest(page) \in Older(Offered, Cursor)
    BY <1>2, <1>8 DEF older
  <2>. QED
    BY <2>1, <2>2 DEF Older, Cursor
<1>12. walk.oldest \in Nat \cup {None}
  BY DEF TypeOK, Time
<1>13. ~Exhausted(page)
  BY <1>7, <1>8, <1>10, <1>11, <1>12 DEF Exhausted
<1>. QED
  BY <1>9, <1>13 DEF page

(* What a page adds is the vendor's, and of the range.                     *)
LEMMA PageAdds ==
  ASSUME TypeOK, WalkInv, phase \in {"token", "index"}, NEW cursor
  PROVE  LET page == LatestPage(Offered, cursor)
         IN  /\ page \in SUBSET Nat
             /\ walk.bars \cup (page \cap Window) \subseteq source[phase] \cap Window
             /\ walk.confirmed \cup Settled(page \cap Window) \subseteq source[phase] \cap Window
<1>1. LatestPage(Offered, cursor) \subseteq Offered
  BY DEF LatestPage
<1>2. Offered \subseteq source[phase] /\ Offered \in SUBSET Nat
  BY OfferedIs DEF Offered, Walks
<1>3. /\ walk.bars \subseteq source[phase] \cap Window
      /\ walk.confirmed \subseteq source[phase] \cap Window
  BY DEF WalkInv, BackwardInv
<1>. QED
  BY <1>1, <1>2, <1>3 DEF Settled

(* The end of a backward walk: all that was wanted is there.               *)
Returned(bars, confirmed, honest) ==
  /\ bars \subseteq source[phase] \cap Window
  /\ confirmed \subseteq source[phase] \cap Window
  /\ honest => \A b \in source[phase] \cap Window : b < Begun => b \in confirmed

LEMMA BackwardEnds ==
  ASSUME TypeOK, WalkInv, phase \in {"token", "index"},
         UNCHANGED <<source, newest, builder, file, request, reader, last>>,
         NEW bars, NEW confirmed, NEW honest \in {walk.honest, FALSE},
         Returned(bars, confirmed, honest), Finish(bars, confirmed, honest)
  PROVE  WalkInv'
<1>1. walk' = [NoWalk EXCEPT !.honest = honest] /\ phase' = NextPhase[phase]
  BY DEF Finish
<1>2. /\ walk'.bars = {} /\ walk'.confirmed = {} /\ walk'.oldest = walk'.cursor
      /\ walk'.cursor = None /\ walk'.began = None /\ walk'.honest = honest
  BY <1>1 DEF NoWalk
<1>3. End <= newest /\ UnderlyingsFetched /\ TokensFetched /\ IndexFetched
  BY DEF WalkInv
<1>4. walk.honest \in BOOLEAN
  BY DEF TypeOK
<1>5. Begun \in Nat /\ Begun <= newest /\ newest \in Nat /\ (walk.began # None => Begun = walk.began)
  BY BegunIs DEF Begun
<1>6. CASE phase = "token"
  <2>1. phase' = "underlying"
    BY <1>1, <1>6 DEF NextPhase
  <2>2. fetched' = [fetched EXCEPT !.token = bars, !.confirmed = confirmed, !.began = Begun]
    BY <1>6 DEF Finish
  <2>3. fetched'.began = Begun /\ fetched'.confirmed = confirmed
    BY <2>2 DEF TypeOK
  <2>4. ForwardInv'
    <3>1. \A b \in Asked' : b \in Nat
      BY DEF Asked, TypeOK, Time
    <3>. QED
      BY <1>2, <3>1 DEF ForwardInv, None
  <2>5. TokensFetched'
    BY <1>2, <1>5, <1>6, <2>1, <2>3 DEF TokensFetched, Returned, Time
  <2>. QED
    BY <1>3, <2>1, <2>4, <2>5 DEF WalkInv, BackwardInv, UnderlyingsFetched, IndexFetched
<1>7. CASE phase = "index"
  <2>1. phase' = "write"
    BY <1>1, <1>7 DEF NextPhase
  <2>2. fetched' = [fetched EXCEPT !.index = confirmed]
    BY <1>7 DEF Finish
  <2>3. /\ fetched'.index = confirmed /\ fetched'.confirmed = fetched.confirmed
        /\ fetched'.began = fetched.began /\ fetched'.underlying = fetched.underlying
    BY <2>2 DEF TypeOK
  <2>4. TokensFetched'
    BY <1>2, <1>3, <1>7, <2>1, <2>3 DEF TokensFetched
  <2>5. fetched.began <= Begun /\ fetched.began \in Nat
    BY <1>3, <1>5, <1>7 DEF IndexFetched, TokensFetched, Begun, Time
  <2>6. IndexFetched'
    <3>1. \A b \in source.index : b \in Nat
      BY DEF TypeOK, Time
    <3>2. honest => \A b \in source.index \cap Window : b < fetched.began => b \in confirmed
      BY <1>5, <1>7, <2>5, <3>1 DEF Returned
    <3>. QED
      BY <1>2, <1>7, <2>1, <2>3, <3>2 DEF IndexFetched, Returned
  <2>7. UnderlyingsFetched'
    BY <1>3, <1>7, <2>1, <2>3 DEF UnderlyingsFetched, Asked
  <2>. QED
    BY <1>3, <2>1, <2>4, <2>6, <2>7 DEF WalkInv, BackwardInv, ForwardInv
<1>. QED
  BY <1>6, <1>7

LEMMA BackwardGoesOn ==
  ASSUME TypeOK, WalkInv, phase \in {"token", "index"},
         UNCHANGED <<source, newest, builder, file, request, reader, last>>,
         NEW bars, NEW confirmed, NEW honest \in {walk.honest, FALSE}, NEW cursor \in Nat,
         bars \subseteq source[phase] \cap Window,
         confirmed \subseteq source[phase] \cap Window,
         honest => \A b \in source[phase] \cap Window :
                     b < Begun /\ cursor <= b => b \in confirmed,
         Continue(bars, confirmed, cursor, honest)
  PROVE  WalkInv'
<1>1. /\ phase' = phase /\ fetched' = fetched
      /\ walk'.bars = bars /\ walk'.confirmed = confirmed /\ walk'.cursor = cursor
      /\ walk'.oldest = cursor /\ walk'.began = Begun /\ walk'.honest = honest
  BY DEF Continue
<1>2. Begun \in Nat /\ Begun <= newest /\ newest \in Nat /\ (walk.began # None => Begun = walk.began)
  BY BegunIs DEF Begun
<1>3. BackwardInv'
  BY <1>1, <1>2 DEF BackwardInv, None
<1>4. End <= newest /\ TokensFetched /\ UnderlyingsFetched /\ IndexFetched
  BY DEF WalkInv
<1>5. TokensFetched' /\ UnderlyingsFetched' /\ ForwardInv'
  BY <1>1, <1>4 DEF TokensFetched, UnderlyingsFetched, ForwardInv, Asked
<1>6. IndexFetched'
  <2>1. phase = "index" => fetched.began <= Begun
    BY <1>2, <1>4 DEF IndexFetched, TokensFetched, Begun
  <2>. QED
    BY <1>1, <2>1 DEF IndexFetched
<1>. QED
  BY <1>3, <1>4, <1>5, <1>6 DEF WalkInv

LEMMA WalkBackPage ==
  ASSUME TypeOK, WalkInv, WalkBack
  PROVE  /\ WalkInv'
         /\ phase' = phase \/
              \E bars, confirmed : \E honest \in BOOLEAN :
                Returned(bars, confirmed, honest) /\ Finish(bars, confirmed, honest)
<1>1. PICK honest \in {walk.honest, FALSE} :
        LET page == LatestPage(Offered, IF honest THEN Cursor ELSE FirstCursor(phase))
            kept == page \cap Window
            bars == walk.bars \cup kept
            confirmed == walk.confirmed \cup Settled(kept)
        IN  IF Exhausted(page)
            THEN Finish(bars, confirmed, honest)
            ELSE Continue(bars, confirmed, Oldest(page), honest)
  BY DEF WalkBack
<1>. DEFINE page == LatestPage(Offered, IF honest THEN Cursor ELSE FirstCursor(phase))
            bars == walk.bars \cup (page \cap Window)
            confirmed == walk.confirmed \cup Settled(page \cap Window)
<1>2. /\ phase \in {"token", "index"} /\ honest \in BOOLEAN
      /\ UNCHANGED <<source, newest, builder, file, request, reader, last>>
  BY <1>1 DEF WalkBack, TypeOK
<1>3. /\ page \in SUBSET Nat
      /\ bars \subseteq source[phase] \cap Window
      /\ confirmed \subseteq source[phase] \cap Window
  BY <1>2, PageAdds
<1>4. honest => \A b \in source[phase] \cap Window :
                  b < Begun => b \in confirmed \/ (~Exhausted(page) /\ b < Oldest(page))
  <2>. SUFFICES ASSUME honest
                PROVE  \A b \in source[phase] \cap Window :
                         b < Begun => b \in confirmed \/ (~Exhausted(page) /\ b < Oldest(page))
    OBVIOUS
  <2>1. page = LatestPage(Offered, Cursor) /\ walk.honest
    BY <1>1
  <2>. QED
    BY <1>2, <2>1, PageCovers
<1>5. CASE Exhausted(page)
  <2>1. Finish(bars, confirmed, honest)
    BY <1>1, <1>5
  <2>2. Returned(bars, confirmed, honest)
    BY <1>3, <1>4, <1>5 DEF Returned
  <2>. HIDE DEF bars, confirmed
  <2>. QED
    BY <1>1, <1>2, <2>1, <2>2, BackwardEnds
<1>6. CASE ~Exhausted(page)
  <2>1. Continue(bars, confirmed, Oldest(page), honest)
    BY <1>1, <1>6
  <2>2. Oldest(page) \in Nat
    BY <1>3, <1>6, OldestIs DEF Exhausted
  <2>3. honest => \A b \in source[phase] \cap Window :
                    b < Begun /\ Oldest(page) <= b => b \in confirmed
    <3>1. \A b \in source[phase] : b \in Nat
      BY <1>2, OfferedIs DEF Walks
    <3>. QED
      BY <1>4, <2>2, <3>1
  <2>. HIDE DEF page, bars, confirmed
  <2>4. phase' = phase
    BY <2>1 DEF Continue
  <2>. QED
    BY <1>1, <1>2, <1>3, <2>1, <2>2, <2>3, <2>4, BackwardGoesOn
<1>. QED
  BY <1>5, <1>6

-----------------------------------------------------------------------------
(* The forward walk.                                                       *)

LEMMA AskedIs ==
  ASSUME TypeOK
  PROVE  /\ Asked \in SUBSET Nat /\ \A b \in Asked : b <= End
         /\ End \in Nat /\ (\A b \in Asked : b \in Nat)
BY RangeAssumption DEF TypeOK, Asked, Time

LEMMA WalkForwardPage ==
  ASSUME TypeOK, WalkInv, WalkForward PROVE WalkInv'
<1>. DEFINE page == EarliestPage(Asked, walk.cursor)
            bars == walk.bars \cup page
            reached == IF page = {} THEN walk.cursor ELSE Newest(page)
<1>1. /\ phase = "underlying"
      /\ UNCHANGED <<source, newest, builder, file, request, reader, last>>
  BY DEF WalkForward
<1>2. {b \in Offered : Start - PanelLookback <= b /\ b <= End} = Asked
  <2>1. \A b \in source.underlying : b \in Nat
    BY DEF TypeOK, Time
  <2>2. End <= newest /\ newest \in Nat /\ End \in Nat
    BY RangeAssumption DEF WalkInv, TypeOK, Time
  <2>. QED
    BY <1>1, <2>1, <2>2 DEF Offered, Asked
<1>3. \/ EarliestPage(Asked, reached) = {} /\ Finish(bars, bars, walk.honest)
      \/ EarliestPage(Asked, reached) # {} /\ Continue(bars, bars, Newest(page), walk.honest)
  BY <1>2 DEF WalkForward
<1>4. walk.bars = {b \in Asked : b <= walk.cursor}
  BY <1>1 DEF WalkInv, ForwardInv
<1>5. walk.cursor \in Nat \cup {-1}
  BY DEF TypeOK, Time, None
<1>6. \A c \in {walk.cursor, reached} :
        /\ EarliestPage(Asked, c) \subseteq Newer(Asked, c)
        /\ Newer(Asked, c) # {} => EarliestPage(Asked, c) # {}
        /\ \A b \in EarliestPage(Asked, c), d \in Newer(Asked, c) :
             d <= b => d \in EarliestPage(Asked, c)
  BY AskedIs, EarliestPageIs
<1>7. /\ page \in SUBSET Nat /\ page \subseteq Asked
      /\ \A b \in page : b <= End /\ walk.cursor < b
  BY <1>5, <1>6, AskedIs DEF Newer, None
<1>. HIDE DEF page
<1>8. page # {} => Newest(page) \in page /\ \A u \in page : u <= Newest(page)
  BY <1>7, NewestIs, AskedIs
<1>9. reached \in Nat \cup {-1}
  BY <1>5, <1>7, <1>8
<1>10. bars = {b \in Asked : b <= reached}
  <2>1. CASE page = {}
    BY <1>4, <2>1
  <2>2. CASE page # {}
    <3>1. reached = Newest(page) /\ reached \in page /\ reached \in Nat
      BY <1>7, <1>8, <2>2
    <3>2. ASSUME NEW b \in Asked, b <= reached
          PROVE  b \in bars
      <4>1. b \in Nat
        BY AskedIs
      <4>2. CASE b <= walk.cursor
        BY <1>4, <4>2
      <4>3. CASE ~(b <= walk.cursor)
        <5>1. b > walk.cursor
          BY <1>5, <4>1, <4>3
        <5>2. b \in Newer(Asked, walk.cursor)
          BY <5>1 DEF Newer
        <5>. QED
          BY <1>6, <3>1, <3>2, <5>2 DEF page
      <4>. QED
        BY <4>2, <4>3
    <3>3. ASSUME NEW b \in bars
          PROVE  b \in Asked /\ b <= reached
      <4>1. CASE b \in page
        BY <1>7, <1>8, <3>1, <4>1
      <4>2. CASE b \in walk.bars
        <5>1. b \in Asked /\ b <= walk.cursor /\ b \in Nat /\ walk.cursor < reached
          BY <1>4, <1>7, <3>1, <4>2, AskedIs
        <5>. QED
          BY <1>5, <3>1, <5>1
      <4>. QED
        BY <3>3, <4>1, <4>2
    <3>. QED
      BY <3>2, <3>3
  <2>. QED
    BY <2>1, <2>2
<1>. HIDE DEF bars
<1>11. /\ End <= newest /\ TokensFetched /\ walk.honest \in BOOLEAN
       /\ fetched = [fetched EXCEPT !.token = fetched.token]
  BY DEF WalkInv, TypeOK
<1>12. CASE EarliestPage(Asked, reached) = {} /\ Finish(bars, bars, walk.honest)
  <2>1. phase' = "index" /\ fetched' = [fetched EXCEPT !.underlying = bars]
    BY <1>1, <1>12 DEF Finish, NextPhase
  <2>2. walk' = [NoWalk EXCEPT !.honest = walk.honest]
    BY <1>12 DEF Finish
  <2>3. /\ walk'.bars = {} /\ walk'.confirmed = {} /\ walk'.oldest = None
        /\ walk'.cursor = None /\ walk'.began = None /\ walk'.honest = walk.honest
    BY <2>2 DEF NoWalk
  <2>4. /\ fetched'.underlying = bars /\ fetched'.began = fetched.began
        /\ fetched'.confirmed = fetched.confirmed
    BY <2>1 DEF TypeOK
  <2>5. bars = Asked
    <3>1. Newer(Asked, reached) = {}
      BY <1>6, <1>12
    <3>. HIDE DEF reached
    <3>2. ASSUME NEW b \in Asked
          PROVE  b <= reached
      <4>1. b \in Nat /\ ~(reached = None \/ b > reached)
        BY <3>1, AskedIs DEF Newer
      <4>. QED
        BY <1>9, <4>1
    <3>. QED
      BY <1>10, <3>2
  <2>6. -1 <= newest
    BY DEF TypeOK, Time
  <2>7. BackwardInv'
    BY <1>1, <2>1, <2>3, <2>6 DEF BackwardInv, None
  <2>8. TokensFetched'
    BY <1>1, <1>11, <2>1, <2>3, <2>4 DEF TokensFetched
  <2>9. UnderlyingsFetched' /\ IndexFetched' /\ ForwardInv'
    BY <1>1, <2>1, <2>3, <2>4, <2>5 DEF UnderlyingsFetched, IndexFetched, ForwardInv, Asked
  <2>. QED
    BY <1>1, <1>11, <2>7, <2>8, <2>9 DEF WalkInv
<1>13. CASE EarliestPage(Asked, reached) # {} /\ Continue(bars, bars, Newest(page), walk.honest)
  <2>1. page # {}
    <3>. SUFFICES ASSUME page = {} PROVE FALSE
      OBVIOUS
    <3>1. reached = walk.cursor
      OBVIOUS
    <3>. QED
      BY <1>13, <3>1 DEF page
  <2>2. /\ phase' = phase /\ fetched' = fetched /\ walk'.bars = bars
        /\ walk'.cursor = reached /\ walk'.honest = walk.honest
    BY <1>13, <2>1 DEF Continue
  <2>3. ForwardInv'
    BY <1>1, <1>10, <2>2 DEF ForwardInv, Asked
  <2>. QED
    BY <1>1, <1>11, <2>2, <2>3 DEF WalkInv, BackwardInv, TokensFetched, UnderlyingsFetched,
       IndexFetched
<1>. QED
  BY <1>3, <1>12, <1>13

-----------------------------------------------------------------------------
(* The other steps of a build.                                             *)

LEMMA NewBarKeepsWalkInv == ASSUME TypeOK, WalkInv, NewBar PROVE WalkInv'
<1>1. /\ newest' = newest + Interval /\ newest \in Nat /\ End \in Nat
      /\ UNCHANGED <<source, phase, walk, fetched>>
  BY RangeAssumption DEF NewBar, TypeOK, Time
<1>2. newest <= newest' /\ newest' \in Nat
  BY <1>1, IntervalAssumption
<1>3. /\ End <= newest'
      /\ walk.began \in Nat \cup {-1} /\ fetched.began \in Nat \cup {-1}
  BY <1>1, <1>2 DEF WalkInv, TypeOK, Time, None
<1>4. BackwardInv'
  BY <1>1, <1>2, <1>3 DEF WalkInv, BackwardInv
<1>5. TokensFetched'
  BY <1>1, <1>2, <1>3 DEF WalkInv, TokensFetched
<1>6. ForwardInv' /\ UnderlyingsFetched' /\ IndexFetched'
  BY <1>1 DEF WalkInv, ForwardInv, UnderlyingsFetched, IndexFetched, Asked
<1>. QED
  BY <1>3, <1>4, <1>5, <1>6 DEF WalkInv

LEMMA RateLimitedKeepsWalkInv == ASSUME TypeOK, WalkInv, RateLimited PROVE WalkInv'
<1>1. /\ phase \in {"token", "index"}
      /\ UNCHANGED <<source, newest, builder, phase, fetched, file, request, reader, last>>
      /\ walk' = [walk EXCEPT !.tries = @ + 1, !.began = Begun]
  BY DEF RateLimited
<1>2. /\ walk'.began = Begun /\ walk'.cursor = walk.cursor /\ walk'.oldest = walk.oldest
      /\ walk'.bars = walk.bars /\ walk'.confirmed = walk.confirmed
      /\ walk'.honest = walk.honest
  BY <1>1 DEF TypeOK
<1>3. /\ Begun \in Nat /\ Begun <= newest /\ newest \in Nat
      /\ walk.cursor # None => Begun = walk.began
      /\ walk.began # None => Begun = walk.began
  BY <1>1, BegunIs DEF Begun
<1>4. BackwardInv'
  BY <1>1, <1>2, <1>3 DEF WalkInv, BackwardInv, None
<1>5. TokensFetched' /\ ForwardInv' /\ UnderlyingsFetched'
  BY <1>1, <1>2 DEF WalkInv, TokensFetched, ForwardInv, UnderlyingsFetched, Asked
<1>6. IndexFetched'
  <2>1. phase = "index" => fetched.began <= Begun
    BY <1>3 DEF WalkInv, IndexFetched, TokensFetched, Begun
  <2>. QED
    BY <1>1, <1>2, <2>1 DEF IndexFetched
<1>. QED
  BY <1>1, <1>4, <1>5, <1>6 DEF WalkInv

(* Once the walks are over they leave nothing to keep.                     *)
LEMMA WalksOver ==
  ASSUME WalkInv, UNCHANGED newest, phase' \notin Walks \cup {"write"}
  PROVE  WalkInv'
BY DEF WalkInv, BackwardInv, ForwardInv, TokensFetched, UnderlyingsFetched, IndexFetched, Walks

LEMMA NextKeepsWalkInv == ASSUME TypeOK, WalkInv, [Next]_vars PROVE WalkInv'
<1>1. CASE NewBar
  BY <1>1, NewBarKeepsWalkInv
<1>2. CASE WalkBack
  BY <1>2, WalkBackPage
<1>3. CASE WalkForward
  BY <1>3, WalkForwardPage
<1>4. CASE RateLimited
  BY <1>4, RateLimitedKeepsWalkInv
<1>5. CASE RequestFails
  BY <1>5, WalksOver DEF RequestFails, Walks
<1>6. CASE WritePanel
  BY <1>6, WalksOver DEF WritePanel, Walks
<1>7. CASE OpenPresent \/ OpenAbsent \/ OpenUnconfigured
  <2>1. PICK panel : Open(panel)
    BY <1>7 DEF OpenPresent, OpenAbsent, OpenUnconfigured
  <2>2. Resolved(request, panel) \in {"panel", "scenario", "404", "503", "400"}
    BY DEF Resolved
  <2>3. phase' \in {"read", "404", "503", "400"} /\ UNCHANGED newest
    BY <2>1, <2>2 DEF Open
  <2>. QED
    BY <2>3, WalksOver DEF Walks
<1>8. CASE ReadRow
  BY <1>8, WalksOver DEF ReadRow, Walks
<1>9. CASE EndOfFile
  <2>1. phase' \in {"200", "400", "500"} /\ UNCHANGED newest
    BY <1>9 DEF EndOfFile, Answer
  <2>. QED
    BY <2>1, WalksOver DEF Walks
<1>10. CASE UNCHANGED vars
  BY <1>10 DEF vars, WalkInv, BackwardInv, ForwardInv, TokensFetched, UnderlyingsFetched,
     IndexFetched, Asked
<1>. QED
  BY <1>1, <1>2, <1>3, <1>4, <1>5, <1>6, <1>7, <1>8, <1>9, <1>10 DEF Next

LEMMA InitWalkInv == ASSUME Init PROVE WalkInv
<1>1. newest = End /\ walk = NoWalk /\ End \in Nat
  BY RangeAssumption DEF Init
<1>2. /\ walk.bars = {} /\ walk.confirmed = {} /\ walk.oldest = None /\ walk.cursor = None
      /\ walk.began = None
  BY <1>1 DEF NoWalk
<1>3. phase \in {"token", "open"}
  BY DEF Init
<1>4. BackwardInv
  BY <1>1, <1>2, <1>3 DEF BackwardInv, None
<1>. QED
  BY <1>1, <1>3, <1>4 DEF WalkInv, ForwardInv, TokensFetched, UnderlyingsFetched, IndexFetched

-----------------------------------------------------------------------------
(* A walk returns the window.                                              *)

LEMMA WalkReturns ==
  ASSUME TypeOK, WalkInv, [Next]_vars, phase \in {"token", "index"},
         phase' = NextPhase[phase]
  PROVE  LET got == IF phase = "token" THEN fetched'.confirmed ELSE fetched'.index
         IN  /\ walk'.honest => {b \in source[phase] \cap Window : b < Begun} \subseteq got
             /\ got \subseteq source[phase] \cap Window
<1>1. phase' \in {"underlying", "write"} /\ phase' # phase
  BY DEF NextPhase
<1>2. WalkBack
  BY <1>1 DEF Next, NewBar, WalkForward, RateLimited, RequestFails, WritePanel, OpenPresent,
     OpenAbsent, OpenUnconfigured, Open, ReadRow, EndOfFile, vars
<1>3. PICK bars, confirmed : \E honest \in BOOLEAN :
        Returned(bars, confirmed, honest) /\ Finish(bars, confirmed, honest)
  BY <1>1, <1>2, WalkBackPage
<1>4. PICK honest \in BOOLEAN :
        Returned(bars, confirmed, honest) /\ Finish(bars, confirmed, honest)
  BY <1>3
<1>5. walk'.honest = honest
  BY <1>4 DEF Finish, NoWalk
<1>6. (IF phase = "token" THEN fetched'.confirmed ELSE fetched'.index) = confirmed
  <2>1. CASE phase = "token"
    BY <1>4, <2>1 DEF Finish, TypeOK
  <2>2. CASE phase = "index"
    BY <1>4, <2>2 DEF Finish, TypeOK
  <2>. QED
    BY <2>1, <2>2
<1>. QED
  BY <1>4, <1>5, <1>6 DEF Returned

(* Whatever bars shift the pages and however often a vendor refuses, the   *)
(* backward walks (okx.get_historical_candles and                          *)
(* get_okx_xperp_index_candles) return every confirmed bar of the range,   *)
(* and no other, if the vendor honours the cursor.                         *)
THEOREM BackwardWalksReturn == Spec => WalkReturnsWindow
<1>1. Init => WalkInv
  BY InitWalkInv
<1>2. TypeOK /\ WalkInv /\ [Next]_vars => WalkInv'
  BY NextKeepsWalkInv
<1>3. TypeOK /\ WalkInv /\ [Next]_vars =>
        [ LET wanted == {b \in source[phase] \cap Window : b < Begun}
              got    == IF phase = "token" THEN fetched'.confirmed ELSE fetched'.index
          IN  phase \in {"token", "index"} /\ phase' = NextPhase[phase] /\ walk'.honest
                => wanted \subseteq got /\ got \subseteq source[phase] \cap Window ]_vars
  BY WalkReturns
<1>. QED
  BY <1>1, <1>2, <1>3, PipelineTypes, PTL DEF Spec, WalkReturnsWindow

(* A walk that goes on has its cursor strictly further on, within bounds,  *)
(* or one of its few retries of the page used up: a vendor that sends the  *)
(* same page again, or refuses, cannot hold it up.  This is what WalkEnds  *)
(* rests on, apart from an answer to every request.                        *)
Onward ==
  phase \in Walks /\ phase' = phase /\ walk' # walk =>
    \/ /\ walk'.cursor = walk.cursor
       /\ walk.tries < walk'.tries /\ walk'.tries <= MaxRetries
    \/ /\ phase \in {"token", "index"}
       /\ Start < walk'.cursor /\ walk'.cursor <= newest
       /\ walk.cursor # None => walk'.cursor < walk.cursor
    \/ /\ phase = "underlying"
       /\ walk.cursor < walk'.cursor /\ walk'.cursor <= End

LEMMA BackwardOnward == ASSUME TypeOK, WalkInv, WalkBack, phase' = phase PROVE Onward
<1>1. phase \in {"token", "index"} /\ walk.oldest = walk.cursor
  BY DEF WalkBack, WalkInv, BackwardInv
<1>2. PICK honest \in {walk.honest, FALSE} :
        LET page == LatestPage(Offered, IF honest THEN Cursor ELSE FirstCursor(phase))
            bars == walk.bars \cup (page \cap Window)
            confirmed == walk.confirmed \cup Settled(page \cap Window)
        IN  IF Exhausted(page)
            THEN Finish(bars, confirmed, honest)
            ELSE Continue(bars, confirmed, Oldest(page), honest)
  BY DEF WalkBack
<1>. DEFINE page == LatestPage(Offered, IF honest THEN Cursor ELSE FirstCursor(phase))
            bars == walk.bars \cup (page \cap Window)
            confirmed == walk.confirmed \cup Settled(page \cap Window)
<1>3. page \subseteq Offered
  BY DEF LatestPage
<1>4. Offered \in SUBSET Nat /\ newest \in Nat /\ \A b \in Offered : b <= newest
  BY <1>1, OfferedIs DEF Walks
<1>. HIDE DEF page
<1>5. ~Finish(bars, confirmed, honest)
  BY <1>1 DEF Finish, NextPhase
<1>6. ~Exhausted(page) /\ walk'.cursor = Oldest(page)
  <2>1. IF Exhausted(page) THEN Finish(bars, confirmed, honest)
        ELSE Continue(bars, confirmed, Oldest(page), honest)
    BY <1>2 DEF page
  <2>. QED
    BY <1>5, <2>1 DEF Continue
<1>7. Oldest(page) \in page
  BY <1>3, <1>4, <1>6, OldestIs DEF Exhausted
<1>8. /\ Oldest(page) \in Nat /\ Oldest(page) <= newest /\ Start \in Nat
      /\ walk.cursor \in Nat \cup {None}
  BY <1>3, <1>4, <1>7, RangeAssumption DEF TypeOK, Time
<1>9. Start < Oldest(page) /\ (walk.cursor # None => Oldest(page) < walk.cursor)
  BY <1>1, <1>6, <1>8 DEF Exhausted
<1>. QED
  BY <1>1, <1>6, <1>8, <1>9 DEF Onward

LEMMA ForwardOnward == ASSUME TypeOK, WalkInv, WalkForward, phase' = phase PROVE Onward
<1>. DEFINE page == EarliestPage(Asked, walk.cursor)
<1>1. phase = "underlying"
  BY DEF WalkForward
<1>2. {b \in Offered : Start - PanelLookback <= b /\ b <= End} = Asked
  <2>1. \A b \in source.underlying : b \in Nat
    BY DEF TypeOK, Time
  <2>2. End <= newest /\ newest \in Nat /\ End \in Nat
    BY RangeAssumption DEF WalkInv, TypeOK, Time
  <2>. QED
    BY <1>1, <2>1, <2>2 DEF Offered, Asked
<1>3. \A bars : ~Finish(bars, bars, walk.honest)
  BY <1>1 DEF Finish, NextPhase
<1>4. /\ EarliestPage(Asked, IF page = {} THEN walk.cursor ELSE Newest(page)) # {}
      /\ walk'.cursor = Newest(page)
  <2>. DEFINE bars == walk.bars \cup page
              over == EarliestPage(Asked, IF page = {} THEN walk.cursor ELSE Newest(page)) = {}
  <2>1. IF over THEN Finish(bars, bars, walk.honest)
        ELSE Continue(bars, bars, Newest(page), walk.honest)
    BY <1>2 DEF WalkForward
  <2>2. ~over /\ Continue(bars, bars, Newest(page), walk.honest)
    BY <1>3, <2>1
  <2>. QED
    BY <2>2 DEF Continue
<1>5. page # {}
  BY <1>4
<1>6. page \subseteq Newer(Asked, walk.cursor)
  BY AskedIs, EarliestPageIs
<1>. HIDE DEF page
<1>7. walk.cursor \in Nat \cup {-1}
  BY DEF TypeOK, Time, None
<1>8. page \in SUBSET Nat /\ End \in Nat /\ \A b \in page : b <= End /\ walk.cursor < b
  BY <1>6, <1>7, AskedIs DEF Newer, None
<1>9. Newest(page) \in page
  BY <1>5, <1>8, NewestIs
<1>. QED
  BY <1>1, <1>4, <1>8, <1>9 DEF Onward

LEMMA WalkMovesOn == ASSUME TypeOK, WalkInv, [Next]_vars PROVE Onward
<1>. SUFFICES ASSUME phase \in Walks, phase' = phase, walk' # walk
              PROVE  Onward
  BY DEF Onward
<1>1. WalkBack \/ WalkForward \/ RateLimited
  BY DEF Next, NewBar, RequestFails, WritePanel, OpenPresent, OpenAbsent, OpenUnconfigured, Open,
     ReadRow, EndOfFile, vars, Walks
<1>2. CASE RateLimited
  <2>1. walk'.cursor = walk.cursor /\ walk'.tries = walk.tries + 1 /\ walk.tries < MaxRetries
    BY <1>2 DEF RateLimited, TypeOK
  <2>2. walk.tries \in Nat /\ MaxRetries \in Nat
    BY RangeAssumption DEF TypeOK
  <2>. QED
    BY <2>1, <2>2 DEF Onward
<1>. QED
  BY <1>1, <1>2, BackwardOnward, ForwardOnward

(* However a vendor pages, repeats itself or refuses, a step of a walk     *)
(* over its history is one of boundedly many.                              *)
THEOREM WalksMoveOn == Spec => [][Onward]_vars
<1>1. Init => WalkInv
  BY InitWalkInv
<1>2. TypeOK /\ WalkInv /\ [Next]_vars => WalkInv'
  BY NextKeepsWalkInv
<1>3. TypeOK /\ WalkInv /\ [Next]_vars => [Onward]_vars
  BY WalkMovesOn
<1>. QED
  BY <1>1, <1>2, <1>3, PipelineTypes, PTL DEF Spec

-----------------------------------------------------------------------------
(* What is written.                                                        *)

LEMMA PriorIs ==
  ASSUME TypeOK, source \in Sources, NEW t \in Grid, \E b \in Asked : b < t
  PROVE  LET prior == Newest({b \in Asked : b < t})
         IN  /\ prior \in Asked /\ prior \in Time /\ prior < t /\ Canonical(prior)
             /\ \A b \in Asked : b < t => b <= prior
<1>. DEFINE priors == {b \in Asked : b < t}
<1>1. t \in Nat /\ priors \in SUBSET Nat /\ priors # {} /\ \A b \in priors : b <= t
  BY AskedIs, RangeAssumption DEF Grid
<1>2. Newest(priors) \in priors /\ \A b \in priors : b <= Newest(priors)
  BY <1>1, NewestIs
<1>3. Newest(priors) \in Asked /\ Newest(priors) \in Time /\ Newest(priors) < t
  BY <1>1, <1>2 DEF Time
<1>4. Canonical(Newest(priors))
  BY <1>3, GridAssumption DEF Asked
<1>. QED
  BY <1>2, <1>3, <1>4

LEMMA RowsWritten ==
  ASSUME TypeOK, WalkInv, phase = "write", source \in Sources
  PROVE  BuiltRowsInv(BuiltRows) /\ Joins(BuiltRows, fetched.began)
<1>1. fetched.underlying = Asked
  BY DEF WalkInv, UnderlyingsFetched
<1>. DEFINE Anchored == {t \in Grid : \E b \in Asked : b < t}
<1>2. BuiltRows = {RowAt(t) : t \in Anchored}
  BY <1>1 DEF BuiltRows
<1>3. ASSUME NEW t
      PROVE  RowAt(t) = [ts |-> t, token |-> t \in Joined, underlying |-> t \in Asked,
                         reference |-> IF t \in fetched.index THEN t ELSE None,
                         anchor |-> Newest({b \in Asked : b < t}), defect |-> "none"]
  BY <1>1 DEF RowAt
<1>4. ASSUME NEW t \in Grid, NEW u \in Grid, t \in Anchored, t < u
      PROVE  u \in Anchored
  <2>1. PICK b \in Asked : b < t
    BY <1>4
  <2>2. b \in Nat /\ t \in Nat /\ u \in Nat
    BY AskedIs, RangeAssumption DEF Grid
  <2>3. b < u
    BY <1>4, <2>1, <2>2
  <2>. QED
    BY <2>3
<1>5. BuiltRowsInv(BuiltRows)
  <2>. SUFFICES ASSUME NEW r \in BuiltRows
                PROVE  /\ r.ts \in Grid /\ r.defect = "none" /\ r.reference \in {r.ts, None}
                       /\ r.anchor \in Time /\ r.anchor < r.ts /\ Canonical(r.anchor)
                       /\ r.anchor = Newest({b \in Asked : b < r.ts})
                       /\ \E b \in Asked : b < r.ts
                       /\ r.underlying <=> r.ts \in Asked
                       /\ \A u \in Grid : r.ts < u => \E q \in BuiltRows : q.ts = u
    BY Zenon DEF BuiltRowsInv
  <2>0. PICK t \in Anchored : r = RowAt(t)
    BY <1>2
  <2>1. /\ RowAt(t).ts = t /\ RowAt(t).defect = "none"
        /\ RowAt(t).reference = IF t \in fetched.index THEN t ELSE None
        /\ RowAt(t).anchor = Newest({b \in Asked : b < t})
        /\ RowAt(t).underlying = (t \in Asked)
    BY <1>3
  <2>2. LET prior == Newest({b \in Asked : b < t})
        IN  prior \in Time /\ prior < t /\ Canonical(prior)
    BY PriorIs
  <2>3. ASSUME NEW u \in Grid, t < u
        PROVE  \E q \in BuiltRows : q.ts = u
    <3>1. u \in Anchored
      BY <1>4, <2>3
    <3>2. RowAt(u) \in BuiltRows /\ RowAt(u).ts = u
      BY <1>2, <1>3, <3>1
    <3>. QED
      BY <3>2
  <2>. QED
    BY <2>0, <2>1, <2>2, <2>3
<1>6. Joins(BuiltRows, fetched.began)
  <2>. SUFFICES ASSUME builder = "canonical", walk.honest, NEW r \in BuiltRows,
                       r.ts < fetched.began
                PROVE  /\ r.token <=> r.ts \in source.token
                       /\ r.reference = IF r.ts \in source.index THEN r.ts ELSE None
    BY Zenon DEF Joins
  <2>0. PICK t \in Anchored : r = RowAt(t)
    BY <1>2
  <2>. t < fetched.began /\ r.ts = t
    BY <1>3, <2>0
  <2>1. t \in Window
    BY DEF Grid, Window
  <2>2. t \in fetched.confirmed <=> t \in source.token
    BY <2>1 DEF WalkInv, TokensFetched
  <2>3. t \in fetched.index <=> t \in source.index
    BY <2>1 DEF WalkInv, IndexFetched
  <2>4. RowAt(t).token = (t \in fetched.confirmed)
    BY <1>3 DEF Joined
  <2>5. RowAt(t).reference = IF t \in fetched.index THEN t ELSE None
    BY <1>3
  <2>. QED
    BY <2>0, <2>2, <2>3, <2>4, <2>5
<1>. QED
  BY <1>5, <1>6

(* A file that is there stays, and so does what its walks were like.       *)
LEMMA FileStays ==
  ASSUME FileInv, UNCHANGED <<source, builder, file, request>>,
         walk'.honest => walk.honest \/ file.rows = {},
         phase' \in Walks \cup {"write", "failed"} => file.rows = {},
         phase' \notin Walks \cup {"write", "failed"} => phase \notin Walks \cup {"write", "failed"}
  PROVE  FileInv'
BY DEF FileInv, BuiltRowsInv, Joins, Asked

LEMMA NextKeepsFileInv == ASSUME IInv, WalkInv, FileInv, [Next]_vars PROVE FileInv'
<1>0. phase \in Walks \cup {"write"} => builder # "none"
  BY DEF IInv, Building
<1>1. CASE NewBar \/ WalkBack \/ WalkForward \/ RateLimited
  <2>1. phase \in Walks /\ UNCHANGED <<source, builder, file, request>>
    BY <1>1 DEF NewBar, WalkBack, WalkForward, RateLimited, Walks
  <2>2. phase' \in Walks \cup {"write"}
    BY <1>1, WalkBackTyped, WalkForwardTyped DEF NewBar, RateLimited, Walks, IInv
  <2>. QED
    BY <1>0, <2>1, <2>2, FileStays DEF FileInv
<1>2. CASE RequestFails
  BY <1>0, <1>2, FileStays DEF RequestFails, FileInv
<1>3. CASE WritePanel
  <2>1. /\ phase = "write" /\ UNCHANGED <<source, builder, walk, request>>
        /\ source \in Sources /\ request = BuiltRequest
    BY <1>0, <1>3 DEF WritePanel, FileInv
  <2>2. CASE phase' = "failed" /\ UNCHANGED file
    BY <1>0, <2>1, <2>2, FileStays DEF FileInv
  <2>3. CASE /\ phase' = "open"
             /\ file' = [NoFile EXCEPT !.schema = builder, !.rows = BuiltRows,
                                       !.began = fetched.began]
    <3>1. file'.schema = builder /\ file'.rows = BuiltRows /\ file'.began = fetched.began
      BY <2>3 DEF NoFile
    <3>2. BuiltRowsInv(BuiltRows) /\ Joins(BuiltRows, fetched.began)
      BY <2>1, RowsWritten DEF IInv
    <3>3. BuiltRowsInv(file.rows)' /\ Joins(file.rows, file.began)'
      BY <2>1, <3>1, <3>2 DEF BuiltRowsInv, Joins, Asked
    <3>. QED
      BY <2>1, <2>3, <3>1, <3>3 DEF FileInv, Walks
  <2>. QED
    BY <1>3, <2>2, <2>3 DEF WritePanel
<1>4. CASE OpenPresent \/ OpenAbsent \/ OpenUnconfigured
  <2>1. PICK panel : Open(panel)
    BY <1>4 DEF OpenPresent, OpenAbsent, OpenUnconfigured
  <2>2. Resolved(request, panel) \in {"panel", "scenario", "404", "503", "400"}
    BY DEF Resolved
  <2>3. /\ phase = "open" /\ phase' \in {"read", "404", "503", "400"}
        /\ UNCHANGED <<source, builder, file, request, walk>>
    BY <2>1, <2>2 DEF Open
  <2>. QED
    BY <2>3, FileStays DEF Walks
<1>5. CASE ReadRow \/ EndOfFile
  <2>1. /\ phase = "read" /\ phase' \in {"read", "200", "400", "500"}
        /\ UNCHANGED <<source, builder, file, request, walk>>
    BY <1>5 DEF ReadRow, EndOfFile, Answer
  <2>. QED
    BY <2>1, FileStays DEF Walks
<1>6. CASE UNCHANGED vars
  BY <1>6 DEF vars, FileInv, BuiltRowsInv, Joins, Asked
<1>. QED
  BY <1>1, <1>2, <1>3, <1>4, <1>5, <1>6 DEF Next

LEMMA InitFileInv == ASSUME Init PROVE FileInv
<1>1. builder # "none" => /\ builder \in {"canonical", "legacy"} /\ source \in Sources
                         /\ phase = "token" /\ file = NoFile /\ request = BuiltRequest
  BY DEF Init
<1>2. file = NoFile => file.rows = {}
  BY DEF NoFile
<1>. QED
  BY <1>1, <1>2 DEF FileInv, BuiltRowsInv, Joins, Walks

-----------------------------------------------------------------------------
(* The live snapshot.                                                      *)

LEMMA LiveAnchor ==
  ASSUME TypeOK, source \in Sources, NEW t \in Grid, \E b \in Asked : b < t,
         LiveAnchors(source, t) # {}
  PROVE  Newest(LiveAnchors(source, t)) = Newest({b \in Asked : b < t})
<1>. DEFINE live == Newest(LiveAnchors(source, t))
            prior == Newest({b \in Asked : b < t})
<1>1. /\ t \in Nat /\ Start <= t /\ t <= End
      /\ \A b \in source.underlying : b \in Nat
      /\ Start \in Nat /\ End \in Nat /\ PanelLookback \in Nat /\ LiveLookback \in Nat
  BY RangeAssumption, LiveAssumption DEF Grid, TypeOK, Time
<1>2. LiveAnchors(source, t) =
        {b \in source.underlying : t - LiveLookback <= b /\ b <= t /\ b < t}
  BY DEF LiveAnchors, LiveBars
<1>3. LiveAnchors(source, t) \in SUBSET Nat /\ \A b \in LiveAnchors(source, t) : b <= t
  BY <1>1, <1>2
<1>4. live \in LiveAnchors(source, t) /\ \A b \in LiveAnchors(source, t) : b <= live
  BY <1>1, <1>3, NewestIs
<1>5. prior \in Asked /\ prior \in Nat /\ prior < t /\ \A b \in Asked : b < t => b <= prior
  BY PriorIs DEF Time
<1>. HIDE DEF live, prior
<1>6. /\ live \in source.underlying /\ live \in Nat /\ live < t /\ t - LiveLookback <= live
      /\ prior \in source.underlying /\ Start - PanelLookback <= prior
  BY <1>1, <1>2, <1>4, <1>5 DEF Asked
<1>7. live <= prior
  <2>. SUFFICES ASSUME prior < live
                PROVE  FALSE
    BY <1>5, <1>6
  <2>1. Start - PanelLookback <= live /\ live <= End
    BY <1>1, <1>5, <1>6
  <2>2. live \in Asked
    BY <1>6, <2>1 DEF Asked
  <2>. QED
    BY <1>5, <1>6, <2>2
<1>8. prior <= live
  <2>. SUFFICES ASSUME live < prior
                PROVE  FALSE
    BY <1>5, <1>6
  <2>1. t - LiveLookback <= prior /\ prior <= t
    BY <1>1, <1>5, <1>6
  <2>2. prior \in LiveAnchors(source, t)
    BY <1>2, <1>5, <1>6, <2>1
  <2>. QED
    BY <1>4, <1>5, <1>6, <2>2
<1>9. live = prior
  BY <1>5, <1>6, <1>7, <1>8
<1>. QED
  BY <1>9 DEF live, prior

LEMMA LiveJoins == ASSUME TypeOK, FileInv PROVE LiveJoinsAsPanel
<1>. SUFFICES ASSUME builder = "canonical", walk.honest, NEW r \in file.rows,
                     r.ts < file.began, LiveSnapshot(source, r.ts) # NoSnapshot
              PROVE  LET live == LiveSnapshot(source, r.ts)
                     IN  /\ live.token = r.token /\ live.anchor = r.anchor
                         /\ live.reference = r.reference
  BY DEF LiveJoinsAsPanel
<1>1. /\ source \in Sources /\ BuiltRowsInv(file.rows) /\ Joins(file.rows, file.began)
      /\ r \in Row
  BY DEF FileInv, TypeOK
<1>2. LiveToken(source, r.ts) /\ LiveAnchors(source, r.ts) # {}
  BY DEF LiveSnapshot
<1>3. /\ LiveSnapshot(source, r.ts).token = TRUE
      /\ LiveSnapshot(source, r.ts).anchor = Newest(LiveAnchors(source, r.ts))
      /\ LiveSnapshot(source, r.ts).reference = LiveReference(source, r.ts)
  BY <1>2 DEF LiveSnapshot
<1>4. /\ r.token = TRUE
      /\ r.reference = LiveReference(source, r.ts)
  BY <1>1, <1>2 DEF Joins, LiveToken, LiveReference, Row
<1>5. r.ts \in Grid /\ r.anchor = Newest({b \in Asked : b < r.ts})
  BY <1>1 DEF BuiltRowsInv
<1>6. \E b \in Asked : b < r.ts
  BY <1>1 DEF BuiltRowsInv
<1>. QED
  BY <1>1, <1>2, <1>3, <1>4, <1>5, <1>6, LiveAnchor

(* A canonical panel gives a settled bar the token, the anchor and the     *)
(* comparator that the live pipeline would give it (live.py against        *)
(* build_canonical_panel.py), whatever the vendors' histories are.         *)
THEOREM LiveJoinsThePanel == Spec => []LiveJoinsAsPanel
<1>1. Init => WalkInv /\ FileInv
  BY InitWalkInv, InitFileInv
<1>2. IInv /\ WalkInv /\ FileInv /\ [Next]_vars => (WalkInv /\ FileInv)'
  BY NextKeepsWalkInv, NextKeepsFileInv DEF IInv
<1>3. IInv /\ FileInv => LiveJoinsAsPanel
  BY LiveJoins DEF IInv
<1>. QED
  BY <1>1, <1>2, <1>3, PipelineInvariant, PTL DEF Spec

(* In the underlying, the two may differ (LiveAgreesWithPanel), and this is *)
(* exactly how: live has none outside the regular session, where the panel *)
(* takes any bar; inside it, live takes the prior anchor for the missing   *)
(* observation of its own bar while that is not too old, and the panel     *)
(* says that it has none.                                                  *)
LiveUnderlyingOfRow ==
  builder # "none" =>
    \A r \in file.rows :
      LET live == LiveSnapshot(source, r.ts)
      IN  live # NoSnapshot =>
            live.underlying =
              CASE r.ts \notin Regular -> None
                [] r.ts \in Regular /\ r.underlying -> r.ts
                [] r.ts \in Regular /\ ~r.underlying ->
                     IF r.ts - r.anchor <= MaxUnderlyingAge THEN r.anchor ELSE None

(* The newest bar that live sees is the row's own, or else its anchor.     *)
LEMMA LiveNewest ==
  ASSUME TypeOK, source \in Sources, NEW t \in Grid, \E b \in Asked : b < t,
         LiveAnchors(source, t) # {}
  PROVE  Newest(LiveBars(source, t)) =
           IF t \in Asked THEN t ELSE Newest({b \in Asked : b < t})
<1>. DEFINE seen == Newest(LiveBars(source, t))
<1>1. /\ t \in Nat /\ Start <= t /\ t <= End
      /\ \A b \in source.underlying : b \in Nat
      /\ Start \in Nat /\ PanelLookback \in Nat /\ LiveLookback \in Nat
  BY RangeAssumption, LiveAssumption DEF Grid, TypeOK, Time
<1>2. LiveBars(source, t) \in SUBSET Nat /\ \A b \in LiveBars(source, t) : b <= t
  BY <1>1 DEF LiveBars
<1>3. LiveBars(source, t) # {}
  BY DEF LiveAnchors
<1>4. seen \in LiveBars(source, t) /\ \A b \in LiveBars(source, t) : b <= seen
  BY <1>1, <1>2, <1>3, NewestIs
<1>. HIDE DEF seen
<1>5. CASE t \in Asked
  <2>1. t - LiveLookback <= t /\ t <= t
    BY <1>1
  <2>2. t \in LiveBars(source, t)
    BY <1>5, <2>1 DEF LiveBars, Asked
  <2>3. seen <= t /\ t <= seen /\ seen \in Nat
    BY <1>2, <1>4, <2>2
  <2>4. seen = t
    BY <1>1, <2>3
  <2>. QED
    BY <1>5, <2>4 DEF seen
<1>6. CASE t \notin Asked
  <2>1. Start - PanelLookback <= t
    BY <1>1
  <2>2. t \notin source.underlying
    BY <1>1, <1>6, <2>1 DEF Asked
  <2>3. \A b \in LiveBars(source, t) : b # t
    BY <2>2 DEF LiveBars
  <2>4. \A b \in LiveBars(source, t) : b < t
    BY <1>1, <1>2, <2>3
  <2>5. LiveAnchors(source, t) = LiveBars(source, t)
    BY <2>4 DEF LiveAnchors
  <2>. QED
    BY <1>6, <2>5, LiveAnchor
<1>. QED
  BY <1>5, <1>6

LEMMA LiveUnderlyingIs == ASSUME TypeOK, FileInv PROVE LiveUnderlyingOfRow
<1>. SUFFICES ASSUME builder # "none", NEW r \in file.rows,
                     LiveSnapshot(source, r.ts) # NoSnapshot
              PROVE  LiveSnapshot(source, r.ts).underlying =
                       CASE r.ts \notin Regular -> None
                         [] r.ts \in Regular /\ r.underlying -> r.ts
                         [] r.ts \in Regular /\ ~r.underlying ->
                              IF r.ts - r.anchor <= MaxUnderlyingAge THEN r.anchor ELSE None
  BY DEF LiveUnderlyingOfRow
<1>1. LiveAnchors(source, r.ts) # {}
  BY DEF LiveSnapshot
<1>2. LiveSnapshot(source, r.ts).underlying = LiveUnderlying(source, r.ts)
  BY DEF LiveSnapshot
<1>3. /\ source \in Sources /\ r.ts \in Grid /\ \E b \in Asked : b < r.ts
      /\ r.anchor = Newest({b \in Asked : b < r.ts})
      /\ r.underlying <=> r.ts \in Asked
  BY DEF FileInv, BuiltRowsInv
<1>4. Newest(LiveBars(source, r.ts)) = IF r.underlying THEN r.ts ELSE r.anchor
  BY <1>1, <1>3, LiveNewest
<1>5. r.underlying \in BOOLEAN /\ r.ts - r.ts <= MaxUnderlyingAge
  BY <1>3, LiveAssumption, RangeAssumption DEF Grid, TypeOK, Row
<1>6. CASE r.underlying
  BY <1>2, <1>4, <1>5, <1>6 DEF LiveUnderlying
<1>7. CASE ~r.underlying
  BY <1>2, <1>4, <1>5, <1>7 DEF LiveUnderlying
<1>. QED
  BY <1>6, <1>7

(* A row of a panel determines the underlying of the live snapshot of its  *)
(* bar: the difference between the two pipelines is this one and no other. *)
THEOREM LiveUnderlyingIsOfRow == Spec => []LiveUnderlyingOfRow
<1>1. Init => WalkInv /\ FileInv
  BY InitWalkInv, InitFileInv
<1>2. IInv /\ WalkInv /\ FileInv /\ [Next]_vars => (WalkInv /\ FileInv)'
  BY NextKeepsWalkInv, NextKeepsFileInv DEF IInv
<1>3. IInv /\ FileInv => LiveUnderlyingOfRow
  BY LiveUnderlyingIs DEF IInv
<1>. QED
  BY <1>1, <1>2, <1>3, PipelineInvariant, PTL DEF Spec

-----------------------------------------------------------------------------
(* Scan, loader and replay on the same row.                                *)

(* What it means for scan and loader that the scan accepts a row.          *)
Accepted(row) ==
  LET scan == reader.scan
      load == reader.load
      next == ScanRow(file.schema, scan, row)
  IN  /\ scan.verdict = "reading" /\ file.schema \notin {"hybrid", "untimed"}
      /\ next.prev = row.ts /\ next.rows # 0
      /\ next.closed = (scan.closed \/ row.underlying)
      /\ next.replayable = (scan.replayable \/ scan.closed \/ row.anchor # None)
      /\ LoadRow(file.schema, load, row) =
           [status |-> "reading", prev |-> row.ts,
            close |-> IF row.underlying THEN row.ts ELSE load.close]
      /\ Canonical(row.ts) /\ ~OutOfStep(load.prev, row)

LEMMA AcceptedRow ==
  ASSUME IInv, Agreed, NEW row \in NextRow, file.schema # "scenario",
         ScanRow(file.schema, reader.scan, row).verdict = "reading"
  PROVE  Accepted(row)
<1>. DEFINE scan == reader.scan
            load == reader.load
<1>1. scan.verdict = "reading" /\ ScanVerdict(file.schema, scan, row) = "reading"
  BY DEF ScanRow, IInv, TypeOK, Scan
<1>2. /\ row.defect \notin {"extra", "identity", "number", "price", "observed", "unpriced"}
      /\ file.schema \notin {"hybrid", "untimed"} /\ ~OutOfStep(scan.prev, row)
      /\ ~FutureReference(row) /\ ~(row.anchor # None /\ row.anchor >= row.ts)
  BY <1>1 DEF ScanVerdict
<1>3. load.status = "reading" /\ load.prev = scan.prev
  BY <1>1 DEF Agreed
<1>4. LoadStatus(file.schema, load, row) = "reading"
  BY <1>2, <1>3 DEF LoadStatus
<1>5. ScanRow(file.schema, scan, row) =
        [verdict    |-> "reading",
         prev       |-> row.ts,
         rows       |-> IF scan.rows = 2 THEN 2 ELSE scan.rows + 1,
         closed     |-> scan.closed \/ row.underlying,
         replayable |-> scan.replayable \/ scan.closed \/ row.anchor # None]
  BY <1>1 DEF ScanRow
<1>6. scan.rows \in 0..2
  BY DEF IInv, TypeOK, Scan
<1>7. LoadRow(file.schema, load, row) =
        [status |-> "reading", prev |-> row.ts,
         close |-> IF row.underlying THEN row.ts ELSE load.close]
  BY <1>3, <1>4 DEF LoadRow
<1>8. Canonical(row.ts) /\ ~OutOfStep(load.prev, row)
  BY <1>2, <1>3 DEF OutOfStep
<1>. DEFINE next == ScanRow(file.schema, scan, row)
<1>9. /\ next.prev = row.ts /\ next.rows = IF scan.rows = 2 THEN 2 ELSE scan.rows + 1
      /\ next.closed = (scan.closed \/ row.underlying)
      /\ next.replayable = (scan.replayable \/ scan.closed \/ row.anchor # None)
  BY <1>5
<1>10. next.rows # 0
  BY <1>6, <1>9
<1>. HIDE DEF next
<1>. QED
  BY <1>1, <1>2, <1>7, <1>8, <1>9, <1>10 DEF next, Accepted

(* Such a row is the next step of a replay that runs, unless the file      *)
(* leans on anchors replay cannot use.                                     *)
LEMMA AcceptedRowReplays ==
  ASSUME IInv, Agreed, NEW row \in NextRow, file.schema # "scenario",
         ScanRow(file.schema, reader.scan, row).verdict = "reading",
         ~reader.sparse, ~Sparse(row)
  PROVE  LET snapshot == SnapshotOf(file, reader.load, row)
         IN  /\ Emits(file.schema, reader.load, row) =>
                  ReplayStatus(reader.replay, snapshot) = "running"
             /\ ~Emits(file.schema, reader.load, row) =>
                  /\ reader.replay.prev = None
                  /\ ~ScanRow(file.schema, reader.scan, row).replayable
<1>. DEFINE load == reader.load
            snapshot == SnapshotOf(file, load, row)
            anchor == LoadAnchor(load, row)
<1>0. Accepted(row)
  BY AcceptedRow
<1>1. /\ reader.scan.verdict = "reading" /\ Canonical(row.ts) /\ ~OutOfStep(load.prev, row)
      /\ LoadRow(file.schema, load, row).status = "reading"
  BY <1>0 DEF Accepted
<1>2. /\ load.close # None => Canonical(load.close)
      /\ reader.scan.closed <=> load.close # None
      /\ reader.replay.status = "running"
      /\ reader.replay.prev # None => reader.replay.prev = load.prev
      /\ reader.scan.replayable => reader.replay.prev # None
  BY <1>1 DEF Agreed
<1>3. snapshot.ts = row.ts /\ snapshot.anchor = anchor
  BY DEF SnapshotOf
<1>4. Emits(file.schema, load, row) <=> anchor # None
  BY <1>1 DEF Emits
<1>5. ASSUME anchor # None
      PROVE  ReplayStatus(reader.replay, snapshot) = "running"
  <2>1. Canonical(anchor)
    BY <1>2, <1>5 DEF LoadAnchor, Sparse
  <2>2. anchor < row.ts
    BY <1>1, <1>5, RowLoaded
  <2>3. anchor \in Nat /\ row.ts \in Nat
    BY <1>5, RowRead DEF LoadAnchor, Row, IInv, TypeOK, Load, Time
  <2>4. CASE reader.replay.prev # None
    BY <1>1, <1>2, <1>3, <2>4 DEF ReplayStatus, OutOfStep
  <2>5. CASE reader.replay.prev = None
    BY <1>1, <1>2, <1>3, <2>1, <2>2, <2>3, <2>5 DEF ReplayStatus
  <2>. QED
    BY <2>4, <2>5
<1>6. ASSUME anchor = None
      PROVE  reader.replay.prev = None /\ ~ScanRow(file.schema, reader.scan, row).replayable
  <2>1. load.close = None /\ row.anchor = None
    BY <1>6 DEF LoadAnchor
  <2>2. reader.replay.prev = None
    BY <2>1 DEF Sparse
  <2>. QED
    BY <1>0, <1>2, <2>1, <2>2 DEF Accepted
<1>. QED
  BY <1>4, <1>5, <1>6

LEMMA RowKeepsAgreed ==
  ASSUME IInv, Agreed, NEW row \in NextRow, UNCHANGED file,
         LET snapshot == SnapshotOf(file, reader.load, row)
             emitted == Emits(file.schema, reader.load, row)
         IN  /\ reader'.scan = ScanRow(file.schema, reader.scan, row)
             /\ reader'.load = LoadRow(file.schema, reader.load, row)
             /\ reader'.replay = IF emitted THEN ReplayStep(reader.replay, snapshot)
                                 ELSE reader.replay
             /\ reader'.sparse = (reader.sparse \/ Sparse(row))
  PROVE  Agreed'
<1>. SUFFICES ASSUME file.schema # "scenario", reader'.scan.verdict = "reading"
              PROVE  Agreed'
  BY DEF Agreed
<1>. DEFINE snapshot == SnapshotOf(file, reader.load, row)
            emitted == Emits(file.schema, reader.load, row)
<1>0. Accepted(row)
  BY AcceptedRow
<1>1. /\ reader.scan.verdict = "reading" /\ file.schema \notin {"hybrid", "untimed"}
      /\ reader'.scan.prev = row.ts /\ reader'.scan.rows # 0
      /\ reader'.scan.closed = (reader.scan.closed \/ row.underlying)
      /\ reader'.load.status = "reading" /\ reader'.load.prev = row.ts
      /\ reader'.load.close = IF row.underlying THEN row.ts ELSE reader.load.close
      /\ Canonical(row.ts)
  BY <1>0 DEF Accepted
<1>2. row.ts # None
  BY RowRead DEF Row, Time, None
<1>3. /\ reader.scan.closed <=> reader.load.close # None
      /\ reader.load.close # None => Canonical(reader.load.close)
  BY <1>1 DEF Agreed
<1>4. ASSUME ~reader'.sparse
      PROVE  /\ reader'.replay.status = "running"
             /\ reader'.replay.prev # None => reader'.replay.prev = row.ts
             /\ reader'.scan.replayable => reader'.replay.prev # None
  <2>1. ~reader.sparse /\ ~Sparse(row)
    BY <1>4
  <2>2. CASE emitted
    <3>1. ReplayStatus(reader.replay, snapshot) = "running"
      BY <2>1, <2>2, AcceptedRowReplays
    <3>2. snapshot.ts = row.ts
      BY DEF SnapshotOf
    <3>. QED
      BY <1>2, <2>2, <3>1, <3>2 DEF ReplayStep
  <2>3. CASE ~emitted
    <3>1. reader.replay.prev = None /\ ~reader'.scan.replayable
      BY <2>1, <2>3, AcceptedRowReplays
    <3>2. reader.replay.status = "running"
      BY <1>1, <2>1 DEF Agreed
    <3>. QED
      BY <2>3, <3>1, <3>2
  <2>. QED
    BY <2>2, <2>3
<1>. QED
  BY <1>1, <1>2, <1>3, <1>4 DEF Agreed

-----------------------------------------------------------------------------
(* A panel that a builder wrote.                                           *)

LEMMA MultipleOnGrid == ASSUME NEW m \in Nat PROVE Canonical(m * Interval)
<1>. DEFINE q == (m * Interval) \div Interval
            r == (m * Interval) % Interval
<1>1. Interval \in Nat \ {0} /\ m * Interval \in Int
  BY IntervalAssumption
<1>2. q \in Int /\ r \in 0..(Interval - 1) /\ m * Interval = Interval * q + r
  BY <1>1, SMT
<1>. HIDE DEF q, r
<1>. DEFINE d == m - q
<1>3. d \in Int /\ r = Interval * d
  BY <1>1, <1>2
<1>. HIDE DEF d
<1>4. d >= 1 => Interval * d >= Interval
  BY <1>1, <1>3
<1>5. d <= -1 => Interval * d <= -Interval
  BY <1>1, <1>3
<1>6. d = 0
  BY <1>1, <1>2, <1>3, <1>4, <1>5
<1>. QED
  BY <1>1, <1>3, <1>6 DEF r, Canonical

LEMMA NextOfGrid ==
  ASSUME NEW a \in Grid, NEW t \in Grid, a < t
  PROVE  a + Interval \in Grid /\ a + Interval <= t
<1>1. /\ a \in Nat /\ t \in Nat /\ Canonical(a) /\ Canonical(t)
      /\ Start <= a /\ t <= End /\ Start \in Nat /\ End \in Nat /\ Interval \in Nat \ {0}
  BY RangeAssumption, IntervalAssumption DEF Grid
<1>2. PICK n \in Nat \ {0} : t = a + n * Interval
  BY <1>1, BarsBetween
<1>3. a + Interval <= t
  <2>1. n * Interval >= Interval
    BY <1>1
  <2>. QED
    BY <1>1, <1>2, <2>1
<1>4. Canonical(a + Interval)
  <2>. DEFINE k == a \div Interval
              m == k + 1
  <2>1. k \in Nat /\ a % Interval = a - Interval * k
    BY <1>1, SMT
  <2>2. a = Interval * k
    BY <1>1, <2>1 DEF Canonical
  <2>3. m \in Nat /\ a + Interval = m * Interval
    <3>. HIDE DEF k
    <3>. QED
      BY <1>1, <2>1, <2>2
  <2>. HIDE DEF m
  <2>4. (m * Interval) % Interval = 0
    BY <2>3, MultipleOnGrid DEF Canonical
  <2>. QED
    BY <2>3, <2>4 DEF Canonical
<1>5. a + Interval \in Nat /\ Start <= a + Interval /\ a + Interval <= End
  BY <1>1, <1>3
<1>. QED
  BY <1>3, <1>4, <1>5, <1>1 DEF Grid

(* The next row of such a panel is one interval after the last, and has an *)
(* anchor on the grid.                                                     *)
LEMMA NextBuiltRow ==
  ASSUME IInv, FileInv, BuiltReadInv, phase = "read", builder # "none", NEW row \in NextRow
  PROVE  /\ row \in file.rows /\ row.defect = "none" /\ ~FutureReference(row)
         /\ row.anchor # None /\ Canonical(row.anchor) /\ row.anchor < row.ts
         /\ ~OutOfStep(reader.load.prev, row)
<1>. DEFINE prev == reader.load.prev
<1>1. row \in Unread /\ row \in file.rows /\ \A q \in Unread : row.ts <= q.ts
  BY DEF NextRow, Unread
<1>2. /\ row.ts \in Grid /\ row.defect = "none" /\ row.reference \in {row.ts, None}
      /\ row.anchor \in Time /\ row.anchor < row.ts /\ Canonical(row.anchor)
  BY <1>1 DEF FileInv, BuiltRowsInv
<1>3. row.ts \in Nat /\ Canonical(row.ts)
  BY <1>2, RangeAssumption DEF Grid
<1>4. row.anchor # None /\ ~FutureReference(row)
  BY <1>2, <1>3 DEF Time, None, FutureReference
<1>5. ASSUME prev # None
      PROVE  row.ts = prev + Interval
  <2>1. PICK r \in file.rows : r.ts = prev
    BY <1>5 DEF BuiltReadInv
  <2>2. prev \in Grid
    BY <2>1 DEF FileInv, BuiltRowsInv
  <2>3. prev < row.ts
    BY <1>1, <1>5 DEF Unread
  <2>4. prev + Interval \in Grid /\ prev + Interval <= row.ts
    BY <1>2, <2>2, <2>3, NextOfGrid
  <2>5. prev \in Nat /\ Interval \in Nat \ {0}
    BY <2>2, RangeAssumption, IntervalAssumption DEF Grid
  <2>6. prev < prev + Interval
    BY <2>5
  <2>7. PICK q \in file.rows : q.ts = prev + Interval
    BY <2>1, <2>4, <2>6 DEF FileInv, BuiltRowsInv
  <2>8. q \in Unread
    BY <2>6, <2>7 DEF Unread
  <2>. QED
    BY <1>1, <1>3, <2>4, <2>5, <2>7, <2>8
<1>. QED
  BY <1>1, <1>2, <1>3, <1>4, <1>5 DEF OutOfStep

LEMMA RowKeepsBuiltReadInv ==
  ASSUME IInv, FileInv, Agreed, Agreed', BuiltReadInv, phase = "read", phase' = "read",
         NEW row \in NextRow, UNCHANGED <<file, builder>>,
         reader'.scan = ScanRow(file.schema, reader.scan, row),
         reader'.sparse = (reader.sparse \/ Sparse(row))
  PROVE  BuiltReadInv'
<1>. SUFFICES ASSUME builder # "none"
              PROVE  BuiltReadInv'
  BY DEF BuiltReadInv
<1>. DEFINE scan == reader.scan
<1>1. /\ row \in file.rows /\ row.defect = "none" /\ ~FutureReference(row)
      /\ row.anchor # None /\ Canonical(row.anchor) /\ row.anchor < row.ts
      /\ ~OutOfStep(reader.load.prev, row)
  BY NextBuiltRow
<1>2. /\ file.schema = builder /\ builder \in {"canonical", "legacy"}
      /\ ~reader.sparse /\ scan.verdict = "reading" /\ scan.rows \in 0..2
  BY DEF FileInv, Walks, BuiltReadInv, IInv, TypeOK, Scan
<1>3. /\ reader.load.prev = scan.prev
      /\ scan.rows = 0 <=> scan.prev = None
  BY <1>2 DEF Agreed
<1>4. row.ts \in Nat /\ row.anchor \in Nat
  BY <1>1, RowRead DEF Row, Time
<1>5. ScanVerdict(file.schema, scan, row) = "reading"
  BY <1>1, <1>2, <1>3, <1>4 DEF ScanVerdict
<1>6. reader'.scan =
        [verdict    |-> "reading",
         prev       |-> row.ts,
         rows       |-> IF scan.rows = 2 THEN 2 ELSE scan.rows + 1,
         closed     |-> scan.closed \/ row.underlying,
         replayable |-> scan.replayable \/ scan.closed \/ row.anchor # None]
  BY <1>2, <1>5 DEF ScanRow
<1>7. /\ reader'.scan.verdict = "reading" /\ reader'.scan.prev = row.ts
      /\ reader'.scan.rows = (IF scan.rows = 2 THEN 2 ELSE scan.rows + 1)
      /\ reader'.scan.replayable
  <2>1. /\ reader'.scan.verdict = "reading" /\ reader'.scan.prev = row.ts
        /\ reader'.scan.rows = (IF scan.rows = 2 THEN 2 ELSE scan.rows + 1)
        /\ reader'.scan.replayable = (scan.replayable \/ scan.closed \/ row.anchor # None)
    BY <1>6
  <2>. QED
    BY <1>1, <2>1
<1>8. ~reader'.sparse
  BY <1>1, <1>2 DEF Sparse
<1>9. reader'.load.prev = row.ts
  BY <1>2, <1>7 DEF Agreed
<1>10. ASSUME reader'.scan.rows = 1, NEW r \in file.rows, r.ts <= row.ts
       PROVE  r.ts = row.ts
  <2>1. reader.load.prev = None
    BY <1>2, <1>3, <1>7, <1>10
  <2>2. row.ts <= r.ts
    BY <1>2, <2>1 DEF NextRow, Unread
  <2>3. r.ts \in Nat
    BY DEF IInv, TypeOK, Row, Time
  <2>. QED
    BY <1>4, <1>10, <2>2, <2>3
<1>11. reader'.load.prev # None => \E r \in file.rows : r.ts = reader'.load.prev
  BY <1>1, <1>9
<1>12. reader'.scan.rows = 1 => \A r \in file.rows : r.ts <= row.ts => r.ts = row.ts
  BY <1>10
<1>. QED
  BY <1>7, <1>8, <1>9, <1>11, <1>12 DEF BuiltReadInv

LEMMA ReadRowKeepsReadInv == ASSUME IInv, FileInv, ReadInv, ReadRow PROVE ReadInv'
<1>1. PICK row \in NextRow :
        LET snapshot == SnapshotOf(file, reader.load, row)
            emitted  == Emits(file.schema, reader.load, row)
            running  == emitted /\ ReplayStatus(reader.replay, snapshot) = "running"
        IN  /\ reader' =
                 [scan   |-> ScanRow(file.schema, reader.scan, row),
                  load   |-> LoadRow(file.schema, reader.load, row),
                  replay |-> IF emitted THEN ReplayStep(reader.replay, snapshot)
                             ELSE reader.replay,
                  sparse |-> reader.sparse \/ Sparse(row),
                  rows   |-> IF builder = "none" THEN reader.rows + 1 ELSE 0]
            /\ last' = IF running
                       THEN [snapshot |-> snapshot,
                             estimate |-> Estimate(Prior(reader.replay, snapshot), snapshot)]
                       ELSE last
  BY DEF ReadRow
<1>2. phase = "read" /\ phase' = "read" /\ UNCHANGED <<builder, file>>
  BY DEF ReadRow
<1>. DEFINE snapshot == SnapshotOf(file, reader.load, row)
            emitted  == Emits(file.schema, reader.load, row)
            running  == emitted /\ ReplayStatus(reader.replay, snapshot) = "running"
<1>3. /\ reader'.scan = ScanRow(file.schema, reader.scan, row)
      /\ reader'.load = LoadRow(file.schema, reader.load, row)
      /\ reader'.replay = IF emitted THEN ReplayStep(reader.replay, snapshot) ELSE reader.replay
      /\ reader'.sparse = (reader.sparse \/ Sparse(row))
  BY <1>1
<1>4. Agreed'
  BY <1>2, <1>3, RowKeepsAgreed DEF ReadInv
<1>5. BuiltReadInv'
  BY <1>2, <1>3, <1>4, RowKeepsBuiltReadInv DEF ReadInv
<1>6. reader'.scan.verdict # "ready"
  <2>1. reader.scan.verdict # "ready"
    BY <1>2 DEF ReadInv, Answers
  <2>2. ScanVerdict(file.schema, reader.scan, row) # "ready"
    BY DEF ScanVerdict
  <2>. QED
    BY <1>3, <2>1, <2>2 DEF ScanRow, IInv, TypeOK, Scan
<1>7. reader'.replay.prev # None => Valued'
  <2>1. CASE running
    <3>1. last'.snapshot = snapshot /\ snapshot.ts = row.ts
      BY <1>1, <2>1 DEF SnapshotOf
    <3>2. row.ts # None
      BY RowRead DEF Row, Time, None
    <3>3. NoSnapshot.ts = None
      BY DEF NoSnapshot
    <3>. QED
      BY <3>1, <3>2, <3>3 DEF Valued
  <2>2. CASE ~running
    <3>1. reader'.replay.prev = reader.replay.prev
      BY <1>3, <2>2 DEF ReplayStep, IInv, TypeOK, Replay
    <3>2. last' = last
      BY <1>1, <2>2
    <3>. QED
      BY <3>1, <3>2 DEF ReadInv, Valued
  <2>. QED
    BY <2>1, <2>2
<1>. QED
  BY <1>2, <1>4, <1>5, <1>6, <1>7 DEF ReadInv, ReadyPanelReplays

(* A file that is not opened is rejected like one without a schema.        *)
LEMMA NothingRead ==
  ASSUME reader = NoReader, phase \notin {"read", "200", "500"},
         phase = "400" => builder = "none", reader.replay.prev # None => Valued
  PROVE  ReadInv
<1>1. /\ NoReader.scan.verdict = "PANEL_IDENTITY_INVALID" /\ NoReader.sparse = FALSE
  BY DEF NoReader, ScanStart, HeaderRejected
<1>. QED
  BY <1>1 DEF ReadInv, Agreed, BuiltReadInv, ReadyPanelReplays

LEMMA OpenKeepsReadInv ==
  ASSUME IInv, FileInv, ReadInv, NEW panel, Open(panel),
         builder # "none" => panel = "present"
  PROVE  ReadInv'
<1>1. /\ phase = "open" /\ reader = NoReader /\ last = NoLast
      /\ UNCHANGED <<builder, file, request, last>>
  BY DEF Open, IInv, Unopened
<1>2. builder # "none" =>
        /\ file.schema = builder /\ builder \in {"canonical", "legacy"}
        /\ ~HeaderRejected(file.schema, request)
        /\ Resolved(request, panel) = "panel"
  <2>1. builder # "none" => /\ request = BuiltRequest /\ file.schema = builder
                           /\ builder \in {"canonical", "legacy"}
    BY <1>1 DEF FileInv, Walks, IInv, TypeOK
  <2>2. Resolved(BuiltRequest, "present") = "panel"
    BY DEF Resolved, BuiltRequest
  <2>3. /\ ~HeaderRejected("canonical", BuiltRequest)
        /\ ~HeaderRejected("legacy", BuiltRequest)
    BY DEF HeaderRejected, BuiltRequest
  <2>. QED
    BY <2>1, <2>2, <2>3
<1>3. NoReader.replay = ReplayStart /\ ReplayStart.prev = None /\ ReplayStart.status = "running"
  BY DEF NoReader, ReplayStart
<1>4. CASE Resolved(request, panel) \in {"panel", "scenario"}
  <2>1. /\ phase' = "read"
        /\ reader' = [NoReader EXCEPT !.scan = ScanStart(file.schema, request),
                                      !.load = LoadStart(file.schema, request)]
    BY <1>4 DEF Open
  <2>2. /\ reader'.scan = ScanStart(file.schema, request)
        /\ reader'.load = LoadStart(file.schema, request)
        /\ reader'.replay = ReplayStart /\ reader'.sparse = FALSE
    BY <1>3, <2>1 DEF NoReader
  <2>3. /\ reader'.scan.verdict = IF HeaderRejected(file.schema, request)
                                  THEN "PANEL_IDENTITY_INVALID" ELSE "reading"
        /\ reader'.scan.prev = None /\ reader'.scan.rows = 0
        /\ reader'.scan.closed = FALSE /\ reader'.scan.replayable = FALSE
    BY <2>2 DEF ScanStart
  <2>4. /\ reader'.load.status = IF file.schema # "scenario" /\ HeaderRejected(file.schema, request)
                                 THEN "value_error" ELSE "reading"
        /\ reader'.load.prev = None /\ reader'.load.close = None
    BY <2>2 DEF LoadStart
  <2>5. Agreed'
    BY <1>1, <1>3, <2>2, <2>3, <2>4 DEF Agreed
  <2>6. BuiltReadInv'
    BY <1>1, <1>2, <2>2, <2>3, <2>4 DEF BuiltReadInv
  <2>. QED
    BY <1>3, <2>1, <2>2, <2>3, <2>5, <2>6 DEF ReadInv, ReadyPanelReplays
<1>5. CASE Resolved(request, panel) \notin {"panel", "scenario"}
  <2>1. phase' = Resolved(request, panel) /\ reader' = NoReader
    BY <1>1, <1>5 DEF Open
  <2>2. Resolved(request, panel) \in {"panel", "scenario", "404", "503", "400"}
    BY DEF Resolved
  <2>3. builder = "none"
    BY <1>2, <1>5
  <2>4. ReadInv'
    <3>1. reader'.replay.prev = None
      BY <1>3, <2>1
    <3>2. NoReader.scan.verdict = "PANEL_IDENTITY_INVALID" /\ NoReader.sparse = FALSE
      BY DEF NoReader, ScanStart, HeaderRejected
    <3>. QED
      BY <1>1, <1>5, <2>1, <2>2, <2>3, <3>1, <3>2
      DEF ReadInv, Agreed, BuiltReadInv, ReadyPanelReplays
  <2>. QED
    BY <2>4
<1>. QED
  BY <1>4, <1>5

(* What the scan says of a panel that a builder wrote when it has read it. *)
LEMMA BuiltPanelEnds ==
  ASSUME IInv, FileInv, ReadInv, phase = "read", builder # "none", Unread = {},
         Cardinality(file.rows) >= 2
  PROVE  ScanEnd(file.schema, reader.scan) = "ready"
<1>. DEFINE scan == reader.scan
<1>1. /\ file.schema = builder /\ builder \in {"canonical", "legacy"}
      /\ scan.verdict = "reading" /\ scan.rows \in 0..2
      /\ scan.rows # 0 => scan.replayable
      /\ scan.rows = 1 => \A r \in file.rows : r.ts <= reader.load.prev => r.ts = reader.load.prev
  BY DEF FileInv, Walks, ReadInv, BuiltReadInv, IInv, TypeOK, Scan
<1>2. reader.load.prev = scan.prev /\ (scan.rows = 0 <=> scan.prev = None)
  BY <1>1 DEF ReadInv, Agreed
<1>3. scan.rows # 0
  <2>. SUFFICES ASSUME scan.rows = 0
                PROVE  FALSE
    OBVIOUS
  <2>1. file.rows = {}
    BY <1>2 DEF Unread
  <2>. QED
    BY <2>1, FS_EmptySet
<1>4. scan.rows # 1
  <2>. SUFFICES ASSUME scan.rows = 1
                PROVE  FALSE
    OBVIOUS
  <2>1. \A r \in file.rows : r.ts = reader.load.prev
    <3>. SUFFICES ASSUME NEW r \in file.rows
                  PROVE  r.ts <= reader.load.prev
      BY <1>1
    <3>1. r.ts \in Nat /\ reader.load.prev \in Nat \cup {None}
      BY DEF IInv, TypeOK, Row, Load, Time
    <3>2. reader.load.prev # None /\ ~(r.ts > reader.load.prev)
      BY <1>2 DEF Unread
    <3>. QED
      BY <3>1, <3>2
  <2>2. PICK r \in file.rows : TRUE
    BY FS_EmptySet
  <2>3. \A q \in file.rows : q = r
    <3>1. \A q \in file.rows : q.ts = r.ts
      BY <2>1, <2>2
    <3>. QED
      BY <2>2, <3>1 DEF IInv, BuiltFile
  <2>4. file.rows = {r}
    BY <2>2, <2>3
  <2>. QED
    <3>1. Cardinality({r}) = 1
      BY FS_Singleton
    <3>. QED
      BY <2>4, <3>1
<1>. QED
  BY <1>1, <1>3, <1>4 DEF ScanEnd

LEMMA EndOfFileKeepsReadInv == ASSUME IInv, FileInv, ReadInv, EndOfFile PROVE ReadInv'
<1>. DEFINE scan == reader.scan
<1>1. /\ phase = "read" /\ phase' = Answer(reader.load, reader.replay)
      /\ builder = "none" \/ Unread = {}
      /\ UNCHANGED <<builder, file, last>>
      /\ reader' = [reader EXCEPT !.scan.verdict = ScanEnd(file.schema, scan)]
  BY DEF EndOfFile
<1>2. /\ reader'.scan.verdict = ScanEnd(file.schema, scan)
      /\ reader'.sparse = reader.sparse /\ reader'.replay = reader.replay
  BY <1>1 DEF IInv, TypeOK, Scan
<1>3. reader'.scan.verdict # "reading"
  BY <1>2 DEF ScanEnd
<1>4. phase' \in {"200", "400", "500"}
  BY <1>1 DEF Answer
<1>5. ASSUME file.schema # "scenario", reader'.scan.verdict = "ready", ~reader.sparse
      PROVE  phase' = "200" /\ Valued
  <2>1. scan.verdict # "ready"
    BY <1>1 DEF ReadInv, Answers
  <2>2. scan.verdict = "reading" /\ scan.replayable
    BY <1>2, <1>5, <2>1 DEF ScanEnd
  <2>3. /\ reader.load.status = "reading" /\ reader.replay.status = "running"
        /\ reader.replay.prev # None
    BY <1>5, <2>2 DEF ReadInv, Agreed
  <2>. QED
    BY <1>1, <2>3 DEF Answer, ReadInv
<1>6. ASSUME builder # "none"
      PROVE  /\ ~reader.sparse
             /\ Cardinality(file.rows) >= 2 => reader'.scan.verdict = "ready"
  BY <1>1, <1>2, <1>6, BuiltPanelEnds DEF ReadInv, BuiltReadInv
<1>7. ReadyPanelReplays'
  BY <1>1, <1>2, <1>5, <1>6 DEF ReadyPanelReplays, Valued
<1>8. reader'.replay.prev # None => Valued'
  BY <1>1, <1>2 DEF ReadInv, Valued
<1>9. Agreed' /\ BuiltReadInv'
  BY <1>1, <1>2, <1>3, <1>4, <1>6 DEF Agreed, BuiltReadInv
<1>. QED
  BY <1>4, <1>7, <1>8, <1>9 DEF ReadInv, Answers

LEMMA NextKeepsReadInv == ASSUME IInv, FileInv, ReadInv, [Next]_vars PROVE ReadInv'
<1>1. CASE NewBar \/ WalkBack \/ WalkForward \/ RateLimited \/ RequestFails \/ WritePanel
  <2>1. phase \in Walks \cup {"write"} /\ UNCHANGED <<reader, last>>
    BY <1>1 DEF NewBar, WalkBack, WalkForward, RateLimited, RequestFails, WritePanel, Walks
  <2>2. phase' \in Walks \cup {"write", "failed", "open"}
    BY <1>1, WalkBackTyped, WalkForwardTyped
    DEF NewBar, RateLimited, RequestFails, WritePanel, Walks, IInv
  <2>3. reader = NoReader
    BY <2>1 DEF IInv, Unopened, Walks
  <2>4. reader' = NoReader /\ phase' \notin {"read", "200", "500", "400"}
    BY <2>1, <2>2, <2>3 DEF Walks
  <2>5. NoReader.scan.verdict = "PANEL_IDENTITY_INVALID" /\ NoReader.sparse = FALSE
    BY DEF NoReader, ScanStart, HeaderRejected
  <2>6. reader'.replay.prev = None
    BY <2>4 DEF NoReader, ReplayStart
  <2>. QED
    BY <2>4, <2>5, <2>6 DEF ReadInv, Agreed, BuiltReadInv, ReadyPanelReplays
<1>2. CASE OpenPresent \/ OpenAbsent \/ OpenUnconfigured
  BY <1>2, OpenKeepsReadInv DEF OpenPresent, OpenAbsent, OpenUnconfigured
<1>3. CASE ReadRow
  BY <1>3, ReadRowKeepsReadInv
<1>4. CASE EndOfFile
  BY <1>4, EndOfFileKeepsReadInv
<1>5. CASE UNCHANGED vars
  BY <1>5 DEF vars, ReadInv, Agreed, BuiltReadInv, ReadyPanelReplays, Valued
<1>. QED
  BY <1>1, <1>2, <1>3, <1>4, <1>5 DEF Next

LEMMA InitReadInv == ASSUME Init PROVE ReadInv
<1>1. reader = NoReader /\ phase \in {"token", "open"}
  BY DEF Init
<1>2. NoReader.replay.prev = None
  BY DEF NoReader, ReplayStart
<1>. QED
  BY <1>1, <1>2, NothingRead

(* A panel that the readiness scan of GET /api/assets accepts is loaded    *)
(* and replayed to a non-empty answer, although scan, loader and replay    *)
(* check the file separately; and what a builder wrote is accepted.        *)
THEOREM ScanAgreesWithReplay == Spec => []ReadyPanelReplays
<1>1. Init => WalkInv /\ FileInv /\ ReadInv
  BY InitWalkInv, InitFileInv, InitReadInv
<1>2. IInv /\ WalkInv /\ FileInv /\ ReadInv /\ [Next]_vars => (WalkInv /\ FileInv /\ ReadInv)'
  BY NextKeepsWalkInv, NextKeepsFileInv, NextKeepsReadInv DEF IInv
<1>3. ReadInv => ReadyPanelReplays
  BY DEF ReadInv
<1>. QED
  BY <1>1, <1>2, <1>3, PipelineInvariant, PTL DEF Spec
=============================================================================
