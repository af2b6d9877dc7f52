---------------------------- MODULE PublisherProofs ----------------------------
(***************************************************************************)
(* What publish() may rely on: that what it reports as published is on     *)
(* record, whatever lags, fails, crashes or races; and, for calls that     *)
(* share the schedulers' lock and an RPC that answers, that a failure      *)
(* wrote nothing, a receipt tells its own publication time, and nothing is *)
(* attested twice.                                                         *)
(***************************************************************************)
EXTENDS Publisher, WellFoundedInduction, TLAPS

-----------------------------------------------------------------------------
(* The invariant.                                                          *)

(* What a node shows for a pair is what a successful transaction wrote.    *)
Wrote(r, p, attestation) ==
  /\ r.ok /\ PairOf(r.tx.result) = p
  /\ attestation.quote = r.tx.result.input.quote
  /\ attestation.evidenceState = r.tx.result.input.evidenceState
  /\ attestation.observedAt = r.tx.result.input.observedAt
  /\ attestation.validUntil = r.tx.result.input.validUntil
  /\ attestation.publishedAt = r.at

ViewOK(view) ==
  /\ view.nonce \in 0..(MaxNonce + 1)
  /\ \A p \in Chain!Pair :
       /\ view.latest[p].publishedAt \in Nat
       /\ view.hasAttestation[p] => \E r \in receipts : Wrote(r, p, view.latest[p])

(* The pair of the result stands at its observation or at a later one.     *)
Standing(result) ==
  /\ Existing(Head, result)
  /\ Latest(Head, result).observedAt >= result.input.observedAt

OnRecord(result) == \E r \in receipts : r.ok /\ SameEvidence(result, r.tx.result)

ChainOK ==
  /\ now \in Nat /\ nonce \in 0..(MaxNonce + 1)
  /\ mempool \subseteq Tx /\ \A t \in mempool : t.nonce <= MaxNonce
  /\ receipts \subseteq Receipt
  /\ hasAttestation \in [Chain!Pair -> BOOLEAN]
  /\ latest = [p \in Chain!Pair |-> latest[p]]
  /\ ViewOK(Head) /\ ViewOK(replica)
  /\ \A r \in receipts : r.ok => Standing(r.tx.result)

CallOK ==
  /\ lock \in Serialized \cup {NoCall}
  /\ call \in [Call -> Active \cup {Idle}]
  /\ answer \in [Call -> Answer \cup {Failed, NoAnswer}]
  /\ \A c \in Call :
       /\ call[c].pc = "lock" => c \in Serialized
       /\ call[c].pc \in {"readback", "state"} => OnRecord(call[c].result)
       /\ answer[c].status \in Success => OnRecord(answer[c].result)

IInv == ChainOK /\ CallOK

-----------------------------------------------------------------------------
(* Reads of the chain.                                                     *)

LEMMA PairTyped ==
  ASSUME NEW result \in Result
  PROVE  PairOf(result) \in Chain!Pair /\ result.input.observedAt \in Int
<1>1. result.asset \in AssetId /\ result.input \in Chain!Input /\ result.input.referenceId # NoId
  BY ResultAssumption
<1>2. result.input.referenceId \in ReferenceId /\ result.input.observedAt \in Int
  BY <1>1 DEF Chain!Input, Chain!Time
<1>. QED
  BY <1>1, <1>2 DEF PairOf, Chain!Pair

LEMMA ViewsAreOK == ASSUME ChainOK, NEW view \in View PROVE ViewOK(view)
BY DEF ChainOK, View

LEMMA PendingNonceTyped ==
  ASSUME ChainOK PROVE PendingNonce \in nonce..(MaxNonce + 1)
<1>. DEFINE Free == {n \in nonce..(MaxNonce + 1) : \A t \in mempool : t.nonce # n}
            R == OpToRel(<, Nat)
<1>1. nonce \in Nat /\ MaxNonce \in Nat /\ nonce <= MaxNonce + 1
  BY CallAssumption DEF ChainOK
<1>2. \A t \in mempool : t.nonce \in Nat /\ t.nonce <= MaxNonce
  BY CallAssumption DEF ChainOK, Tx
<1>3. Free \in SUBSET Nat /\ MaxNonce + 1 \in Free
  BY <1>1, <1>2
<1>4. IsWellFoundedOn(R, Nat)
  BY NatLessThanWellFounded
<1>5. \A x, y \in Nat : x < y => <<x, y>> \in R
  BY DEF OpToRel
<1>. HIDE DEF Free, R
<1>6. Free # {}
  BY <1>3
<1>7. PICK n \in Free : \A m \in Free : ~(<<m, n>> \in R)
  BY <1>3, <1>4, <1>6, WFMin
<1>8. n \in nonce..(MaxNonce + 1) /\ \A t \in mempool : t.nonce # n
  BY <1>7 DEF Free
<1>9. ASSUME NEW m \in nonce..(n - 1)
      PROVE  \E t \in mempool : t.nonce = m
  <2>1. m \in Nat /\ n \in Nat /\ m < n /\ m \in nonce..(MaxNonce + 1)
    BY <1>1, <1>8
  <2>2. m \notin Free
    BY <1>5, <1>7, <2>1
  <2>. QED
    BY <2>1, <2>2 DEF Free
<1>. QED
  BY <1>8, <1>9 DEF PendingNonce

LEMMA NonceReadTyped == ASSUME ChainOK, NEW n \in NonceRead PROVE n \in 0..(MaxNonce + 1)
<1>1. PICK view \in View, pending \in {PendingNonce} \cup {v.nonce : v \in View \ {Head}} :
        n = IF pending > view.nonce THEN pending ELSE view.nonce
  BY DEF NonceRead
<1>2. view.nonce \in 0..(MaxNonce + 1)
  BY ViewsAreOK DEF ViewOK
<1>3. pending \in 0..(MaxNonce + 1)
  <2>1. CASE pending = PendingNonce
    BY <2>1, PendingNonceTyped, CallAssumption DEF ChainOK
  <2>2. CASE pending \in {v.nonce : v \in View}
    BY <2>2, ViewsAreOK DEF ViewOK
  <2>. QED
    BY <1>1, <2>1, <2>2
<1>. QED
  BY <1>1, <1>2, <1>3

(* An attestation that Classify takes for the result is on record.         *)
LEMMA AlreadyOnRecord ==
  ASSUME ChainOK, NEW view \in View, NEW result \in Result,
         Classify(view, result) = "already_published"
  PROVE  \E r \in receipts : /\ r.ok /\ SameEvidence(result, r.tx.result)
                             /\ r.at = Latest(view, result).publishedAt
<1>1. /\ Existing(view, result)
      /\ result.input.observedAt = Latest(view, result).observedAt
      /\ result.input.quote.evidenceHash = Latest(view, result).quote.evidenceHash
      /\ Latest(view, result).validUntil >= result.input.validUntil
  BY DEF Classify
<1>2. PICK r \in receipts : Wrote(r, PairOf(result), Latest(view, result))
  BY <1>1, PairTyped, ViewsAreOK DEF ViewOK, Existing, Latest
<1>3. r.tx.result \in Result
  BY DEF ChainOK, Receipt, Tx
<1>4. result.input.validUntil \in Int /\ r.tx.result.input.validUntil \in Int
  BY <1>3, ResultAssumption DEF Chain!Input, Chain!Deadline
<1>5. r.tx.result.asset = result.asset
      /\ r.tx.result.input.referenceId = result.input.referenceId
  BY <1>2 DEF Wrote, PairOf
<1>6. SameEvidence(result, r.tx.result)
  BY <1>1, <1>2, <1>4, <1>5 DEF Wrote, SameEvidence
<1>. QED
  BY <1>2, <1>6 DEF Wrote

-----------------------------------------------------------------------------
(* Steps of a call.                                                        *)

Pc == {"lock", "preflight", "block", "existing", "nonce", "send", "wait", "readback", "state"}

LEMMA ActiveTyped ==
  ASSUME CallOK, NEW c \in Call, call[c].pc \in Pc
  PROVE  /\ call[c] \in Active
         /\ call[c].result \in Result /\ call[c].status \in Success
         /\ call[c].nonce \in -1..(MaxNonce + 1) /\ call[c].attempt \in 0..(MaxReadbacks - 1)
<1>1. call[c] \in Active \cup {Idle}
  BY DEF CallOK
<1>2. call[c] # Idle
  BY DEF Pc, Idle
<1>. QED
  BY <1>1, <1>2 DEF Active, Success

(* One call moves, and the others stay where they are.                     *)
LEMMA CallMoves ==
  ASSUME IInv, NEW c \in Call, NEW to \in Active \cup {Idle},
         NEW ans \in Answer \cup {Failed, NoAnswer},
         \A r \in receipts : r \in receipts',
         call' = [call EXCEPT ![c] = to], answer' = [answer EXCEPT ![c] = ans],
         lock' \in Serialized \cup {NoCall},
         to.pc = "lock" => c \in Serialized,
         to.pc \in {"readback", "state"} => OnRecord(to.result),
         ans.status \in Success => OnRecord(ans.result)
  PROVE  CallOK'
<1>1. /\ call' \in [Call -> Active \cup {Idle}]
      /\ answer' \in [Call -> Answer \cup {Failed, NoAnswer}]
  BY DEF IInv, CallOK
<1>2. ASSUME NEW d \in Call
      PROVE  /\ call'[d].pc = "lock" => d \in Serialized
             /\ call'[d].pc \in {"readback", "state"} => OnRecord(call'[d].result)
             /\ answer'[d].status \in Success => OnRecord(answer'[d].result)
  <2>1. CASE d = c
    <3>1. call'[d] = to /\ answer'[d] = ans
      BY <2>1 DEF IInv, CallOK
    <3>. QED
      BY <2>1, <3>1
  <2>2. CASE d # c
    <3>1. call'[d] = call[d] /\ answer'[d] = answer[d]
      BY <2>2 DEF IInv, CallOK
    <3>. QED
      BY <3>1 DEF IInv, CallOK
  <2>. QED
    BY <2>1, <2>2
<1>3. \A result : OnRecord(result) =>
        \E r \in receipts' : r.ok /\ SameEvidence(result, r.tx.result)
  BY DEF OnRecord
<1>4. ASSUME NEW d \in Call
      PROVE  /\ call'[d].pc \in {"readback", "state"} =>
                  \E r \in receipts' : r.ok /\ SameEvidence(call'[d].result, r.tx.result)
             /\ answer'[d].status \in Success =>
                  \E r \in receipts' : r.ok /\ SameEvidence(answer'[d].result, r.tx.result)
  BY <1>2, <1>3
<1>. QED
  BY <1>1, <1>2, <1>4 DEF CallOK, OnRecord, SameEvidence

LEMMA RaiseKeeps ==
  ASSUME IInv, NEW c \in Call, Raise(c), \A r \in receipts : r \in receipts'
  PROVE  CallOK'
<1>1. call' = [call EXCEPT ![c] = Idle] /\ answer' = [answer EXCEPT ![c] = Failed]
  BY DEF Raise
<1>2. lock' \in Serialized \cup {NoCall}
  BY DEF Raise, Unlocked, IInv, CallOK
<1>3. Idle.pc = "idle" /\ Failed.status = "failed"
  BY DEF Idle, Failed
<1>. QED
  BY <1>1, <1>2, <1>3, CallMoves DEF Success

(* On to a step that needs no record.                                      *)
LEMMA GotoKeeps ==
  ASSUME IInv, NEW c \in Call, call[c].pc \in Pc, NEW pc \in Pc, Goto(c, pc),
         \A r \in receipts : r \in receipts', UNCHANGED answer,
         lock' \in Serialized \cup {NoCall}, pc # "lock",
         pc \in {"readback", "state"} => OnRecord(call[c].result)
  PROVE  CallOK'
<1>. DEFINE to == [call[c] EXCEPT !.pc = pc]
<1>1. call[c] \in Active
  BY ActiveTyped DEF IInv
<1>2. /\ to \in Active /\ to.pc = pc /\ to.result = call[c].result
  BY <1>1 DEF Active, Pc
<1>3. call' = [call EXCEPT ![c] = to]
  BY DEF Goto
<1>4. /\ answer' = [answer EXCEPT ![c] = answer[c]]
      /\ answer[c] \in Answer \cup {Failed, NoAnswer}
      /\ answer[c].status \in Success => OnRecord(answer[c].result)
  BY DEF IInv, CallOK
<1>. HIDE DEF to
<1>. QED
  BY <1>2, <1>3, <1>4, CallMoves

LEMMA BeginKeeps ==
  ASSUME IInv, NEW c \in Call, NEW result \in Result, Begin(c, result) PROVE CallOK'
<1>. DEFINE to == [pc |-> IF c \in Serialized THEN "lock" ELSE "preflight", result |-> result,
                   status |-> "published", nonce |-> -1, attempt |-> 0]
<1>1. to \in Active
  BY CallAssumption DEF Active
<1>2. call' = [call EXCEPT ![c] = to] /\ answer' = [answer EXCEPT ![c] = NoAnswer]
  BY DEF Begin
<1>3. UNCHANGED receipts /\ lock' = lock /\ NoAnswer.status \notin Success
  BY DEF Begin, chainVars, NoAnswer, Success
<1>4. to.pc = "lock" => c \in Serialized
  OBVIOUS
<1>5. to.pc \notin {"readback", "state"}
  OBVIOUS
<1>. HIDE DEF to
<1>. QED
  BY <1>1, <1>2, <1>3, <1>4, <1>5, CallMoves DEF IInv, CallOK

LEMMA ReadExistingKeeps == ASSUME IInv, NEW c \in Call, ReadExisting(c) PROVE CallOK'
<1>1. UNCHANGED chainVars /\ receipts' = receipts /\ call[c].pc \in Pc
  BY DEF ReadExisting, chainVars, Pc
<1>2. PICK view \in View :
        LET decision == Classify(view, call[c].result) IN
        \/ decision = "stale" /\ Raise(c)
        \/ /\ decision = "already_published"
           /\ call' = [call EXCEPT ![c].pc = "state", ![c].status = "already_published"]
           /\ UNCHANGED <<lock, answer>>
        \/ decision = "publish" /\ Goto(c, "nonce") /\ UNCHANGED <<lock, answer>>
  BY DEF ReadExisting
<1>3. CASE Raise(c)
  BY <1>1, <1>3, RaiseKeeps
<1>4. CASE Goto(c, "nonce") /\ UNCHANGED <<lock, answer>>
  BY <1>1, <1>4, GotoKeeps DEF IInv, CallOK, Pc
<1>5. CASE /\ Classify(view, call[c].result) = "already_published"
           /\ call' = [call EXCEPT ![c].pc = "state", ![c].status = "already_published"]
           /\ UNCHANGED <<lock, answer>>
  <2>. DEFINE to == [call[c] EXCEPT !.pc = "state", !.status = "already_published"]
  <2>1. call[c] \in Active /\ call[c].result \in Result
    BY <1>1, ActiveTyped DEF IInv
  <2>2. to \in Active /\ to.pc = "state" /\ to.result = call[c].result
    BY <2>1 DEF Active
  <2>3. OnRecord(to.result)
    BY <1>5, <2>1, <2>2, AlreadyOnRecord DEF IInv, OnRecord
  <2>4. call' = [call EXCEPT ![c] = to]
    BY <1>5
  <2>5. /\ answer' = [answer EXCEPT ![c] = answer[c]]
        /\ answer[c] \in Answer \cup {Failed, NoAnswer}
        /\ answer[c].status \in Success => OnRecord(answer[c].result)
        /\ lock' \in Serialized \cup {NoCall}
    BY <1>5 DEF IInv, CallOK
  <2>. HIDE DEF to
  <2>. QED
    BY <1>1, <2>2, <2>3, <2>4, <2>5, CallMoves
<1>. QED
  BY <1>2, <1>3, <1>4, <1>5

LEMMA PrepareKeeps == ASSUME IInv, NEW c \in Call, Prepare(c) PROVE CallOK'
<1>1. UNCHANGED chainVars /\ receipts' = receipts /\ call[c].pc \in Pc
  BY DEF Prepare, chainVars, Pc
<1>2. PICK n \in NonceRead :
        \/ /\ call' = [call EXCEPT ![c].pc = "send", ![c].nonce = n]
           /\ UNCHANGED <<lock, answer>>
        \/ Raise(c)
  BY DEF Prepare
<1>3. CASE Raise(c)
  BY <1>1, <1>3, RaiseKeeps
<1>4. CASE /\ call' = [call EXCEPT ![c].pc = "send", ![c].nonce = n]
           /\ UNCHANGED <<lock, answer>>
  <2>. DEFINE to == [call[c] EXCEPT !.pc = "send", !.nonce = n]
  <2>1. call[c] \in Active /\ n \in -1..(MaxNonce + 1)
    BY <1>1, ActiveTyped, NonceReadTyped, CallAssumption DEF IInv
  <2>2. to \in Active /\ to.pc = "send"
    BY <2>1 DEF Active
  <2>3. call' = [call EXCEPT ![c] = to]
    BY <1>4
  <2>4. /\ answer' = [answer EXCEPT ![c] = answer[c]]
        /\ answer[c] \in Answer \cup {Failed, NoAnswer}
        /\ answer[c].status \in Success => OnRecord(answer[c].result)
        /\ lock' \in Serialized \cup {NoCall}
    BY <1>4 DEF IInv, CallOK
  <2>. HIDE DEF to
  <2>. QED
    BY <1>1, <2>2, <2>3, <2>4, CallMoves
<1>. QED
  BY <1>2, <1>3, <1>4

LEMMA WaitKeeps == ASSUME IInv, NEW c \in Call, Wait(c) PROVE CallOK'
<1>1. UNCHANGED chainVars /\ receipts' = receipts /\ call[c].pc \in Pc
  BY DEF Wait, chainVars, Pc
<1>2. PICK r \in receipts : r.tx = Tried(c) /\ Require(c, r.ok, "readback")
  BY DEF Wait
<1>3. CASE Raise(c)
  BY <1>1, <1>3, RaiseKeeps
<1>4. CASE r.ok /\ Goto(c, "readback") /\ UNCHANGED <<lock, answer>>
  <2>1. r.tx.result = call[c].result /\ call[c].result \in Result
    BY <1>1, <1>2, ActiveTyped DEF Tried, IInv
  <2>2. call[c].result.input.validUntil \in Int
    BY <2>1, ResultAssumption DEF Chain!Input, Chain!Deadline
  <2>3. OnRecord(call[c].result)
    BY <1>4, <2>1, <2>2 DEF OnRecord, SameEvidence
  <2>. QED
    BY <1>1, <1>4, <2>3, GotoKeeps DEF IInv, CallOK, Pc
<1>. QED
  BY <1>2, <1>3, <1>4 DEF Require

LEMMA ReadbackKeeps == ASSUME IInv, NEW c \in Call, Readback(c) PROVE CallOK'
<1>1. /\ UNCHANGED chainVars /\ receipts' = receipts /\ call[c].pc \in Pc
      /\ call[c].pc = "readback" /\ OnRecord(call[c].result)
  BY DEF Readback, chainVars, Pc, IInv, CallOK
<1>2. CASE Raise(c)
  BY <1>1, <1>2, RaiseKeeps
<1>3. CASE Goto(c, "state") /\ UNCHANGED <<lock, answer>>
  BY <1>1, <1>3, GotoKeeps DEF IInv, CallOK, Pc
<1>4. ASSUME NEW view \in View, ~LastReadback(c, view),
             call' = [call EXCEPT ![c].attempt = @ + 1], UNCHANGED <<lock, answer>>
      PROVE  CallOK'
  <2>. DEFINE to == [call[c] EXCEPT !.attempt = call[c].attempt + 1]
  <2>1. call[c] \in Active /\ call[c].attempt \in 0..(MaxReadbacks - 1)
    BY <1>1, ActiveTyped DEF IInv
  <2>2. call[c].attempt # MaxReadbacks - 1
    BY <1>4 DEF LastReadback
  <2>3. call[c].attempt + 1 \in 0..(MaxReadbacks - 1)
    BY <2>1, <2>2, CallAssumption
  <2>4. to \in Active /\ to.pc = "readback" /\ to.result = call[c].result
    BY <1>1, <2>1, <2>3 DEF Active
  <2>5. call' = [call EXCEPT ![c] = to]
    BY <1>4
  <2>6. /\ answer' = [answer EXCEPT ![c] = answer[c]]
        /\ answer[c] \in Answer \cup {Failed, NoAnswer}
        /\ answer[c].status \in Success => OnRecord(answer[c].result)
        /\ lock' \in Serialized \cup {NoCall}
    BY <1>4 DEF IInv, CallOK
  <2>. HIDE DEF to
  <2>. QED
    BY <1>1, <2>4, <2>5, <2>6, CallMoves
<1>. QED
  BY <1>2, <1>3, <1>4 DEF Readback

LEMMA ReturnKeeps == ASSUME IInv, NEW c \in Call, Return(c) PROVE CallOK'
<1>1. /\ UNCHANGED chainVars /\ receipts' = receipts /\ call[c].pc \in Pc
      /\ call[c].pc = "state" /\ OnRecord(call[c].result)
  BY DEF Return, chainVars, Pc, IInv, CallOK
<1>2. PICK view \in View :
        answer' = [answer EXCEPT ![c] =
          [status |-> call[c].status, result |-> call[c].result,
           publishedAt |-> Latest(view, call[c].result).publishedAt]]
  BY DEF Return
<1>. DEFINE ans == [status |-> call[c].status, result |-> call[c].result,
                    publishedAt |-> Latest(view, call[c].result).publishedAt]
<1>3. call[c].result \in Result /\ call[c].status \in Success
  BY <1>1, ActiveTyped DEF IInv
<1>4. Latest(view, call[c].result).publishedAt \in Nat
  BY <1>3, ViewsAreOK, PairTyped DEF IInv, ViewOK, Latest
<1>5. ans \in Answer /\ ans.result = call[c].result
  BY <1>3, <1>4 DEF Answer
<1>6. /\ call' = [call EXCEPT ![c] = Idle] /\ answer' = [answer EXCEPT ![c] = ans]
      /\ lock' \in Serialized \cup {NoCall}
  BY <1>2 DEF Return, Unlocked, IInv, CallOK
<1>7. Idle.pc = "idle"
  BY DEF Idle
<1>. HIDE DEF ans
<1>. QED
  BY <1>1, <1>5, <1>6, <1>7, CallMoves

(* A transaction enters the mempool.                                       *)
LEMMA EntersKeeps ==
  ASSUME IInv, NEW tx \in Tx, Enters(tx) PROVE ChainOK' /\ receipts' = receipts
<1>1. /\ UNCHANGED <<now, isPublisher, latest, hasAttestation, nonce, receipts, replica>>
      /\ mempool' \subseteq mempool \cup {tx} /\ tx.nonce <= MaxNonce
  BY DEF Enters, contractVars
<1>2. ViewOK(Head)' /\ ViewOK(replica)'
  BY <1>1 DEF IInv, ChainOK, ViewOK, Head, Wrote, PairOf
<1>3. \A r \in receipts' : r.ok => Standing(r.tx.result)'
  BY <1>1 DEF IInv, ChainOK, Standing, Existing, Latest, Head, PairOf
<1>. QED
  BY <1>1, <1>2, <1>3 DEF IInv, ChainOK

LEMMA SendKeeps ==
  ASSUME IInv, NEW c \in Call, Send(c) \/ SendLost(c) PROVE IInv'
<1>1. call[c].pc = "send" /\ call[c].pc \in Pc /\ Enters(Tried(c))
  BY DEF Send, SendLost, Pc
<1>2. Tried(c) \in Tx
  <2>1. call[c].result \in Result /\ call[c].nonce \in -1..(MaxNonce + 1)
    BY <1>1, ActiveTyped DEF IInv
  <2>2. call[c].nonce >= nonce /\ nonce \in 0..(MaxNonce + 1)
    BY <1>1 DEF Enters, Tried, IInv, ChainOK
  <2>3. call[c].nonce \in 0..(MaxNonce + 1)
    BY <2>1, <2>2, CallAssumption
  <2>. QED
    BY <2>1, <2>3 DEF Tried, Tx
<1>3. ChainOK' /\ receipts' = receipts
  BY <1>1, <1>2, EntersKeeps
<1>4. CASE Send(c)
  BY <1>1, <1>3, <1>4, GotoKeeps DEF Send, Pc, IInv, CallOK
<1>5. CASE SendLost(c)
  BY <1>3, <1>5, RaiseKeeps DEF SendLost, IInv
<1>. QED
  BY <1>3, <1>4, <1>5 DEF IInv

(* Every step of a call that only reads the chain.                         *)
LEMMA ReadingKeeps ==
  ASSUME IInv, NEW c \in Call,
         \/ \E result \in Result : Begin(c, result)
         \/ Acquire(c) \/ Preflight(c) \/ Block(c) \/ ReadExisting(c) \/ Prepare(c)
         \/ SendRejected(c) \/ Wait(c) \/ WaitTimesOut(c) \/ Readback(c) \/ Return(c)
         \/ RpcRaises(c)
  PROVE  IInv'
<1>1. UNCHANGED chainVars
  BY DEF Begin, Acquire, Preflight, Block, ReadExisting, Prepare, SendRejected, Wait,
         WaitTimesOut, Readback, Return, RpcRaises
<1>2. ChainOK'
  <2>1. UNCHANGED <<now, isPublisher, latest, hasAttestation, nonce, mempool, receipts, replica>>
    BY <1>1 DEF chainVars, contractVars
  <2>2. ViewOK(Head)' /\ ViewOK(replica)'
    BY <2>1 DEF IInv, ChainOK, ViewOK, Head, Wrote, PairOf
  <2>3. \A r \in receipts' : r.ok => Standing(r.tx.result)'
    BY <2>1 DEF IInv, ChainOK, Standing, Existing, Latest, Head, PairOf
  <2>. QED
    BY <2>1, <2>2, <2>3 DEF IInv, ChainOK
<1>3. receipts' = receipts
  BY <1>1 DEF chainVars
<1>4. CASE Acquire(c)
  <2>1. c \in Serialized
    BY <1>4 DEF Acquire, IInv, CallOK
  <2>. QED
    BY <1>2, <1>3, <1>4, <2>1, GotoKeeps DEF Acquire, Pc, IInv
<1>5. CASE Preflight(c) \/ Block(c)
  <2>1. call[c].pc \in {"preflight", "block"} /\ call[c].pc \in Pc
    BY <1>5 DEF Preflight, Block, Pc
  <2>2. \/ Raise(c)
        \/ \E pc \in {"block", "existing"} : Goto(c, pc) /\ UNCHANGED <<lock, answer>>
    BY <1>5 DEF Preflight, Block, Require
  <2>3. CASE Raise(c)
    BY <1>2, <1>3, <2>3, RaiseKeeps DEF IInv
  <2>4. CASE \E pc \in {"block", "existing"} : Goto(c, pc) /\ UNCHANGED <<lock, answer>>
    BY <1>2, <1>3, <2>1, <2>4, GotoKeeps DEF IInv, CallOK, Pc
  <2>. QED
    BY <2>2, <2>3, <2>4
<1>6. CASE SendRejected(c) \/ WaitTimesOut(c) \/ RpcRaises(c)
  BY <1>2, <1>3, <1>6, RaiseKeeps DEF SendRejected, WaitTimesOut, RpcRaises, IInv
<1>. QED
  BY <1>2, <1>4, <1>5, <1>6, BeginKeeps, ReadExistingKeeps, PrepareKeeps, WaitKeeps,
     ReadbackKeeps, ReturnKeeps DEF IInv

-----------------------------------------------------------------------------
(* Steps of the chain.                                                     *)

LEMMA CallsRest ==
  ASSUME IInv, UNCHANGED <<lock, call, answer>>, \A r \in receipts : r \in receipts'
  PROVE  CallOK'
BY DEF IInv, CallOK, OnRecord, SameEvidence

LEMMA NoWrite ==
  ASSUME IInv, UNCHANGED <<latest, hasAttestation, lock, call, answer>>,
         now' \in Nat, nonce' \in 0..(MaxNonce + 1), mempool' \subseteq mempool,
         receipts' \subseteq Receipt, \A r \in receipts : r \in receipts',
         \A r \in receipts' : r.ok => r \in receipts,
         replica' \in {replica, Head, Head'}
  PROVE  IInv'
<1>1. /\ Head'.latest = latest /\ Head'.hasAttestation = hasAttestation /\ Head'.nonce = nonce'
      /\ Head.latest = latest /\ Head.hasAttestation = hasAttestation /\ Head.nonce = nonce
  BY DEF Head
<1>2. ViewOK(Head)'
  BY <1>1 DEF IInv, ChainOK, ViewOK, Wrote, PairOf
<1>3. ViewOK(replica)'
  BY <1>1 DEF IInv, ChainOK, ViewOK, Wrote, PairOf
<1>4. \A r \in receipts' : r.ok => Standing(r.tx.result)'
  BY <1>1 DEF IInv, ChainOK, Standing, Existing, Latest, PairOf
<1>5. CallOK'
  BY CallsRest
<1>. QED
  BY <1>2, <1>3, <1>4, <1>5 DEF IInv, ChainOK

LEMMA MineKeeps == ASSUME IInv, Mine PROVE IInv'
<1>1. PICK t \in mempool :
        /\ t.nonce = nonce
        /\ nonce' = nonce + 1
        /\ mempool' = mempool \ {t}
        /\ \/ /\ Chain!PublishValidation(Signer, t.result.asset, t.result.input)
              /\ receipts' = receipts \cup {[tx |-> t, ok |-> TRUE, at |-> now]}
           \/ /\ ~Accepts(Head, t.result)
              /\ receipts' = receipts \cup {[tx |-> t, ok |-> FALSE, at |-> now]}
              /\ UNCHANGED contractVars
        /\ UNCHANGED <<replica, lock, call, answer>>
  BY DEF Mine
<1>2. /\ t \in Tx /\ t.nonce <= MaxNonce /\ t.result \in Result
      /\ nonce \in Nat /\ now \in Nat
  BY <1>1, CallAssumption DEF IInv, ChainOK, Tx
<1>3. nonce' \in 0..(MaxNonce + 1)
  BY <1>1, <1>2, CallAssumption
<1>4. CASE /\ receipts' = receipts \cup {[tx |-> t, ok |-> FALSE, at |-> now]}
           /\ UNCHANGED contractVars
  <2>. DEFINE new == [tx |-> t, ok |-> FALSE, at |-> now]
  <2>1. new \in Receipt /\ ~new.ok
    BY <1>2 DEF Receipt
  <2>. HIDE DEF new
  <2>2. /\ receipts' \subseteq Receipt /\ \A r \in receipts : r \in receipts'
        /\ \A r \in receipts' : r.ok => r \in receipts
    <3>1. receipts' = receipts \cup {new} /\ receipts \subseteq Receipt
      BY <1>4 DEF IInv, ChainOK, new
    <3>. QED
      BY <2>1, <3>1
  <2>3. UNCHANGED <<latest, hasAttestation, now>>
    BY <1>4 DEF contractVars
  <2>. QED
    BY <1>1, <1>2, <1>3, <2>2, <2>3, NoWrite
<1>5. CASE /\ Chain!PublishValidation(Signer, t.result.asset, t.result.input)
           /\ receipts' = receipts \cup {[tx |-> t, ok |-> TRUE, at |-> now]}
  <2>. DEFINE own == PairOf(t.result)
              new == [tx |-> t, ok |-> TRUE, at |-> now]
              input == t.result.input
  <2>1. /\ hasAttestation[own] => input.observedAt >= latest[own].observedAt
        /\ latest' = [latest EXCEPT ![own] = Chain!Attested(input)]
        /\ hasAttestation' = [hasAttestation EXCEPT ![own] = TRUE]
        /\ now' = now
    BY <1>5 DEF Chain!PublishValidation, Chain!NotRollback, PairOf
  <2>2. own \in Chain!Pair /\ input.observedAt \in Int
    BY <1>2, PairTyped
  <2>3. /\ latest'[own] = Chain!Attested(input) /\ hasAttestation'[own] = TRUE
        /\ \A p \in Chain!Pair \ {own} :
             latest'[p] = latest[p] /\ hasAttestation'[p] = hasAttestation[p]
        /\ hasAttestation' \in [Chain!Pair -> BOOLEAN]
        /\ latest' = [p \in Chain!Pair |-> latest'[p]]
    BY <2>1, <2>2 DEF IInv, ChainOK
  <2>4. /\ new \in Receipt /\ new \in receipts' /\ receipts' \subseteq Receipt
        /\ \A r \in receipts : r \in receipts'
        /\ \A r \in receipts' : r = new \/ r \in receipts
        /\ new.ok /\ new.tx = t /\ new.at = now
    <3>1. new \in Receipt /\ new.ok /\ new.tx = t /\ new.at = now
      BY <1>2 DEF Receipt
    <3>. HIDE DEF new
    <3>2. receipts' = receipts \cup {new} /\ receipts \subseteq Receipt
      BY <1>5 DEF IInv, ChainOK, new
    <3>. QED
      BY <3>1, <3>2
  <2>5. Wrote(new, own, latest'[own])
    BY <2>3, <2>4 DEF Wrote, Chain!Attested
  <2>6. latest'[own].publishedAt \in Nat /\ latest'[own].observedAt = input.observedAt
    BY <1>2, <2>3 DEF Chain!Attested
  <2>. HIDE DEF own, new
  <2>7. /\ Head'.latest = latest' /\ Head'.hasAttestation = hasAttestation'
        /\ Head'.nonce = nonce'
        /\ Head.latest = latest /\ Head.hasAttestation = hasAttestation
    BY DEF Head
  <2>8. \A p \in Chain!Pair :
          /\ latest'[p].publishedAt \in Nat
          /\ hasAttestation'[p] => \E r \in receipts' : Wrote(r, p, latest'[p])
    <3>. TAKE p \in Chain!Pair
    <3>1. CASE p = own
      BY <2>4, <2>5, <2>6, <3>1
    <3>2. CASE p # own
      BY <2>3, <2>4, <2>7, <3>2 DEF IInv, ChainOK, ViewOK
    <3>. QED
      BY <3>1, <3>2
  <2>9. ViewOK(Head)'
    BY <1>3, <2>7, <2>8 DEF ViewOK, Wrote, PairOf
  <2>10. ViewOK(replica)'
    BY <1>1, <2>4 DEF IInv, ChainOK, ViewOK, Wrote, PairOf
  <2>11. ASSUME NEW r \in receipts', r.ok
         PROVE  /\ hasAttestation'[PairOf(r.tx.result)]
                /\ latest'[PairOf(r.tx.result)].observedAt >= r.tx.result.input.observedAt
    <3>1. r.tx.result \in Result /\ PairOf(r.tx.result) \in Chain!Pair
          /\ r.tx.result.input.observedAt \in Int
      BY <2>4, PairTyped DEF Receipt, Tx
    <3>2. CASE r = new
      BY <2>2, <2>3, <2>4, <2>6, <3>2 DEF own
    <3>3. CASE r \in receipts
      <4>1. /\ hasAttestation[PairOf(r.tx.result)]
            /\ latest[PairOf(r.tx.result)].observedAt >= r.tx.result.input.observedAt
        BY <2>7, <2>11, <3>3 DEF IInv, ChainOK, Standing, Existing, Latest
      <4>2. CASE PairOf(r.tx.result) # own
        BY <2>3, <3>1, <4>1, <4>2
      <4>3. CASE PairOf(r.tx.result) = own
        <5>1. latest[own].observedAt \in Int
          <6>1. PICK q \in receipts : Wrote(q, own, latest[own])
            BY <2>2, <2>7, <4>1, <4>3 DEF IInv, ChainOK, ViewOK
          <6>2. q.tx.result \in Result
            BY DEF IInv, ChainOK, Receipt, Tx
          <6>. QED
            BY <6>1, <6>2, PairTyped DEF Wrote
        <5>. QED
          BY <2>1, <2>2, <2>3, <2>6, <3>1, <4>1, <4>3, <5>1
      <4>. QED
        BY <4>2, <4>3
    <3>. QED
      BY <2>4, <3>2, <3>3
  <2>12. \A r \in receipts' : r.ok => Standing(r.tx.result)'
    BY <2>7, <2>11 DEF Standing, Existing, Latest, PairOf
  <2>13. CallOK'
    BY <1>1, <2>4, CallsRest
  <2>. QED
    BY <1>1, <1>2, <1>3, <2>1, <2>3, <2>4, <2>9, <2>10, <2>12, <2>13 DEF IInv, ChainOK
<1>. QED
  BY <1>1, <1>4, <1>5

LEMMA OtherChainStepsKeep ==
  ASSUME IInv, Authorize \/ NextBlock \/ Sync \/ Drop PROVE IInv'
<1>1. /\ UNCHANGED <<latest, hasAttestation, nonce, receipts, lock, call, answer>>
      /\ mempool' \subseteq mempool /\ replica' \in {replica, Head}
      /\ now' \in {now, now + 1}
  BY DEF Authorize, NextBlock, Sync, Drop, contractVars, Chain!SetPublisher, Chain!NextBlock,
         Chain!guardVars, Chain!registryVars
<1>2. now' \in Nat /\ nonce' \in 0..(MaxNonce + 1) /\ receipts' \subseteq Receipt
  BY <1>1 DEF IInv, ChainOK
<1>. QED
  BY <1>1, <1>2, NoWrite

LEMMA CrashKeeps == ASSUME IInv, Crash PROVE IInv'
<1>1. /\ UNCHANGED <<now, isPublisher, latest, hasAttestation, nonce, mempool, receipts, replica>>
      /\ call' = [c \in Call |-> Idle] /\ answer' = [c \in Call |-> NoAnswer] /\ lock' = NoCall
  BY DEF Crash, chainVars, contractVars
<1>2. ViewOK(Head)' /\ ViewOK(replica)'
  BY <1>1 DEF IInv, ChainOK, ViewOK, Head, Wrote, PairOf
<1>3. \A r \in receipts' : r.ok => Standing(r.tx.result)'
  BY <1>1 DEF IInv, ChainOK, Standing, Existing, Latest, Head, PairOf
<1>4. CallOK'
  BY <1>1 DEF CallOK, Idle, NoAnswer, Success
<1>. QED
  BY <1>1, <1>2, <1>3, <1>4 DEF IInv, ChainOK

LEMMA NextKeepsIInv == ASSUME IInv, [Next]_vars PROVE IInv'
<1>1. ASSUME NEW c \in Call,
             \/ \E result \in Result : Begin(c, result)
             \/ Acquire(c) \/ Step(c) \/ SendLost(c) \/ RpcRaises(c)
      PROVE  IInv'
  BY <1>1, ReadingKeeps, SendKeeps DEF Step
<1>2. CASE Mine \/ Authorize \/ NextBlock \/ Sync \/ Drop \/ Crash
  BY <1>2, MineKeeps, OtherChainStepsKeep, CrashKeeps
<1>3. CASE UNCHANGED vars
  <2>1. /\ UNCHANGED <<latest, hasAttestation, lock, call, answer, mempool, receipts, replica>>
        /\ UNCHANGED <<now, nonce>>
    BY <1>3 DEF vars, chainVars, contractVars
  <2>. QED
    BY <2>1, NoWrite DEF IInv, ChainOK
<1>. QED
  BY <1>1, <1>2, <1>3 DEF Next

LEMMA InitIInv == ASSUME Init PROVE IInv
<1>1. /\ now = 1 /\ latest = [p \in Chain!Pair |-> Chain!ZeroAttestation]
      /\ hasAttestation = [p \in Chain!Pair |-> FALSE]
      /\ nonce = 0 /\ mempool = {} /\ receipts = {} /\ replica = Head
  BY DEF Init, Chain!Init
<1>2. /\ Head.latest = latest /\ Head.hasAttestation = hasAttestation /\ Head.nonce = nonce
  BY DEF Head
<1>3. Chain!ZeroAttestation.publishedAt \in Nat
  BY DEF Chain!ZeroAttestation
<1>4. ViewOK(Head)
  BY <1>1, <1>2, <1>3, CallAssumption DEF ViewOK
<1>5. ChainOK
  BY <1>1, <1>4, CallAssumption DEF ChainOK
<1>6. CallOK
  BY DEF Init, CallOK, Idle, NoAnswer, Success
<1>. QED
  BY <1>5, <1>6 DEF IInv

(* Every variable keeps its type; the lock is only a worker's.             *)
THEOREM PublisherTypes == Spec => []TypeOK
<1>1. Init => IInv
  BY InitIInv
<1>2. IInv /\ [Next]_vars => IInv'
  BY NextKeepsIInv
<1>3. IInv => TypeOK
  BY DEF IInv, ChainOK, CallOK, TypeOK
<1>. QED
  BY <1>1, <1>2, <1>3, PTL DEF Spec

(* Whatever is reported as published is on record, and its pair never      *)
(* stands at an older observation afterwards.                              *)
THEOREM PublishedIsOnRecord == Spec => []SuccessIsOnRecord
<1>1. Init => IInv
  BY InitIInv
<1>2. IInv /\ [Next]_vars => IInv'
  BY NextKeepsIInv
<1>3. IInv => SuccessIsOnRecord
  <2>. SUFFICES ASSUME IInv, NEW c \in Call, answer[c].status \in Success
                PROVE  /\ \E r \in receipts : r.ok /\ SameEvidence(answer[c].result, r.tx.result)
                       /\ Standing(answer[c].result)
    BY DEF SuccessIsOnRecord, Standing
  <2>1. PICK r \in receipts : r.ok /\ SameEvidence(answer[c].result, r.tx.result)
    BY DEF IInv, CallOK, OnRecord
  <2>2. Standing(r.tx.result)
    BY <2>1 DEF IInv, ChainOK
  <2>3. PairOf(answer[c].result) = PairOf(r.tx.result)
        /\ answer[c].result.input.observedAt = r.tx.result.input.observedAt
    BY <2>1 DEF SameEvidence, PairOf
  <2>. QED
    BY <2>1, <2>2, <2>3 DEF Standing, Existing, Latest
<1>. QED
  BY <1>1, <1>2, <1>3, PTL DEF Spec

-----------------------------------------------------------------------------
(* The chain under the calls is ControlPlane's: what the calls, the miner, *)
(* the registry's owner and the faults do together is what transactions    *)
(* may do, so that what holds of the contracts holds here.                 *)

ChainProofs == INSTANCE ControlPlaneProofs
                 WITH Vault <- {}, VaultPair <- NoVaults, Policy <- {}

LEMMA StepIsOfChain == ASSUME IInv, [Next]_vars PROVE [Chain!Next]_Chain!vars
<1>1. CASE \E c \in Call :
             \/ \E result \in Result : Begin(c, result)
             \/ Acquire(c) \/ Step(c) \/ SendLost(c) \/ RpcRaises(c)
  <2>1. UNCHANGED contractVars
    BY <1>1 DEF Begin, Acquire, Step, Preflight, Block, ReadExisting, Prepare, Send,
       SendRejected, Wait, WaitTimesOut, Readback, Return, SendLost, RpcRaises, Enters, chainVars
  <2>. QED
    BY <2>1 DEF contractVars, Chain!vars
<1>2. CASE Mine
  <2>1. PICK t \in mempool :
          \/ Chain!PublishValidation(Signer, t.result.asset, t.result.input)
          \/ UNCHANGED contractVars
    BY <1>2 DEF Mine
  <2>2. t.result \in Result
    BY DEF IInv, ChainOK, Tx
  <2>3. Signer \in Account /\ t.result.asset \in AssetId /\ t.result.input \in Chain!Input
    BY <2>2, CallAssumption, ResultAssumption
  <2>. QED
    BY <2>1, <2>3 DEF Chain!Next, Chain!RegistryStep, Chain!vars, contractVars
<1>3. CASE Authorize
  <2>1. PICK authorized \in BOOLEAN : Chain!SetPublisher(Deployer, Signer, authorized)
    BY <1>3 DEF Authorize
  <2>. QED
    BY <2>1, CallAssumption, ChainAssumption DEF Chain!Next, Chain!RegistryStep
<1>4. CASE NextBlock
  BY <1>4 DEF NextBlock, Chain!Next
<1>5. CASE Sync \/ Drop \/ Crash \/ UNCHANGED vars
  BY <1>5 DEF Sync, Drop, Crash, vars, chainVars, contractVars, Chain!vars
<1>. QED
  BY <1>1, <1>2, <1>3, <1>4, <1>5 DEF Next

(* publish() implements the control plane: a transaction of its own making *)
(* is one that the registry's publisher may send, however the RPCs lag and *)
(* fail and whatever crashes.                                              *)
THEOREM CallsImplementChain == Spec => Chain!Spec
<1>1. Init => Chain!Init
  BY DEF Init
<1>2. IInv /\ [Next]_vars => [Chain!Next]_Chain!vars
  BY StepIsOfChain
<1>3. Init => IInv
  BY InitIInv
<1>4. IInv /\ [Next]_vars => IInv'
  BY NextKeepsIInv
<1>. QED
  BY <1>1, <1>2, <1>3, <1>4, PTL DEF Spec, Chain!Spec

(* ControlPlaneProofs speaks of the same chain.                            *)
LEMMA SameInit == Chain!Init <=> ChainProofs!Init
BY DEF Chain!Init, ChainProofs!Init, Chain!Pair, ChainProofs!Pair,
   Chain!PolicyOwner, ChainProofs!PolicyOwner,
   Chain!ZeroAttestation, ChainProofs!ZeroAttestation, Chain!NoQuote, ChainProofs!NoQuote,
   Chain!ZeroPolicy, ChainProofs!ZeroPolicy, Chain!NoExposure, ChainProofs!NoExposure

LEMMA SameNext == [Chain!Next]_Chain!vars <=> [ChainProofs!Next]_ChainProofs!vars
<1>1. Chain!NextBlock <=> ChainProofs!NextBlock
  BY DEF Chain!NextBlock, ChainProofs!NextBlock,
     Chain!registryVars, ChainProofs!registryVars, Chain!guardVars, ChainProofs!guardVars
<1>2. Chain!RegistryStep <=> ChainProofs!RegistryStep
  BY Zenon DEF Chain!RegistryStep, ChainProofs!RegistryStep,
     Chain!SetPublisher, ChainProofs!SetPublisher,
     Chain!PublishValidation, ChainProofs!PublishValidation,
     Chain!TransferOwnership, ChainProofs!TransferOwnership,
     Chain!RenounceOwnership, ChainProofs!RenounceOwnership,
     Chain!ValidInput, ChainProofs!ValidInput, Chain!NotRollback, ChainProofs!NotRollback,
     Chain!Attested, ChainProofs!Attested, Chain!Input, ChainProofs!Input,
     Chain!Time, ChainProofs!Time, Chain!Deadline, ChainProofs!Deadline,
     Chain!EvidenceState, ChainProofs!EvidenceState, Chain!guardVars, ChainProofs!guardVars
<1>3. /\ ~Chain!VaultStep /\ ~ChainProofs!VaultStep
      /\ ~Chain!GuardStep /\ ~ChainProofs!GuardStep
  BY DEF Chain!VaultStep, ChainProofs!VaultStep, Chain!GuardStep, ChainProofs!GuardStep
<1>. QED
  BY <1>1, <1>2, <1>3 DEF Chain!Next, ChainProofs!Next, Chain!vars, ChainProofs!vars

LEMMA SameChain == Chain!Spec => ChainProofs!Spec
BY SameNext, SameInit, PTL DEF Chain!Spec, ChainProofs!Spec

(* No call ever moves a pair back to an older observation or publication   *)
(* time, or makes it unpublished, whatever lags, fails, crashes or races.  *)
THEOREM CallsNeverRollBack == Spec => Chain!NoRollback
<1>1. [\A p \in ChainProofs!Pair :
         hasAttestation[p] =>
           /\ hasAttestation'[p]
           /\ latest'[p].observedAt >= latest[p].observedAt
           /\ latest'[p].publishedAt >= latest[p].publishedAt]_ChainProofs!vars
      => [\A p \in Chain!Pair :
            hasAttestation[p] =>
              /\ hasAttestation'[p]
              /\ latest'[p].observedAt >= latest[p].observedAt
              /\ latest'[p].publishedAt >= latest[p].publishedAt]_Chain!vars
  BY DEF Chain!Pair, ChainProofs!Pair, Chain!vars, ChainProofs!vars
<1>2. ChainProofs!NoRollback => Chain!NoRollback
  BY <1>1, PTL DEF Chain!NoRollback, ChainProofs!NoRollback
<1>3. ChainProofs!Spec => ChainProofs!NoRollback
  BY ChainAssumption, ChainProofs!NeverRollsBack DEF NoVaults
<1>. QED
  BY <1>2, <1>3, CallsImplementChain, SameChain, PTL

(* To the readers of the chain, the calls together are the register whose  *)
(* observations only move forward.                                         *)
THEOREM CallsImplementRegister == Spec => ReadersSeeRegister
<1>1. Chain!Newest = ChainProofs!Newest /\ Chain!Pair = ChainProofs!Pair
  BY DEF Chain!Newest, ChainProofs!Newest, Chain!Pair, ChainProofs!Pair
<1>2. ChainProofs!Register!Init => Chain!Register!Init
  BY <1>1 DEF ChainProofs!Register!Init, Chain!Register!Init
<1>3. [ChainProofs!Register!Next]_ChainProofs!Newest => [Chain!Register!Next]_Chain!Newest
  BY DEF Chain!Newest, ChainProofs!Newest, Chain!Pair, ChainProofs!Pair,
     ChainProofs!Register!Next, Chain!Register!Next,
     ChainProofs!Register!Advance, Chain!Register!Advance
<1>4. ChainProofs!ImplementsRegister => Chain!ImplementsRegister
  BY <1>2, <1>3, PTL DEF ChainProofs!ImplementsRegister, Chain!ImplementsRegister,
     ChainProofs!Register!Spec, Chain!Register!Spec
<1>5. ChainProofs!Spec => ChainProofs!ImplementsRegister
  BY ChainAssumption, ChainProofs!Implements DEF NoVaults
<1>. QED
  BY <1>4, <1>5, CallsImplementChain, SameChain, PTL DEF ReadersSeeRegister

-----------------------------------------------------------------------------
(* Calls that share the lock and whose RPCs answer, as the schedulers'     *)
(* workers on a working RPC: one at a time has anything under way.         *)

Serial == Serialized = Call /\ ~Lagging /\ ~Faults

(* The result is on record, and at is when its evidence was published.     *)
Told(result, at) == \E r \in receipts : r.ok /\ SameEvidence(result, r.tx.result) /\ r.at = at

(* What a call may rely on where it is.                                    *)
Fits(c, k) ==
  /\ k.pc \in {"lock", "preflight", "block", "existing", "nonce"} => k.nonce = -1
  /\ k.pc = "send" => k.nonce >= nonce
  /\ k.pc \in {"nonce", "send"} => Classify(Head, k.result) # "already_published"
  /\ k.pc = "wait" =>
       \A r \in receipts :
         r.ok /\ r.tx = [by |-> c, nonce |-> k.nonce, result |-> k.result] =>
           Matches(Head, k.result) /\ Latest(Head, k.result).publishedAt = r.at
  /\ k.pc = "readback" => Matches(Head, k.result)
  /\ k.pc \in {"readback", "state"} => Told(k.result, Latest(Head, k.result).publishedAt)

AnswerFits(ans) == ans.status \in Success => Told(ans.result, ans.publishedAt)

(* A transaction in the mempool is waited for, and is worth being mined.   *)
Pending(t) ==
  /\ call[t.by].pc = "wait" /\ t = Tried(t.by)
  /\ nonce <= t.nonce
  /\ Classify(Head, t.result) # "already_published"

TurnOK == \A c \in Call : call[c].pc \notin {"idle", "lock"} => lock = c

LedgerOK ==
  /\ \A t \in mempool : Pending(t)
  /\ \A r \in receipts : r.tx.nonce < nonce
  /\ \A q, r \in receipts : q.tx.nonce = r.tx.nonce => q = r
  /\ \A p \in Chain!Pair : ~hasAttestation[p] => latest[p].observedAt = 0

SerialOK ==
  /\ TurnOK /\ LedgerOK
  /\ \A c \in Call : Fits(c, call[c]) /\ AnswerFits(answer[c])

LEMMA OneView == ASSUME Serial, NEW view \in View PROVE view = Head
BY DEF Serial, View

(* What is seen of a pair depends on the registry only.                    *)
LEMMA SameRegistry ==
  ASSUME UNCHANGED <<latest, hasAttestation>>, NEW result
  PROVE  /\ Classify(Head, result)' = Classify(Head, result)
         /\ Classify(Head', result) = Classify(Head, result)
         /\ Latest(Head', result) = Latest(Head, result)
         /\ Matches(Head', result) <=> Matches(Head, result)
<1>1. Existing(Head', result) = Existing(Head, result)
      /\ Latest(Head', result) = Latest(Head, result)
  BY DEF Existing, Latest, Head, PairOf
<1>2. Classify(Head', result) = Classify(Head, result)
  BY <1>1 DEF Classify
<1>3. Matches(Head', result) <=> Matches(Head, result)
  BY <1>1 DEF Matches
<1>. QED
  BY <1>1, <1>2, <1>3

(* While a call holds the lock, the others wait for it, and nothing of     *)
(* theirs is in the mempool.                                               *)
LEMMA OthersRest ==
  ASSUME IInv, SerialOK, NEW c \in Call, call[c].pc \notin {"idle", "lock"}
  PROVE  /\ lock = c
         /\ \A d \in Call \ {c} : call[d].pc \in {"idle", "lock"}
         /\ \A t \in mempool : t.by = c /\ call[c].pc = "wait" /\ t = Tried(c)
<1>1. lock = c /\ \A d \in Call \ {c} : call[d].pc \in {"idle", "lock"}
  BY DEF SerialOK, TurnOK
<1>2. ASSUME NEW t \in mempool
      PROVE  t.by = c /\ call[c].pc = "wait" /\ t = Tried(c)
  <2>1. t.by \in Call /\ call[t.by].pc = "wait" /\ t = Tried(t.by)
    BY DEF IInv, ChainOK, Tx, SerialOK, LedgerOK, Pending
  <2>. QED
    BY <1>1, <2>1
<1>. QED
  BY <1>1, <1>2

LEMMA FitsStays ==
  ASSUME UNCHANGED <<latest, hasAttestation, nonce, receipts>>, NEW c, NEW k, Fits(c, k)
  PROVE  /\ k.pc \in {"lock", "preflight", "block", "existing", "nonce"} => k.nonce = -1
         /\ k.pc = "send" => k.nonce >= nonce'
         /\ k.pc \in {"nonce", "send"} => Classify(Head', k.result) # "already_published"
         /\ k.pc = "wait" =>
              \A r \in receipts' :
                r.ok /\ r.tx = [by |-> c, nonce |-> k.nonce, result |-> k.result] =>
                  Matches(Head', k.result) /\ Latest(Head', k.result).publishedAt = r.at
         /\ k.pc = "readback" => Matches(Head', k.result)
         /\ k.pc \in {"readback", "state"} =>
              \E r \in receipts' : /\ r.ok /\ SameEvidence(k.result, r.tx.result)
                                   /\ r.at = Latest(Head', k.result).publishedAt
<1>1. /\ Classify(Head', k.result) = Classify(Head, k.result)
      /\ Latest(Head', k.result) = Latest(Head, k.result)
      /\ Matches(Head', k.result) <=> Matches(Head, k.result)
  BY SameRegistry
<1>2. receipts' = receipts /\ nonce' = nonce
  OBVIOUS
<1>3. Told(k.result, Latest(Head, k.result).publishedAt) =>
        \E r \in receipts' : /\ r.ok /\ SameEvidence(k.result, r.tx.result)
                             /\ r.at = Latest(Head', k.result).publishedAt
  BY <1>1, <1>2 DEF Told
<1>. QED
  BY <1>1, <1>2, <1>3 DEF Fits

(* A call moves and leaves the chain as it is.                             *)
LEMMA QuietCall ==
  ASSUME IInv, SerialOK, NEW c \in Call, NEW to, NEW ans,
         UNCHANGED <<latest, hasAttestation, nonce, mempool, receipts>>,
         call' = [call EXCEPT ![c] = to], answer' = [answer EXCEPT ![c] = ans],
         Fits(c, to), AnswerFits(ans),
         to.pc \notin {"idle", "lock"} => lock' = c,
         \A d \in Call \ {c} : call[d].pc \notin {"idle", "lock"} => lock' = d,
         \A t \in mempool : t.by # c
  PROVE  SerialOK'
<1>1. /\ DOMAIN call = Call /\ DOMAIN answer = Call
      /\ call'[c] = to /\ answer'[c] = ans
      /\ \A d \in Call \ {c} : call'[d] = call[d] /\ answer'[d] = answer[d]
  BY DEF IInv, CallOK
<1>2. TurnOK'
  BY <1>1 DEF TurnOK
<1>3. LedgerOK'
  <2>1. ASSUME NEW t \in mempool
        PROVE  Pending(t)'
    <3>1. t.by \in Call /\ t.by # c
      BY DEF IInv, ChainOK, Tx
    <3>2. Pending(t)
      BY DEF SerialOK, LedgerOK
    <3>3. call'[t.by] = call[t.by]
      BY <1>1, <3>1
    <3>4. Classify(Head', t.result) = Classify(Head, t.result)
      BY SameRegistry
    <3>. QED
      BY <3>2, <3>3, <3>4 DEF Pending, Tried
  <2>. QED
    BY <2>1 DEF SerialOK, LedgerOK
<1>4. ASSUME NEW d \in Call
      PROVE  Fits(d, call[d])' /\ AnswerFits(answer[d])'
  <2>1. Fits(d, call'[d]) /\ AnswerFits(answer'[d])
    <3>1. CASE d = c
      BY <1>1, <3>1
    <3>2. CASE d # c
      BY <1>1, <3>2 DEF SerialOK
    <3>. QED
      BY <3>1, <3>2
  <2>2. Fits(d, call[d])'
    BY <2>1, FitsStays DEF Fits, Told
  <2>3. AnswerFits(answer[d])'
    BY <2>1 DEF AnswerFits, Told
  <2>. QED
    BY <2>2, <2>3
<1>. QED
  BY <1>2, <1>3, <1>4 DEF SerialOK

LEMMA QuietRaise ==
  ASSUME IInv, SerialOK, NEW c \in Call, call[c].pc \notin {"idle", "lock"}, Raise(c),
         UNCHANGED chainVars, \A t \in mempool : t.by # c
  PROVE  SerialOK'
<1>1. UNCHANGED <<latest, hasAttestation, nonce, mempool, receipts>>
  BY DEF chainVars, contractVars
<1>2. call' = [call EXCEPT ![c] = Idle] /\ answer' = [answer EXCEPT ![c] = Failed]
  BY DEF Raise
<1>3. Fits(c, Idle) /\ AnswerFits(Failed)
  BY DEF Fits, AnswerFits, Idle, Failed, Success
<1>4. Idle.pc = "idle" /\ \A d \in Call \ {c} : call[d].pc \in {"idle", "lock"}
  BY OthersRest DEF Idle
<1>. QED
  BY <1>1, <1>2, <1>3, <1>4, QuietCall

LEMMA QuietGoto ==
  ASSUME IInv, SerialOK, NEW c \in Call, call[c].pc \in Pc \ {"lock"}, NEW to,
         call' = [call EXCEPT ![c] = to], UNCHANGED <<lock, answer>>, UNCHANGED chainVars,
         Fits(c, to), \A t \in mempool : t.by # c
  PROVE  SerialOK'
<1>1. UNCHANGED <<latest, hasAttestation, nonce, mempool, receipts>>
  BY DEF chainVars, contractVars
<1>2. answer' = [answer EXCEPT ![c] = answer[c]] /\ AnswerFits(answer[c])
  BY DEF IInv, CallOK, SerialOK
<1>3. /\ lock' = c
      /\ \A d \in Call \ {c} : call[d].pc \in {"idle", "lock"}
  BY OthersRest DEF Pc
<1>. QED
  BY <1>1, <1>2, <1>3, QuietCall

(* Starting, and taking one's turn.                                        *)
LEMMA BeginSerial ==
  ASSUME Serial, IInv, SerialOK, NEW c \in Call,
         Acquire(c) \/ \E result \in Result : Begin(c, result)
  PROVE  SerialOK'
<1>1. UNCHANGED <<latest, hasAttestation, nonce, mempool, receipts>>
  BY DEF Acquire, Begin, chainVars, contractVars
<1>2. \A t \in mempool : t.by # c
  BY DEF Acquire, Begin, Idle, SerialOK, LedgerOK, Pending
<1>3. CASE Acquire(c)
  <2>. DEFINE to == [call[c] EXCEPT !.pc = "preflight"]
  <2>1. call[c] \in Active /\ call[c].nonce = -1
    BY <1>3, ActiveTyped DEF Acquire, Pc, IInv, SerialOK, Fits
  <2>2. to.pc = "preflight" /\ to.nonce = -1
    BY <2>1 DEF Active
  <2>3. Fits(c, to)
    BY <2>2 DEF Fits
  <2>4. call' = [call EXCEPT ![c] = to] /\ lock' = c
    BY <1>3 DEF Acquire, Goto
  <2>5. answer' = [answer EXCEPT ![c] = answer[c]] /\ AnswerFits(answer[c])
    BY <1>3 DEF Acquire, IInv, CallOK, SerialOK
  <2>6. \A d \in Call : call[d].pc \in {"idle", "lock"}
    BY <1>3, CallAssumption DEF Acquire, SerialOK, TurnOK
  <2>. HIDE DEF to
  <2>. QED
    BY <1>1, <1>2, <2>2, <2>3, <2>4, <2>5, <2>6, QuietCall
<1>4. ASSUME NEW result \in Result, Begin(c, result)
      PROVE  SerialOK'
  <2>. DEFINE to == [pc |-> "lock", result |-> result, status |-> "published",
                     nonce |-> -1, attempt |-> 0]
  <2>1. call' = [call EXCEPT ![c] = to] /\ answer' = [answer EXCEPT ![c] = NoAnswer]
        /\ lock' = lock
    BY <1>4 DEF Begin, Serial
  <2>2. Fits(c, to) /\ AnswerFits(NoAnswer) /\ to.pc = "lock"
    BY DEF Fits, AnswerFits, NoAnswer, Success
  <2>3. \A d \in Call \ {c} : call[d].pc \notin {"idle", "lock"} => lock' = d
    BY <2>1 DEF SerialOK, TurnOK
  <2>. HIDE DEF to
  <2>. QED
    BY <1>1, <1>2, <2>1, <2>2, <2>3, QuietCall
<1>. QED
  BY <1>3, <1>4

(* Up to the decision to publish.                                          *)
LEMMA DecideSerial ==
  ASSUME Serial, IInv, SerialOK, NEW c \in Call, Preflight(c) \/ Block(c) \/ ReadExisting(c)
  PROVE  SerialOK'
<1>1. /\ UNCHANGED chainVars
      /\ call[c].pc \in {"preflight", "block", "existing"} /\ call[c].pc \in Pc \ {"lock"}
  BY DEF Preflight, Block, ReadExisting, Pc
<1>2. \A t \in mempool : t.by # c
  BY <1>1, OthersRest
<1>3. call[c] \in Active /\ call[c].nonce = -1
  BY <1>1, ActiveTyped DEF IInv, SerialOK, Fits
<1>4. CASE Raise(c)
  BY <1>1, <1>2, <1>4, QuietRaise
<1>5. ASSUME NEW pc \in {"block", "existing"}, Goto(c, pc), UNCHANGED <<lock, answer>>
      PROVE  SerialOK'
  <2>. DEFINE to == [call[c] EXCEPT !.pc = pc]
  <2>1. to.pc = pc /\ to.nonce = -1
    BY <1>3 DEF Active
  <2>2. Fits(c, to) /\ call' = [call EXCEPT ![c] = to]
    BY <1>5, <2>1 DEF Fits, Goto
  <2>. HIDE DEF to
  <2>. QED
    BY <1>1, <1>2, <1>5, <2>2, QuietGoto
<1>6. CASE /\ Classify(Head, call[c].result) = "publish"
           /\ Goto(c, "nonce") /\ UNCHANGED <<lock, answer>>
  <2>. DEFINE to == [call[c] EXCEPT !.pc = "nonce"]
  <2>1. to.pc = "nonce" /\ to.nonce = -1 /\ to.result = call[c].result
    BY <1>3 DEF Active
  <2>2. Fits(c, to) /\ call' = [call EXCEPT ![c] = to]
    BY <1>6, <2>1 DEF Fits, Goto
  <2>. HIDE DEF to
  <2>. QED
    BY <1>1, <1>2, <1>6, <2>2, QuietGoto
<1>7. CASE /\ Classify(Head, call[c].result) = "already_published"
           /\ call' = [call EXCEPT ![c].pc = "state", ![c].status = "already_published"]
           /\ UNCHANGED <<lock, answer>>
  <2>. DEFINE to == [call[c] EXCEPT !.pc = "state", !.status = "already_published"]
  <2>1. to.pc = "state" /\ to.result = call[c].result
    BY <1>3 DEF Active
  <2>2. Head \in View /\ call[c].result \in Result
    BY <1>1, ActiveTyped DEF View, IInv
  <2>3. Told(to.result, Latest(Head, to.result).publishedAt)
    BY <1>7, <2>1, <2>2, AlreadyOnRecord DEF Told, IInv
  <2>4. Fits(c, to) /\ call' = [call EXCEPT ![c] = to]
    BY <1>7, <2>1, <2>3 DEF Fits
  <2>. HIDE DEF to
  <2>. QED
    BY <1>1, <1>2, <1>7, <2>4, QuietGoto
<1>8. CASE Preflight(c) \/ Block(c)
  BY <1>4, <1>5, <1>8 DEF Preflight, Block, Require
<1>9. CASE ReadExisting(c)
  <2>1. \/ Raise(c)
        \/ /\ Classify(Head, call[c].result) = "already_published"
           /\ call' = [call EXCEPT ![c].pc = "state", ![c].status = "already_published"]
           /\ UNCHANGED <<lock, answer>>
        \/ /\ Classify(Head, call[c].result) = "publish"
           /\ Goto(c, "nonce") /\ UNCHANGED <<lock, answer>>
    BY <1>9, OneView DEF ReadExisting
  <2>. QED
    BY <1>4, <1>6, <1>7, <2>1
<1>. QED
  BY <1>8, <1>9

LEMMA PrepareSerial ==
  ASSUME Serial, IInv, SerialOK, NEW c \in Call, Prepare(c) PROVE SerialOK'
<1>1. UNCHANGED chainVars /\ call[c].pc = "nonce" /\ call[c].pc \in Pc \ {"lock"}
  BY DEF Prepare, Pc
<1>2. \A t \in mempool : t.by # c
  BY <1>1, OthersRest
<1>3. call[c] \in Active /\ Classify(Head, call[c].result) # "already_published"
  BY <1>1, ActiveTyped DEF IInv, SerialOK, Fits
<1>4. CASE Raise(c)
  BY <1>1, <1>2, <1>4, QuietRaise
<1>5. ASSUME NEW n \in NonceRead, call' = [call EXCEPT ![c].pc = "send", ![c].nonce = n],
             UNCHANGED <<lock, answer>>
      PROVE  SerialOK'
  <2>. DEFINE to == [call[c] EXCEPT !.pc = "send", !.nonce = n]
  <2>1. n >= nonce
    <3>1. PICK view \in View, pending \in {PendingNonce} \cup {v.nonce : v \in View \ {Head}} :
            n = IF pending > view.nonce THEN pending ELSE view.nonce
      BY DEF NonceRead
    <3>2. view.nonce = nonce /\ pending = PendingNonce
      BY <3>1, OneView DEF Head
    <3>3. PendingNonce \in nonce..(MaxNonce + 1) /\ nonce \in Nat
      BY PendingNonceTyped DEF IInv, ChainOK
    <3>. QED
      BY <3>1, <3>2, <3>3
  <2>2. to.pc = "send" /\ to.nonce = n /\ to.result = call[c].result
    BY <1>3 DEF Active
  <2>3. Fits(c, to) /\ call' = [call EXCEPT ![c] = to]
    BY <1>3, <1>5, <2>1, <2>2 DEF Fits
  <2>. HIDE DEF to
  <2>. QED
    BY <1>1, <1>2, <1>5, <2>3, QuietGoto
<1>. QED
  BY <1>4, <1>5 DEF Prepare

(* The transaction that is sent is the only one.                           *)
LEMMA SendSerial ==
  ASSUME Serial, IInv, SerialOK, NEW c \in Call, Send(c) PROVE SerialOK'
<1>. DEFINE to == [call[c] EXCEPT !.pc = "wait"]
            tx == Tried(c)
<1>1. call[c].pc = "send" /\ call[c].pc \in Pc
  BY DEF Send, Pc
<1>2. call[c] \in Active /\ Classify(Head, call[c].result) # "already_published"
  BY <1>1, ActiveTyped DEF IInv, SerialOK, Fits
<1>3. mempool = {}
  BY <1>1, OthersRest
<1>4. /\ nonce <= call[c].nonce /\ mempool' = {tx}
      /\ UNCHANGED <<latest, hasAttestation, nonce, receipts, lock, answer>>
      /\ call' = [call EXCEPT ![c] = to]
  BY <1>3 DEF Send, Enters, Tried, contractVars, Goto, SameNonce
<1>5. to.pc = "wait" /\ to.nonce = call[c].nonce /\ to.result = call[c].result
  BY <1>2 DEF Active
<1>6. /\ call'[c] = to
      /\ \A d \in Call \ {c} : call'[d] = call[d]
  BY <1>4 DEF IInv, CallOK
<1>7. /\ lock = c /\ \A d \in Call \ {c} : call[d].pc \in {"idle", "lock"}
  BY <1>1, OthersRest
<1>8. tx = [by |-> c, nonce |-> to.nonce, result |-> to.result]
      /\ tx.by = c /\ tx.nonce = to.nonce /\ tx.result = to.result
  BY <1>5 DEF Tried
<1>. HIDE DEF to, tx
<1>9. TurnOK'
  BY <1>4, <1>6, <1>7 DEF TurnOK
<1>10. LedgerOK'
  <2>1. Classify(Head', tx.result) # "already_published"
    BY <1>2, <1>4, <1>5, <1>8, SameRegistry
  <2>2. Pending(tx)'
    BY <1>4, <1>5, <1>6, <1>8, <2>1 DEF Pending, Tried, tx
  <2>3. \A t \in mempool' : /\ call'[t.by].pc = "wait"
                            /\ t = [by |-> t.by, nonce |-> call'[t.by].nonce,
                                    result |-> call'[t.by].result]
                            /\ nonce' <= t.nonce
                            /\ Classify(Head', t.result) # "already_published"
    BY <1>4, <1>5, <1>6, <1>8, <2>1
  <2>. QED
    BY <1>4, <2>3 DEF SerialOK, LedgerOK, Pending, Tried
<1>11. ASSUME NEW d \in Call
       PROVE  Fits(d, call[d])' /\ AnswerFits(answer[d])'
  <2>1. Fits(d, call'[d])
    <3>1. CASE d = c
      <4>1. \A r \in receipts : r.tx.nonce < nonce /\ r.tx.nonce \in Int
        BY DEF SerialOK, LedgerOK, IInv, ChainOK, Receipt, Tx
      <4>2. nonce \in Int /\ to.nonce \in Int
        BY <1>2, <1>5 DEF Active, IInv, ChainOK
      <4>3. ASSUME NEW r \in receipts
            PROVE  r.tx # [by |-> c, nonce |-> to.nonce, result |-> to.result]
        BY <1>4, <1>5, <1>8, <4>1, <4>2
      <4>. QED
        BY <1>5, <1>6, <3>1, <4>3 DEF Fits
    <3>2. CASE d # c
      BY <1>6, <3>2 DEF SerialOK
    <3>. QED
      BY <3>1, <3>2
  <2>2. Fits(d, call[d])'
    BY <1>4, <2>1, FitsStays DEF Fits, Told
  <2>3. AnswerFits(answer[d])'
    BY <1>4 DEF SerialOK, AnswerFits, Told
  <2>. QED
    BY <2>2, <2>3
<1>. QED
  BY <1>9, <1>10, <1>11 DEF SerialOK

(* A call that was rejected, or is done, has nothing in the mempool.       *)
LEMMA ReceivedIsMined ==
  ASSUME IInv, SerialOK, NEW c \in Call, call[c].pc = "wait", NEW r \in receipts,
         r.tx = Tried(c)
  PROVE  \A t \in mempool : t.by # c
<1>. SUFFICES ASSUME NEW t \in mempool, t.by = c
              PROVE  FALSE
  OBVIOUS
<1>1. t = r.tx /\ nonce <= t.nonce /\ r.tx.nonce < nonce
  BY DEF SerialOK, LedgerOK, Pending
<1>2. t.nonce \in Int /\ nonce \in Int
  BY DEF IInv, ChainOK, Tx
<1>. QED
  BY <1>1, <1>2

LEMMA AwaitSerial ==
  ASSUME Serial, IInv, SerialOK, NEW c \in Call, Wait(c) \/ SendRejected(c) PROVE SerialOK'
<1>1. UNCHANGED chainVars /\ call[c].pc \in {"wait", "send"} /\ call[c].pc \in Pc \ {"lock"}
  BY DEF Wait, SendRejected, Pc
<1>2. call[c] \in Active /\ call[c].result \in Result
  BY <1>1, ActiveTyped DEF IInv
<1>3. CASE SendRejected(c)
  <2>1. \A t \in mempool : t.by # c
    BY <1>3, OthersRest DEF SendRejected
  <2>. QED
    BY <1>1, <1>3, <2>1, QuietRaise DEF SendRejected
<1>4. CASE Wait(c)
  <2>1. PICK r \in receipts : r.tx = Tried(c) /\ Require(c, r.ok, "readback")
    BY <1>4 DEF Wait
  <2>2. \A t \in mempool : t.by # c
    BY <1>4, <2>1, ReceivedIsMined DEF Wait
  <2>3. CASE Raise(c)
    BY <1>1, <2>2, <2>3, QuietRaise
  <2>4. CASE r.ok /\ Goto(c, "readback") /\ UNCHANGED <<lock, answer>>
    <3>. DEFINE to == [call[c] EXCEPT !.pc = "readback"]
    <3>1. to.pc = "readback" /\ to.result = call[c].result
      BY <1>2 DEF Active
    <3>2. /\ Matches(Head, call[c].result)
          /\ Latest(Head, call[c].result).publishedAt = r.at
      BY <1>4, <2>1, <2>4 DEF Wait, SerialOK, Fits, Tried
    <3>3. Told(to.result, Latest(Head, to.result).publishedAt)
      <4>1. r.tx.result = call[c].result /\ call[c].result.input.validUntil \in Int
        BY <1>2, <2>1, ResultAssumption DEF Tried, Chain!Input, Chain!Deadline
      <4>. QED
        BY <2>4, <3>1, <3>2, <4>1 DEF Told, SameEvidence
    <3>4. Fits(c, to) /\ call' = [call EXCEPT ![c] = to]
      BY <2>4, <3>1, <3>2, <3>3 DEF Fits, Goto
    <3>. HIDE DEF to
    <3>. QED
      BY <1>1, <2>2, <2>4, <3>4, QuietGoto
  <2>. QED
    BY <2>1, <2>3, <2>4 DEF Require
<1>. QED
  BY <1>3, <1>4

LEMMA ConcludeSerial ==
  ASSUME Serial, IInv, SerialOK, NEW c \in Call, Readback(c) \/ Return(c) PROVE SerialOK'
<1>1. UNCHANGED chainVars /\ call[c].pc \in {"readback", "state"} /\ call[c].pc \in Pc \ {"lock"}
  BY DEF Readback, Return, Pc
<1>2. \A t \in mempool : t.by # c
  BY <1>1, OthersRest
<1>3. /\ call[c] \in Active
      /\ Told(call[c].result, Latest(Head, call[c].result).publishedAt)
  BY <1>1, ActiveTyped DEF IInv, SerialOK, Fits
<1>4. CASE Readback(c)
  <2>. DEFINE to == [call[c] EXCEPT !.pc = "state"]
  <2>1. Matches(Head, call[c].result)
    BY <1>4 DEF Readback, SerialOK, Fits
  <2>2. Goto(c, "state") /\ UNCHANGED <<lock, answer>>
    BY <1>4, <2>1, OneView DEF Readback
  <2>3. to.pc = "state" /\ to.result = call[c].result
    BY <1>3 DEF Active
  <2>4. Fits(c, to) /\ call' = [call EXCEPT ![c] = to]
    BY <1>3, <2>2, <2>3 DEF Fits, Goto
  <2>. HIDE DEF to
  <2>. QED
    BY <1>1, <1>2, <2>2, <2>4, QuietGoto
<1>5. CASE Return(c)
  <2>. DEFINE ans == [status |-> call[c].status, result |-> call[c].result,
                      publishedAt |-> Latest(Head, call[c].result).publishedAt]
  <2>1. answer' = [answer EXCEPT ![c] = ans] /\ call' = [call EXCEPT ![c] = Idle]
    BY <1>5, OneView DEF Return
  <2>2. AnswerFits(ans) /\ Fits(c, Idle) /\ Idle.pc = "idle"
    BY <1>3 DEF AnswerFits, Fits, Idle
  <2>3. UNCHANGED <<latest, hasAttestation, nonce, mempool, receipts>>
    BY <1>1 DEF chainVars, contractVars
  <2>4. \A d \in Call \ {c} : call[d].pc \in {"idle", "lock"}
    BY <1>1, OthersRest
  <2>. HIDE DEF ans
  <2>. QED
    BY <1>2, <2>1, <2>2, <2>3, <2>4, QuietCall
<1>. QED
  BY <1>4, <1>5

(* What a step of the chain leaves of the calls' promises: receipts only   *)
(* come, so what was told stays true.                                      *)
LEMMA AnswersStay ==
  ASSUME SerialOK, UNCHANGED answer, \A r \in receipts : r \in receipts', NEW c \in Call
  PROVE  AnswerFits(answer[c])'
<1>1. AnswerFits(answer[c])
  BY DEF SerialOK
<1>. QED
  BY <1>1 DEF AnswerFits, Told, SameEvidence

(* The transaction that is mined is the only one in the mempool, and its   *)
(* receipt the first with its nonce.                                       *)
LEMMA MineSerial == ASSUME Serial, IInv, SerialOK, Mine PROVE SerialOK'
<1>1. PICK t \in mempool :
        /\ t.nonce = nonce
        /\ nonce' = nonce + 1
        /\ mempool' = mempool \ {t}
        /\ \/ /\ Chain!PublishValidation(Signer, t.result.asset, t.result.input)
              /\ receipts' = receipts \cup {[tx |-> t, ok |-> TRUE, at |-> now]}
           \/ /\ ~Accepts(Head, t.result)
              /\ receipts' = receipts \cup {[tx |-> t, ok |-> FALSE, at |-> now]}
              /\ UNCHANGED contractVars
        /\ UNCHANGED <<replica, lock, call, answer>>
  BY DEF Mine
<1>. DEFINE c == t.by
            own == PairOf(t.result)
            input == t.result.input
<1>2. /\ t \in Tx /\ c \in Call /\ t.result \in Result /\ nonce \in Nat
      /\ call[c].pc = "wait" /\ t = Tried(c)
  BY <1>1, CallAssumption DEF IInv, ChainOK, Tx, SerialOK, LedgerOK, Pending
<1>3. /\ lock = c /\ \A d \in Call \ {c} : call[d].pc \in {"idle", "lock"}
      /\ mempool' = {}
  BY <1>1, <1>2, OthersRest
<1>4. PICK new : /\ receipts' = receipts \cup {new} /\ new.tx = t /\ new.at = now
                 /\ new.ok => Chain!PublishValidation(Signer, t.result.asset, t.result.input)
                 /\ ~new.ok => UNCHANGED contractVars
  <2>. DEFINE good == [tx |-> t, ok |-> TRUE, at |-> now]
              bad == [tx |-> t, ok |-> FALSE, at |-> now]
  <2>1. /\ good.ok /\ good.tx = t /\ good.at = now
        /\ ~bad.ok /\ bad.tx = t /\ bad.at = now
    OBVIOUS
  <2>2. \/ /\ Chain!PublishValidation(Signer, t.result.asset, t.result.input)
           /\ receipts' = receipts \cup {good}
        \/ /\ receipts' = receipts \cup {bad}
           /\ UNCHANGED contractVars
    BY <1>1
  <2>. HIDE DEF good, bad
  <2>. QED
    BY <2>1, <2>2
<1>. HIDE DEF c, own, input
<1>5. \A r \in receipts : r.tx.nonce \in Int /\ r.tx.nonce < nonce /\ r.tx # t
  BY <1>1 DEF SerialOK, LedgerOK, IInv, ChainOK, Receipt, Tx
<1>6. ASSUME new.ok
      PROVE  /\ Matches(Head', t.result) /\ Latest(Head', t.result).publishedAt = new.at
             /\ hasAttestation'[own]
             /\ \A p \in Chain!Pair \ {own} :
                  latest'[p] = latest[p] /\ hasAttestation'[p] = hasAttestation[p]
  <2>1. /\ latest' = [latest EXCEPT ![own] = Chain!Attested(input)]
        /\ hasAttestation' = [hasAttestation EXCEPT ![own] = TRUE]
    BY <1>4, <1>6 DEF Chain!PublishValidation, PairOf, own, input
  <2>2. own \in Chain!Pair
    BY <1>2, PairTyped DEF own
  <2>3. /\ latest'[own] = Chain!Attested(input) /\ hasAttestation'[own]
        /\ \A p \in Chain!Pair \ {own} :
             latest'[p] = latest[p] /\ hasAttestation'[p] = hasAttestation[p]
    BY <2>1, <2>2 DEF IInv, ChainOK
  <2>4. Head'.latest = latest' /\ Head'.hasAttestation = hasAttestation'
    BY DEF Head
  <2>5. /\ Latest(Head', t.result) = Chain!Attested(input)
        /\ Existing(Head', t.result)
    BY <2>3, <2>4 DEF Latest, Existing, own
  <2>. QED
    BY <1>4, <2>3, <2>5 DEF Matches, Chain!Attested, input
<1>7. ASSUME ~new.ok
      PROVE  UNCHANGED <<latest, hasAttestation>>
  BY <1>4, <1>7 DEF contractVars
<1>8. TurnOK'
  BY <1>1 DEF SerialOK, TurnOK
<1>9. LedgerOK'
  <2>1. \A r \in receipts' : r.tx.nonce < nonce'
    BY <1>1, <1>2, <1>4, <1>5
  <2>2. \A q, r \in receipts' : q.tx.nonce = r.tx.nonce => q = r
    <3>. SUFFICES ASSUME NEW q \in receipts', NEW r \in receipts', q.tx.nonce = r.tx.nonce
                  PROVE  q = r
      OBVIOUS
    <3>1. CASE q \in receipts /\ r \in receipts
      BY <3>1 DEF SerialOK, LedgerOK
    <3>2. CASE q = new \/ r = new
      BY <1>1, <1>2, <1>4, <1>5, <3>2
    <3>. QED
      BY <1>4, <3>1, <3>2
  <2>3. \A p \in Chain!Pair : ~hasAttestation'[p] => latest'[p].observedAt = 0
    BY <1>6, <1>7 DEF SerialOK, LedgerOK
  <2>. QED
    BY <1>3, <2>1, <2>2, <2>3 DEF LedgerOK
<1>10. ASSUME NEW d \in Call
       PROVE  Fits(d, call[d])'
  <2>1. CASE d = c
    <3>1. ASSUME NEW r \in receipts', r.ok, r.tx = t
          PROVE  Matches(Head', t.result) /\ Latest(Head', t.result).publishedAt = r.at
      BY <1>4, <1>5, <1>6, <3>1
    <3>2. call'[d] = call[c] /\ call[c].pc = "wait" /\ call[c].result = t.result
          /\ t = [by |-> d, nonce |-> call[c].nonce, result |-> call[c].result]
      BY <1>1, <1>2, <2>1 DEF Tried
    <3>. QED
      BY <3>1, <3>2 DEF Fits
  <2>2. CASE d # c
    <3>1. call'[d].pc \in {"idle", "lock"} /\ Fits(d, call[d]) /\ call'[d] = call[d]
      BY <1>1, <1>3, <2>2 DEF SerialOK
    <3>. QED
      BY <3>1 DEF Fits
  <2>. QED
    BY <2>1, <2>2
<1>11. \A r \in receipts : r \in receipts'
  BY <1>4
<1>. QED
  BY <1>1, <1>8, <1>9, <1>10, <1>11, AnswersStay DEF SerialOK

(* Steps that leave the signer's transactions and the registry's           *)
(* attestations as they are.                                               *)
LEMMA RestSerial ==
  ASSUME SerialOK, UNCHANGED <<latest, hasAttestation, nonce, mempool, receipts>>,
         UNCHANGED <<lock, call, answer>>
  PROVE  SerialOK'
<1>1. TurnOK'
  BY DEF SerialOK, TurnOK
<1>2. LedgerOK'
  <2>1. ASSUME NEW t \in mempool
        PROVE  Pending(t)'
    <3>1. Pending(t) /\ Classify(Head', t.result) = Classify(Head, t.result)
      BY SameRegistry DEF SerialOK, LedgerOK
    <3>. QED
      BY <3>1 DEF Pending, Tried
  <2>. QED
    BY <2>1 DEF SerialOK, LedgerOK
<1>3. ASSUME NEW c \in Call
      PROVE  Fits(c, call[c])' /\ AnswerFits(answer[c])'
  <2>1. Fits(c, call'[c])
    BY DEF SerialOK
  <2>2. Fits(c, call[c])'
    BY <2>1, FitsStays DEF Fits, Told
  <2>. QED
    BY <2>2, AnswersStay
<1>. QED
  BY <1>1, <1>2, <1>3 DEF SerialOK

LEMMA NextKeepsSerial ==
  ASSUME Serial, IInv, SerialOK, [Next]_vars PROVE SerialOK'
<1>1. ASSUME NEW c \in Call,
             \/ \E result \in Result : Begin(c, result)
             \/ Acquire(c) \/ Step(c) \/ SendLost(c) \/ RpcRaises(c)
      PROVE  SerialOK'
  <2>1. ~SendLost(c) /\ ~RpcRaises(c) /\ ~WaitTimesOut(c)
    BY DEF Serial, SendLost, RpcRaises, WaitTimesOut
  <2>2. CASE Acquire(c) \/ \E result \in Result : Begin(c, result)
    BY <2>2, BeginSerial
  <2>3. CASE Step(c)
    BY <2>1, <2>3, DecideSerial, PrepareSerial, SendSerial, AwaitSerial, ConcludeSerial DEF Step
  <2>. QED
    BY <1>1, <2>1, <2>2, <2>3
<1>2. CASE Mine
  BY <1>2, MineSerial
<1>3. CASE Authorize \/ NextBlock \/ UNCHANGED vars
  <2>1. /\ UNCHANGED <<latest, hasAttestation, nonce, mempool, receipts>>
        /\ UNCHANGED <<lock, call, answer>>
    BY <1>3 DEF Authorize, NextBlock, vars, chainVars, contractVars, Chain!SetPublisher,
                Chain!NextBlock, Chain!registryVars
  <2>. QED
    BY <2>1, RestSerial
<1>4. ~Sync /\ ~Drop /\ ~Crash
  BY DEF Serial, Sync, Drop, Crash
<1>. QED
  BY <1>1, <1>2, <1>3, <1>4 DEF Next

LEMMA InitSerial == ASSUME Init PROVE SerialOK
<1>1. TurnOK
  BY DEF Init, TurnOK, Idle
<1>2. LedgerOK
  BY DEF Init, LedgerOK, Chain!Init, Chain!ZeroAttestation
<1>3. \A c \in Call : Fits(c, call[c]) /\ AnswerFits(answer[c])
  BY DEF Init, Fits, AnswerFits, Idle, NoAnswer, Success
<1>. QED
  BY <1>1, <1>2, <1>3 DEF SerialOK

(* The receipt's publication time, which is read separately, is the one at *)
(* which evidence like the result's was published.                         *)
THEOREM ReceiptTellsItsResult == ASSUME Serial PROVE Spec => []ReceiptIsOfResult
<1>1. Init => IInv /\ SerialOK
  BY InitIInv, InitSerial
<1>2. IInv /\ SerialOK /\ [Next]_vars => (IInv /\ SerialOK)'
  BY NextKeepsIInv, NextKeepsSerial
<1>3. IInv /\ SerialOK => ReceiptIsOfResult
  BY DEF SerialOK, AnswerFits, Told, ReceiptIsOfResult
<1>. QED
  BY <1>1, <1>2, <1>3, PTL DEF Spec

(* "Publisher calls are serialized by the scheduler's shared transaction   *)
(* lock" (_next_publisher_nonce) is enough for the calls that take it: no  *)
(* two of them ever prepare or send with one nonce.  A POST does not.      *)
THEOREM SerializedNoncesDiffer == ASSUME Serial PROVE Spec => []NoncesDistinct
<1>1. Init => IInv /\ SerialOK
  BY InitIInv, InitSerial
<1>2. IInv /\ SerialOK /\ [Next]_vars => (IInv /\ SerialOK)'
  BY NextKeepsIInv, NextKeepsSerial
<1>3. SerialOK => NoncesDistinct
  BY DEF SerialOK, TurnOK, NoncesDistinct
<1>. QED
  BY <1>1, <1>2, <1>3, PTL DEF Spec

(* Only its own step gives a call an answer.                               *)
LEMMA AnswerIsOwn ==
  ASSUME Serial, IInv, [Next]_vars, NEW c \in Call, answer[c] # Failed, answer'[c] = Failed
  PROVE  /\ UNCHANGED chainVars
         /\ \/ Preflight(c) \/ Block(c) \/ ReadExisting(c) \/ Prepare(c)
            \/ SendRejected(c) \/ Wait(c) \/ Readback(c)
         /\ Raise(c)
<1>1. ~Crash /\ \A d \in Call : ~SendLost(d) /\ ~RpcRaises(d) /\ ~WaitTimesOut(d)
  BY DEF Serial, Crash, SendLost, RpcRaises, WaitTimesOut
<1>2. answer' # answer
  OBVIOUS
<1>3. PICK d \in Call : (\E result \in Result : Begin(d, result)) \/ Step(d)
  BY <1>1, <1>2 DEF Next, Mine, Authorize, NextBlock, Sync, Drop, Acquire, vars
<1>4. answer \in [Call -> Answer \cup {Failed, NoAnswer}] /\ Failed # NoAnswer
  BY DEF IInv, CallOK, Failed, NoAnswer
<1>5. ~\E result \in Result : Begin(d, result)
  BY <1>4 DEF Begin
<1>6. ~Return(d)
  <2>. SUFFICES ASSUME Return(d) PROVE FALSE
    OBVIOUS
  <2>1. call[d].status \in Success
    BY ActiveTyped DEF Return, Pc, IInv
  <2>2. PICK at : answer' = [answer EXCEPT ![d] =
                    [status |-> call[d].status, result |-> call[d].result, publishedAt |-> at]]
    BY DEF Return
  <2>3. [status |-> call[d].status, result |-> call[d].result, publishedAt |-> at] # Failed
    BY <2>1 DEF Failed, Success
  <2>. QED
    BY <1>4, <2>2, <2>3
<1>7. ~Send(d)
  BY <1>2 DEF Send
<1>8. /\ UNCHANGED chainVars
      /\ \/ Preflight(d) \/ Block(d) \/ ReadExisting(d) \/ Prepare(d)
         \/ SendRejected(d) \/ Wait(d) \/ Readback(d)
  BY <1>1, <1>3, <1>5, <1>6, <1>7 DEF Step, Preflight, Block, ReadExisting, Prepare,
     SendRejected, Wait, Readback
<1>9. Raise(d)
  BY <1>2, <1>8 DEF Preflight, Block, ReadExisting, Prepare, SendRejected, Wait, Readback, Require
<1>10. d = c
  BY <1>4, <1>9 DEF Raise
<1>. QED
  BY <1>8, <1>9, <1>10

(* A call raises before it has signed; when its transaction was refused;   *)
(* or when it was mined and reverted.                                      *)
LEMMA FailureIsClean ==
  ASSUME Serial, IInv, SerialOK, [Next]_vars,
         NEW c \in Call, answer[c] # Failed, answer'[c] = Failed
  PROVE  Signed(c) \cap (mempool' \cup {r.tx : r \in {q \in receipts' : q.ok}}) = {}
<1>1. UNCHANGED <<mempool, receipts>> /\ Raise(c)
  BY AnswerIsOwn DEF chainVars
<1>2. ASSUME \A t \in mempool : t.by # c,
             \A q \in receipts : q.ok => q.tx # Tried(c)
      PROVE  Signed(c) \cap (mempool' \cup {r.tx : r \in {q \in receipts' : q.ok}}) = {}
  BY <1>1, <1>2 DEF Signed, Tried
<1>3. CASE Preflight(c) \/ Block(c) \/ ReadExisting(c) \/ Prepare(c)
  <2>1. call[c].pc \in {"preflight", "block", "existing", "nonce"}
    BY <1>3 DEF Preflight, Block, ReadExisting, Prepare
  <2>2. call[c].nonce = -1
    BY <2>1 DEF SerialOK, Fits
  <2>. QED
    BY <2>2 DEF Signed
<1>4. CASE SendRejected(c)
  <2>1. \A t \in mempool : t.by # c
    BY <1>4, OthersRest DEF SendRejected
  <2>2. call[c].nonce >= nonce /\ call[c].nonce \in Int
    <3>1. call[c].pc = "send"
      BY <1>4 DEF SendRejected
    <3>2. call[c].nonce >= nonce
      BY <3>1 DEF SerialOK, Fits
    <3>3. call[c].nonce \in -1..(MaxNonce + 1)
      BY <3>1, ActiveTyped DEF Pc, IInv
    <3>. QED
      BY <3>2, <3>3
  <2>3. ASSUME NEW q \in receipts
        PROVE  q.tx # Tried(c)
    <3>1. q.tx.nonce < nonce /\ q.tx.nonce \in Int /\ nonce \in Int
      BY DEF SerialOK, LedgerOK, IInv, ChainOK, Receipt, Tx
    <3>. QED
      BY <2>2, <3>1 DEF Tried
  <2>. QED
    BY <1>2, <2>1, <2>3
<1>5. CASE Wait(c)
  <2>1. PICK r \in receipts : r.tx = Tried(c) /\ Require(c, r.ok, "readback")
    BY <1>5 DEF Wait
  <2>2. ~r.ok
    BY <1>1, <2>1 DEF Require
  <2>3. \A t \in mempool : t.by # c
    BY <1>5, <2>1, ReceivedIsMined DEF Wait
  <2>4. \A q \in receipts : q.ok => q.tx # Tried(c)
    BY <2>1, <2>2 DEF SerialOK, LedgerOK
  <2>. QED
    BY <1>2, <2>3, <2>4
<1>6. ~Readback(c)
  <2>. SUFFICES ASSUME Readback(c) PROVE FALSE
    OBVIOUS
  <2>1. Matches(Head, call[c].result)
    BY DEF Readback, SerialOK, Fits
  <2>2. UNCHANGED answer
    BY <2>1, OneView DEF Readback
  <2>. QED
    BY <2>2
<1>. QED
  BY <1>3, <1>4, <1>5, <1>6, AnswerIsOwn

(* What is mined differs from what stood in more than its time.            *)
LEMMA MiningTellsNews ==
  ASSUME Serial, IInv, SerialOK, [Next]_vars, NEW p \in DOMAIN latest, latest'[p] # latest[p]
  PROVE  [latest'[p] EXCEPT !.publishedAt = latest[p].publishedAt] # latest[p]
<1>1. Mine
  BY DEF Next, Begin, Acquire, Step, Preflight, Block, ReadExisting, Prepare, Send, SendRejected,
         Wait, WaitTimesOut, Readback, Return, SendLost, RpcRaises, Enters, Authorize, NextBlock,
         Sync, Drop, Crash, vars, chainVars, contractVars, Chain!SetPublisher, Chain!NextBlock,
         Chain!registryVars
<1>2. PICK t \in mempool : Chain!PublishValidation(Signer, t.result.asset, t.result.input)
  BY <1>1 DEF Mine, contractVars
<1>. DEFINE own == PairOf(t.result)
            input == t.result.input
<1>3. /\ t.result \in Result /\ Classify(Head, t.result) # "already_published"
  BY DEF IInv, ChainOK, Tx, SerialOK, LedgerOK, Pending
<1>4. latest' = [latest EXCEPT ![own] = Chain!Attested(input)]
  BY <1>2 DEF Chain!PublishValidation, PairOf
<1>5. own \in Chain!Pair /\ input.observedAt \in Int /\ input.observedAt > 0
      /\ input.validUntil \in Int
  BY <1>3, PairTyped, ResultAssumption DEF Chain!Input, Chain!Deadline
<1>6. p = own /\ latest'[p] = Chain!Attested(input)
  BY <1>4, <1>5 DEF IInv, ChainOK
<1>. HIDE DEF own
<1>7. SUFFICES ASSUME [Chain!Attested(input) EXCEPT !.publishedAt = latest[p].publishedAt]
                        = latest[p]
               PROVE  FALSE
  BY <1>6
<1>8. /\ latest[own].observedAt = input.observedAt
      /\ latest[own].quote = input.quote /\ latest[own].validUntil = input.validUntil
  BY <1>6, <1>7 DEF Chain!Attested
<1>. HIDE DEF input
<1>9. hasAttestation[own]
  BY <1>5, <1>8 DEF SerialOK, LedgerOK
<1>10. Existing(Head, t.result) /\ Latest(Head, t.result) = latest[own]
  BY <1>9 DEF Existing, Latest, Head, own
<1>11. Classify(Head, t.result) = "already_published"
  BY <1>5, <1>8, <1>10 DEF Classify, input
<1>. QED
  BY <1>3, <1>11

(* A call that raises has written nothing, and left nothing behind that    *)
(* could be written later.                                                 *)
THEOREM FailureIsFinal == ASSUME Serial PROVE Spec => FailureWroteNothing
<1>1. Init => IInv /\ SerialOK
  BY InitIInv, InitSerial
<1>2. IInv /\ SerialOK /\ [Next]_vars => (IInv /\ SerialOK)'
  BY NextKeepsIInv, NextKeepsSerial
<1>3. IInv /\ SerialOK /\ [Next]_vars =>
        [\A c \in Call :
           answer[c] # Failed /\ answer'[c] = Failed =>
             Signed(c) \cap (mempool' \cup {r.tx : r \in {q \in receipts' : q.ok}}) = {}]_vars
  BY FailureIsClean
<1>. QED
  BY <1>1, <1>2, <1>3, PTL DEF Spec, FailureWroteNothing

(* Publication is idempotent: what already stands is not attested again.   *)
THEOREM PublicationIsIdempotent == ASSUME Serial PROVE Spec => NoIdleRewrite
<1>1. Init => IInv /\ SerialOK
  BY InitIInv, InitSerial
<1>2. IInv /\ SerialOK /\ [Next]_vars => (IInv /\ SerialOK)'
  BY NextKeepsIInv, NextKeepsSerial
<1>3. IInv /\ SerialOK /\ [Next]_vars =>
        [\A p \in DOMAIN latest :
           latest'[p] # latest[p] =>
             [latest'[p] EXCEPT !.publishedAt = latest[p].publishedAt] # latest[p]]_vars
  BY MiningTellsNews
<1>. QED
  BY <1>1, <1>2, <1>3, PTL DEF Spec, NoIdleRewrite
=============================================================================
