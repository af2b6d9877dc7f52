------------------------------ MODULE Publisher ------------------------------
(***************************************************************************)
(* publish() of publisher.py: one call takes a warmed result through       *)
(* preflight, nonce, transaction, receipt and read-back against the        *)
(* contracts of ControlPlane.                                              *)
(*                                                                         *)
(* Every read of the chain is an RPC of its own, so calls interleave       *)
(* between them with each other and with the chain.  The schedulers'       *)
(* workers call under one lock (_publish_serialized); POST /api/publish    *)
(* calls without it.  All of them sign with one key and share its nonce.   *)
(* A load-balanced RPC may answer from a node that lags behind.            *)
(***************************************************************************)
EXTENDS Integers

CONSTANTS
  Call,          \* threads that call publish()
  Serialized,    \* those that hold the schedulers' transaction lock
  NoCall,        \* nobody holds the lock
  Result,        \* the attestation inputs that warmed results translate to
  Signer,        \* the account of PUBLISHER_PRIVATE_KEY
  MaxReadbacks,  \* _READBACK_ATTEMPTS
  MaxNonce,      \* bound on the signer's transactions
  Lagging,       \* whether the RPC may answer from a lagging node
  Faults,        \* whether RPCs fail, transactions get lost and the process crashes
  Account, NoAccount, AssetId, ReferenceId, NoId, Quote, Deployer, MaxTime

VARIABLES
  now, owner, isPublisher, latest, hasAttestation, policies, configured, vaultOwner,
  exposure,   \* the chain, as in ControlPlane
  nonce,      \* transactions of the signer that were mined
  mempool,    \* transactions that were accepted and are not mined
  receipts,   \* the receipts of those that were
  replica,    \* what a lagging node has seen of the chain
  lock,       \* _PUBLISHER_TRANSACTION_LOCK
  call,       \* where each call of publish() is
  answer      \* what each call last returned or raised

contractVars == <<now, owner, isPublisher, latest, hasAttestation, policies, configured,
                  vaultOwner, exposure>>
chainVars == <<contractVars, nonce, mempool, receipts, replica>>
vars == <<chainVars, lock, call, answer>>

(* No vault takes part: preflight reads policies, and only RpcRaises stands *)
(* for their absence.                                                      *)
NoVaults == [v \in {} |-> NoAccount]

Chain == INSTANCE ControlPlane WITH Vault <- {}, VaultPair <- NoVaults, Policy <- {}

(* build_attestation rejects a result whose quote the registry would.      *)
ASSUME ResultAssumption ==
  \A r \in Result :
    /\ r.asset \in AssetId
    /\ r.input \in Chain!Input
    /\ r.input.referenceId # NoId /\ r.input.observedAt > 0
    /\ r.input.observedAt < r.input.validUntil
    /\ r.input.quote.referencePriceE8 > 0 /\ r.input.quote.fairValueE8 > 0
    /\ r.input.quote.lowerBoundE8 <= r.input.quote.upperBoundE8
    /\ r.input.quote.evidenceHash # NoId /\ r.input.quote.modelVersion # NoId
ASSUME CallAssumption ==
  /\ Serialized \subseteq Call /\ NoCall \notin Call
  /\ Signer \in Account
  /\ MaxReadbacks \in Nat \ {0} /\ MaxNonce \in Nat
  /\ Lagging \in BOOLEAN /\ Faults \in BOOLEAN
\* What ControlPlane assumes of its constants.
ASSUME ChainAssumption ==
  /\ NoAccount \notin Account /\ Deployer \in Account
  /\ NoId \notin AssetId \cup ReferenceId
  /\ \A q \in Quote :
       /\ {q.referencePriceE8, q.fairValueE8, q.lowerBoundE8, q.upperBoundE8} \subseteq Nat
       /\ {"evidenceHash", "modelVersion"} \subseteq DOMAIN q
  /\ MaxTime \in Nat \ {0}

-----------------------------------------------------------------------------
(* What an RPC read can see.                                               *)

Head == [now |-> now, authorized |-> isPublisher[Signer], latest |-> latest,
         hasAttestation |-> hasAttestation, nonce |-> nonce]

View == IF Lagging THEN {Head, replica} ELSE {Head}

PairOf(result) == <<result.asset, result.input.referenceId>>

Existing(view, result) == view.hasAttestation[PairOf(result)]
Latest(view, result)   == view.latest[PairOf(result)]

(* estimate_gas: publishValidation would not revert.                       *)
Accepts(view, result) ==
  /\ view.authorized
  /\ result.input.observedAt <= view.now /\ view.now < result.input.validUntil
  /\ Existing(view, result) => Latest(view, result).observedAt <= result.input.observedAt

(* The pending count of a node that knows the mempool.                     *)
PendingNonce ==
  CHOOSE n \in nonce..(MaxNonce + 1) :
    /\ \A t \in mempool : t.nonce # n
    /\ \A m \in nonce..(n - 1) : \E t \in mempool : t.nonce = m

(* The counts that the two reads of _next_publisher_nonce can return.      *)
NonceRead ==
  {IF pending > view.nonce THEN pending ELSE view.nonce :
     view \in View, pending \in {PendingNonce} \cup {v.nonce : v \in View \ {Head}}}

-----------------------------------------------------------------------------
(* A transaction names the call that signed it, as its hash does.          *)
Tx == [by : Call, nonce : 0..(MaxNonce + 1), result : Result]

Receipt == [tx : Tx, ok : BOOLEAN, at : Nat]

Idle == [pc |-> "idle"]

Active == [pc : {"lock", "preflight", "block", "existing", "nonce", "send", "wait", "readback",
                 "state"},
           result : Result, status : {"published", "already_published"},
           nonce : -1..(MaxNonce + 1), attempt : 0..(MaxReadbacks - 1)]

Success == {"published", "already_published"}

NoAnswer == [status |-> "none"]
Failed   == [status |-> "failed"]
Answer   == [status : Success, result : Result, publishedAt : Nat]

Init ==
  /\ Chain!Init
  /\ nonce = 0
  /\ mempool = {}
  /\ receipts = {}
  /\ replica = Head
  /\ lock = NoCall
  /\ call = [c \in Call |-> Idle]
  /\ answer = [c \in Call |-> NoAnswer]

-----------------------------------------------------------------------------
(* The calls.                                                              *)

(* The transaction of a call, once it has a nonce to sign with.            *)
Tried(c) == [by |-> c, nonce |-> call[c].nonce, result |-> call[c].result]

Signed(c) == IF call[c].nonce = -1 THEN {} ELSE {Tried(c)}

(* The lock is a with statement: released however the call ends.           *)
Unlocked(c) == IF lock = c THEN NoCall ELSE lock

Goto(c, pc) == call' = [call EXCEPT ![c].pc = pc]

Raise(c) ==
  /\ answer' = [answer EXCEPT ![c] = Failed]
  /\ call' = [call EXCEPT ![c] = Idle]
  /\ lock' = Unlocked(c)

(* One step of a call: on to pc, or an exception when the check fails.     *)
Require(c, check, pc) ==
  \/ check /\ Goto(c, pc) /\ UNCHANGED <<lock, answer>>
  \/ ~check /\ Raise(c)

(* A worker's publication, or a POST, of a warmed result.                  *)
Begin(c, result) ==
  /\ call[c] = Idle
  /\ call' = [call EXCEPT ![c] =
       [pc |-> IF c \in Serialized THEN "lock" ELSE "preflight", result |-> result,
        status |-> "published", nonce |-> -1, attempt |-> 0]]
  /\ answer' = [answer EXCEPT ![c] = NoAnswer]
  /\ UNCHANGED <<chainVars, lock>>

(* Mutant: the lock is not waited for.                                     *)
AcquireWithoutWaiting(c) ==
  /\ call[c].pc = "lock"
  /\ lock' = c
  /\ Goto(c, "preflight")
  /\ UNCHANGED <<chainVars, answer>>

Acquire(c) ==
  /\ call[c].pc = "lock"
  /\ lock = NoCall
  /\ lock' = c
  /\ Goto(c, "preflight")
  /\ UNCHANGED <<chainVars, answer>>

(* _verify_deployment and isPublisher.                                     *)
Preflight(c) ==
  /\ call[c].pc = "preflight"
  /\ \E view \in View : Require(c, view.authorized, "block")
  /\ UNCHANGED chainVars

(* The latest block's time, and build_attestation's checks against it.     *)
Block(c) ==
  /\ call[c].pc = "block"
  /\ \E view \in View :
       Require(c, /\ call[c].result.input.observedAt <= view.now
                  /\ view.now < call[c].result.input.validUntil, "existing")
  /\ UNCHANGED chainVars

(* Mutants: any attestation counts as this one; none does.                 *)
ClassifyAnyExisting(view, result) ==
  IF Existing(view, result) THEN "already_published" ELSE "publish"

ClassifyNoneExisting(view, result) ==
  IF Existing(view, result) /\ result.input.observedAt < Latest(view, result).observedAt
    THEN "stale" ELSE "publish"

Classify(view, result) ==
  LET att == Latest(view, result) IN
  IF ~Existing(view, result) THEN "publish"
  ELSE IF result.input.observedAt < att.observedAt THEN "stale"
  ELSE IF /\ result.input.observedAt = att.observedAt
          /\ result.input.quote.evidenceHash = att.quote.evidenceHash
          /\ att.validUntil >= result.input.validUntil
    THEN "already_published"
  ELSE "publish"

ReadExisting(c) ==
  /\ call[c].pc = "existing"
  /\ \E view \in View :
       LET decision == Classify(view, call[c].result) IN
       \/ decision = "stale" /\ Raise(c)
       \/ /\ decision = "already_published"
          /\ call' = [call EXCEPT ![c].pc = "state", ![c].status = "already_published"]
          /\ UNCHANGED <<lock, answer>>
       \/ decision = "publish" /\ Goto(c, "nonce") /\ UNCHANGED <<lock, answer>>
  /\ UNCHANGED chainVars

(* _next_publisher_nonce, then build_transaction and estimate_gas.         *)
Prepare(c) ==
  /\ call[c].pc = "nonce"
  /\ \E n \in NonceRead, view \in View :
       IF Accepts(view, call[c].result)
         THEN /\ call' = [call EXCEPT ![c].pc = "send", ![c].nonce = n]
              /\ UNCHANGED <<lock, answer>>
         ELSE Raise(c)
  /\ UNCHANGED chainVars

SameNonce(tx) == {t \in mempool : t.nonce = tx.nonce}

(* The node's mempool takes the transaction, in place of one with the same *)
(* nonce when the gas price has risen enough.                              *)
Enters(tx) ==
  /\ nonce <= tx.nonce /\ tx.nonce <= MaxNonce
  /\ mempool' = (mempool \ SameNonce(tx)) \cup {tx}
  /\ UNCHANGED <<contractVars, nonce, receipts, replica>>

Send(c) ==
  /\ call[c].pc = "send"
  /\ Enters(Tried(c))
  /\ Goto(c, "wait")
  /\ UNCHANGED <<lock, answer>>

(* Nonce too low, already known or underpriced; or the RPC failed.         *)
SendRejected(c) ==
  /\ call[c].pc = "send"
  /\ call[c].nonce < nonce \/ SameNonce(Tried(c)) # {} \/ Faults
  /\ Raise(c)
  /\ UNCHANGED chainVars

(* The transaction is accepted and the answer lost.                        *)
SendLost(c) ==
  /\ Faults
  /\ call[c].pc = "send"
  /\ Enters(Tried(c))
  /\ Raise(c)

(* Mutant: the lock covers the transaction but not its read-back.          *)
WaitReleasing(c) ==
  /\ call[c].pc = "wait"
  /\ \E r \in receipts :
       /\ r.tx = Tried(c)
       /\ IF r.ok THEN Goto(c, "readback") /\ lock' = Unlocked(c) /\ UNCHANGED answer
          ELSE Raise(c)
  /\ UNCHANGED chainVars

Wait(c) ==
  /\ call[c].pc = "wait"
  /\ \E r \in receipts : r.tx = Tried(c) /\ Require(c, r.ok, "readback")
  /\ UNCHANGED chainVars

(* No receipt within the timeout; the transaction stays where it is.       *)
WaitTimesOut(c) ==
  /\ Faults
  /\ call[c].pc = "wait"
  /\ Raise(c)
  /\ UNCHANGED chainVars

(* _assert_readback compares every field of the input.                     *)
Matches(view, result) ==
  LET att == Latest(view, result) IN
  /\ Existing(view, result)
  /\ att.quote = result.input.quote /\ att.evidenceState = result.input.evidenceState
  /\ att.observedAt = result.input.observedAt /\ att.validUntil = result.input.validUntil

(* A mismatch is tried again unless it is the last attempt or the registry *)
(* has already moved on.                                                   *)
LastReadback(c, view) ==
  \/ call[c].attempt = MaxReadbacks - 1
  \/ /\ Existing(view, call[c].result)
     /\ Latest(view, call[c].result).observedAt >= call[c].result.input.observedAt

(* Mutant: the attempts start again.                                       *)
ReadbackRestarting(c) ==
  /\ call[c].pc = "readback"
  /\ \E view \in View :
       IF Matches(view, call[c].result)
         THEN Goto(c, "state") /\ UNCHANGED <<lock, answer>>
         ELSE /\ call' = [call EXCEPT ![c].attempt = (@ + 1) % MaxReadbacks]
              /\ UNCHANGED <<lock, answer>>
  /\ UNCHANGED chainVars

Readback(c) ==
  /\ call[c].pc = "readback"
  /\ \E view \in View :
       \/ /\ Matches(view, call[c].result)
          /\ Goto(c, "state")
          /\ UNCHANGED <<lock, answer>>
       \/ /\ ~Matches(view, call[c].result)
          /\ LastReadback(c, view)
          /\ Raise(c)
       \/ /\ ~Matches(view, call[c].result)
          /\ ~LastReadback(c, view)
          /\ call' = [call EXCEPT ![c].attempt = @ + 1]
          /\ UNCHANGED <<lock, answer>>
  /\ UNCHANGED chainVars

(* read_control_plane reads the registry once more, and the receipt takes  *)
(* its publication time from there.                                        *)
Return(c) ==
  /\ call[c].pc = "state"
  /\ \E view \in View :
       answer' = [answer EXCEPT ![c] =
         [status |-> call[c].status, result |-> call[c].result,
          publishedAt |-> Latest(view, call[c].result).publishedAt]]
  /\ call' = [call EXCEPT ![c] = Idle]
  /\ lock' = Unlocked(c)
  /\ UNCHANGED chainVars

(* Any RPC may raise instead of answering.                                 *)
RpcRaises(c) ==
  /\ Faults
  /\ call[c].pc \in {"preflight", "block", "existing", "nonce", "readback", "state"}
  /\ Raise(c)
  /\ UNCHANGED chainVars

(* The backend's process dies; the chain does not.                         *)
Crash ==
  /\ Faults
  /\ call' = [c \in Call |-> Idle]
  /\ answer' = [c \in Call |-> NoAnswer]
  /\ lock' = NoCall
  /\ UNCHANGED chainVars

-----------------------------------------------------------------------------
(* The chain.                                                              *)

(* The signer's next transaction is executed by publishValidation; one     *)
(* that reverts is mined all the same.                                     *)
Mine ==
  \E t \in mempool :
    /\ t.nonce = nonce
    /\ nonce' = nonce + 1
    /\ mempool' = mempool \ {t}
    /\ \/ /\ Chain!PublishValidation(Signer, t.result.asset, t.result.input)
          /\ receipts' = receipts \cup {[tx |-> t, ok |-> TRUE, at |-> now]}
       \/ /\ ~Accepts(Head, t.result)
          /\ receipts' = receipts \cup {[tx |-> t, ok |-> FALSE, at |-> now]}
          /\ UNCHANGED contractVars
    /\ UNCHANGED <<replica, lock, call, answer>>

(* The registry's owner authorizes or revokes the signer.                  *)
Authorize ==
  /\ \E authorized \in BOOLEAN :
       authorized # isPublisher[Signer] /\ Chain!SetPublisher(Deployer, Signer, authorized)
  /\ UNCHANGED <<nonce, mempool, receipts, replica, lock, call, answer>>

NextBlock ==
  /\ Chain!NextBlock
  /\ UNCHANGED <<nonce, mempool, receipts, replica, lock, call, answer>>

(* A lagging node catches up.                                              *)
Sync ==
  /\ Lagging
  /\ replica # Head
  /\ replica' = Head
  /\ UNCHANGED <<contractVars, nonce, mempool, receipts, lock, call, answer>>

(* A transaction is evicted from the mempool.                              *)
Drop ==
  /\ Faults
  /\ \E t \in mempool : mempool' = mempool \ {t}
  /\ UNCHANGED <<contractVars, nonce, receipts, replica, lock, call, answer>>

(* What a call does once it runs.                                          *)
Step(c) ==
  \/ Preflight(c) \/ Block(c) \/ ReadExisting(c) \/ Prepare(c) \/ Send(c) \/ SendRejected(c)
  \/ Wait(c) \/ WaitTimesOut(c) \/ Readback(c) \/ Return(c)

Next ==
  \/ \E c \in Call :
       \/ \E result \in Result : Begin(c, result)
       \/ Acquire(c) \/ Step(c) \/ SendLost(c) \/ RpcRaises(c)
  \/ Mine \/ Authorize \/ NextBlock \/ Sync \/ Drop \/ Crash

Spec == Init /\ [][Next]_vars

(* Every RPC has an HTTP timeout, and waiting for a receipt has one too.   *)
LiveSpec == Spec /\ \A c \in Call : WF_vars(Step(c))

-----------------------------------------------------------------------------
(* Properties                                                              *)

TypeOK ==
  /\ nonce \in 0..(MaxNonce + 1)
  /\ mempool \subseteq Tx
  /\ receipts \subseteq Receipt
  /\ lock \in Serialized \cup {NoCall}
  /\ call \in [Call -> Active \cup {Idle}]
  /\ answer \in [Call -> Answer \cup {Failed, NoAnswer}]

(* a and b attest the same evidence, b for at least as long.               *)
SameEvidence(a, b) ==
  /\ a.asset = b.asset /\ a.input.referenceId = b.input.referenceId
  /\ a.input.observedAt = b.input.observedAt
  /\ a.input.quote.evidenceHash = b.input.quote.evidenceHash
  /\ a.input.validUntil <= b.input.validUntil

(* A call that reports success, even as "already published", is right: its *)
(* evidence was attested on chain, and the pair has never since stood at   *)
(* an older observation - whatever lagged, failed, crashed or raced.       *)
SuccessIsOnRecord ==
  \A c \in Call :
    answer[c].status \in Success =>
      /\ \E r \in receipts : r.ok /\ SameEvidence(answer[c].result, r.tx.result)
      /\ Existing(Head, answer[c].result)
      /\ Latest(Head, answer[c].result).observedAt >= answer[c].result.input.observedAt

(* To the readers of the chain the calls of all assets' workers together   *)
(* are the ObservationRegister: whatever they race for, each transaction   *)
(* that is mined moves the observation of one pair forward, and leaves     *)
(* the evidence of every other asset where it was.                         *)
ReadersSeeRegister == Chain!ImplementsRegister

(* With serialized calls and answering RPCs, a call that raises has        *)
(* written nothing and left nothing that could be written later: another   *)
(* call's newer write never makes its own read-back look like a mismatch.  *)
FailureWroteNothing ==
  [][\A c \in Call :
       answer[c] # Failed /\ answer'[c] = Failed =>
         Signed(c) \cap (mempool' \cup {r.tx : r \in {q \in receipts' : q.ok}}) = {}]_vars

(* With serialized calls and answering RPCs, the publication time in the   *)
(* receipt, which is read separately, is that of this evidence.            *)
ReceiptIsOfResult ==
  \A c \in Call :
    answer[c].status \in Success =>
      \E r \in receipts : /\ r.ok /\ SameEvidence(answer[c].result, r.tx.result)
                          /\ r.at = answer[c].publishedAt

(* With serialized calls and answering RPCs, publication is idempotent: no *)
(* transaction re-attests what already stands, which would only move its   *)
(* publication time.                                                       *)
NoIdleRewrite ==
  [][\A p \in DOMAIN latest :
       latest'[p] # latest[p] =>
         [latest'[p] EXCEPT !.publishedAt = latest[p].publishedAt] # latest[p]]_vars

(* A call that has started, and holds the lock if it needs it, ends even   *)
(* when its transaction is never mined, and releases the lock: one asset's *)
(* hanging publication cannot block the other assets' workers for ever.    *)
CallEnds ==
  \A c \in Call :
    call[c].pc \notin {"idle", "lock"} ~> (call[c].pc \in {"idle", "lock"} /\ lock # c)

(* No two calls are ever preparing or sending transactions with one nonce  *)
(* (publisher.py, _next_publisher_nonce: "Publisher calls are serialized   *)
(* by the scheduler's shared transaction lock").                           *)
NoncesDistinct ==
  \A c, d \in Call :
    (c # d /\ call[c].pc = "send" /\ call[d].pc = "send") => call[c].nonce # call[d].nonce
=============================================================================
