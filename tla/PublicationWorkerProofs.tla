------------------------ MODULE PublicationWorkerProofs ------------------------
(***************************************************************************)
(* Proofs about PublicationWorker for any number of observations, with or  *)
(* without failing writes, stops and crashes.                              *)
(*                                                                         *)
(* The wake-up protocol is inductive by itself.  That delivery goes        *)
(* forward rests on an order of everything that holds an observation:      *)
(* what is on record, then what is awaited, then what is pending, then     *)
(* what the loop is about to hand over.                                    *)
(***************************************************************************)
EXTENDS PublicationWorker, TLAPS

(* The loop hands over what it persisted last.                             *)
TickedIsNewest == ticked # None => ticked = persisted

(* t is later than all that the delivery record names; a blocked result    *)
(* may have been recorded ahead of it.                                     *)
Beyond(t) == /\ t > published.publishedObservation
             /\ published.status # "blocked" => t > published.observation

RecordIsOld ==
  /\ published.observation <= persisted /\ published.publishedObservation <= persisted
  /\ ticked # None =>
       published.observation < ticked /\ published.publishedObservation < ticked

AwaitedIsOld ==
  worker.pc = "await" =>
    /\ published.publishedObservation < worker.result
    /\ worker.result <= persisted
    /\ ticked # None => worker.result < ticked

IInv == /\ TypeOK /\ TickedIsNewest /\ RecordIsOld /\ AwaitedIsOld /\ PendingIsNewest
        /\ pending # None => Beyond(pending)

USE DEF Ts, None

-----------------------------------------------------------------------------
(* The wake-up protocol.                                                   *)

(* A worker waits on a clear event only with nothing to do.                *)
LEMMA WakeupInit == Init => NoLostWakeup
BY DEF Init, NoLostWakeup, At

LEMMA WakeupStep == NoLostWakeup /\ [Next]_vars => NoLostWakeup'
<1> SUFFICES ASSUME NoLostWakeup, [Next]_vars PROVE NoLostWakeup'
  OBVIOUS
<1> USE DEF NoLostWakeup
<1>1. CASE TickPersists \/ HandOverNothing \/ HandOverBlocked \/ StopLoop \/ UNCHANGED vars
  BY <1>1 DEF TickPersists, HandOverNothing, HandOverBlocked, StopLoop, vars, taskVars
<1>2. CASE HandOver
  BY <1>2 DEF HandOver, Enqueue
<1>3. CASE HandOverRaises
  BY <1>3 DEF HandOverRaises
<1>4. CASE WorkerWakes
  BY <1>4 DEF WorkerWakes, TakeOrWait, At
<1>5. CASE WorkerResumes
  BY <1>5 DEF WorkerResumes, TakeOrWait, At
<1>6. CASE WorkerWakesRaising \/ WorkerResumesRaising
  BY <1>6 DEF WorkerWakesRaising, WorkerResumesRaising, At
<1>7. CASE Start
  BY <1>7 DEF Start
<1>8. CASE StopWorker
  BY <1>8 DEF StopWorker
<1>9. CASE StopJoins \/ StopTimesOut \/ Crash
  BY <1>9 DEF StopJoins, StopTimesOut, Crash, At
<1> QED
  BY <1>1, <1>2, <1>3, <1>4, <1>5, <1>6, <1>7, <1>8, <1>9 DEF Next

(* No lost wake-up: a publication worker that waits on its event while the *)
(* event is clear has no pending result and no stop request to see.        *)
THEOREM WakeupsAreKept == Spec => []NoLostWakeup
BY WakeupInit, WakeupStep, PTL DEF Spec

-----------------------------------------------------------------------------
(* Types and the order of observations.                                    *)

LEMMA InitInvariant == Init => IInv
<1> SUFFICES ASSUME Init PROVE IInv
  OBVIOUS
<1>1. worker = [pc |-> "none"] /\ worker.pc = "none"
  BY DEF Init, At
<1>2. TypeOK
  BY <1>1, BoundAssumption DEF Init, TypeOK, Worker, Publication, NoPublication, Status, Success
<1> QED
  BY <1>1, <1>2, BoundAssumption
  DEF Init, IInv, TickedIsNewest, RecordIsOld, AwaitedIsOld, PendingIsNewest, NoPublication

(* The numbers that the invariant compares.                                *)
LEMMA Numbers ==
  ASSUME TypeOK
  PROVE  /\ persisted \in Nat /\ ticked \in Nat /\ pending \in Nat /\ MaxTs \in Nat
         /\ published.observation \in 0..MaxTs /\ published.publishedObservation \in 0..MaxTs
         /\ worker.pc = "await" => worker.result \in 1..MaxTs
BY BoundAssumption DEF TypeOK, Publication, Worker

(* Of a row of the delivery record.                                        *)
LEMMA Rows ==
  ASSUME published \in Publication, NEW result \in Ts, NEW status \in Status
  PROVE  /\ Recorded(status, result) \in Publication
         /\ Recorded(status, result).status = status
         /\ Recorded(status, result).observation = result
         /\ Recorded(status, result).publishedObservation = published.publishedObservation
         /\ RecordedSuccess(status, result) \in Publication
         /\ RecordedSuccess(status, result).status = status
         /\ RecordedSuccess(status, result).observation = result
         /\ RecordedSuccess(status, result).publishedObservation = result
BY DEF Recorded, RecordedSuccess, Publication

(* Taking the pending result, or waiting, from a record row that is in     *)
(* order: the result leaves the slot, and is attempted on record.          *)
LEMMA Takes ==
  ASSUME IInv, NEW row \in Publication, TakeOrWait(row), UNCHANGED <<persisted, ticked>>,
         row.observation <= persisted, row.publishedObservation <= persisted,
         ticked # None => row.observation < ticked /\ row.publishedObservation < ticked,
         pending # None => pending > row.publishedObservation
  PROVE  /\ worker' \in Worker /\ pending' = None /\ published' \in Publication
         /\ RecordIsOld' /\ AwaitedIsOld'
<1>1. CASE pending = None
  BY <1>1 DEF TakeOrWait, At, Worker, RecordIsOld, AwaitedIsOld, IInv
<1>2. CASE pending # None
  <2>1. pending \in Ts /\ pending <= persisted /\ (ticked # None => pending < ticked)
    BY <1>2 DEF IInv, TypeOK, PendingIsNewest
  <2>2. /\ worker' = [pc |-> "await", result |-> pending] /\ pending' = None
        /\ published' = [row EXCEPT !.status = "attempting", !.observation = pending]
    BY <1>2 DEF TakeOrWait
  <2>3. /\ published' \in Publication /\ published'.observation = pending
        /\ published'.publishedObservation = row.publishedObservation
    BY <2>1, <2>2 DEF Publication, Status
  <2>4. worker' \in Worker /\ worker'.result = pending
    BY <2>1, <2>2 DEF Worker
  <2> QED
    BY <1>2, <2>1, <2>2, <2>3, <2>4 DEF RecordIsOld, AwaitedIsOld
<1> QED
  BY <1>1, <1>2

(* An outcome of the awaited call keeps the order.                         *)
LEMMA Outcomes ==
  ASSUME IInv, worker.pc = "await", NEW row \in Outcome(worker.result)
  PROVE  /\ row \in Publication
         /\ row.status # "attempting"
         /\ row.observation = worker.result
         /\ row.publishedObservation \in {published.publishedObservation, worker.result}
         /\ row.observation <= persisted /\ row.publishedObservation <= persisted
         /\ row.publishedObservation >= published.publishedObservation
         /\ ticked # None => row.observation < ticked /\ row.publishedObservation < ticked
         /\ pending # None => pending > row.publishedObservation /\ pending > row.observation
<1>1. worker.result \in Ts /\ published \in Publication /\ worker.result <= persisted
  BY Numbers DEF IInv, TypeOK, AwaitedIsOld
<1>2. /\ row \in Publication /\ row.observation = worker.result /\ row.status # "attempting"
      /\ row.publishedObservation \in {published.publishedObservation, worker.result}
  BY <1>1, Rows DEF Outcome, Success, Status
<1> QED
  BY <1>1, <1>2, Numbers
  DEF IInv, AwaitedIsOld, RecordIsOld, PendingIsNewest, Beyond

LEMMA LoopSteps ==
  ASSUME IInv, TickPersists \/ HandOverNothing \/ HandOverRaises
  PROVE  IInv'
<1>1. TypeOK'
  BY Numbers DEF IInv, TypeOK, TickPersists, HandOverNothing, HandOverRaises, taskVars
<1> QED
  BY <1>1, Numbers DEF TickPersists, HandOverNothing, HandOverRaises, taskVars, IInv,
     TickedIsNewest, RecordIsOld, AwaitedIsOld, PendingIsNewest, Beyond

LEMMA HandOverStep == IInv /\ HandOver => IInv'
<1> SUFFICES ASSUME IInv, HandOver PROVE IInv'
  OBVIOUS
<1>1. /\ ticked # None /\ ticked \in Ts /\ ticked = persisted /\ ticked' = None
      /\ UNCHANGED <<persisted, published, loop, stopping, worker, stopRequested>>
  BY DEF HandOver, Enqueue, IInv, TypeOK, TickedIsNewest
<1>2. pending' = ticked
  BY <1>1, Numbers DEF HandOver, Enqueue, IInv, PendingIsNewest
<1>3. TypeOK'
  BY <1>1, <1>2 DEF HandOver, Enqueue, IInv, TypeOK
<1> QED
  BY <1>1, <1>2, <1>3, Numbers
  DEF IInv, TickedIsNewest, RecordIsOld, AwaitedIsOld, PendingIsNewest, Beyond

LEMMA BlockedStep == IInv /\ HandOverBlocked => IInv'
<1> SUFFICES ASSUME IInv, HandOverBlocked PROVE IInv'
  OBVIOUS
<1>1. /\ ticked \in Ts /\ ticked = persisted /\ ticked' = None
      /\ UNCHANGED <<persisted, taskVars>>
  BY DEF HandOverBlocked, IInv, TypeOK, TickedIsNewest
<1>2. /\ published' \in Publication /\ published'.status = "blocked"
      /\ published'.observation = ticked
      /\ published'.publishedObservation = published.publishedObservation
  BY <1>1, Rows DEF HandOverBlocked, IInv, TypeOK, Status
<1>3. TypeOK'
  BY <1>1, <1>2 DEF IInv, TypeOK, taskVars
<1> QED
  BY <1>1, <1>2, <1>3, Numbers
  DEF taskVars, IInv, TickedIsNewest, RecordIsOld, AwaitedIsOld, PendingIsNewest, Beyond

LEMMA WakesStep == IInv /\ WorkerWakes => IInv'
<1> SUFFICES ASSUME IInv, WorkerWakes PROVE IInv'
  OBVIOUS
<1>1. UNCHANGED <<persisted, ticked, loop, stopping, stopRequested>> /\ wakeup' = "clear"
  BY DEF WorkerWakes
<1>2. CASE stopRequested
  <2>1. worker' = [pc |-> "returned"] /\ UNCHANGED <<pending, published>>
    BY <1>2 DEF WorkerWakes, At
  <2> QED
    BY <1>1, <2>1 DEF IInv, TypeOK, Worker, TickedIsNewest, RecordIsOld, AwaitedIsOld,
       PendingIsNewest, Beyond
<1>3. CASE ~stopRequested
  <2>1. TakeOrWait(published) /\ published \in Publication
    BY <1>3 DEF WorkerWakes, IInv, TypeOK
  <2>2. /\ worker' \in Worker /\ pending' = None /\ published' \in Publication
        /\ RecordIsOld' /\ AwaitedIsOld'
    BY <1>1, <2>1, Takes DEF IInv, RecordIsOld, Beyond
  <2> QED
    BY <1>1, <2>2 DEF IInv, TypeOK, TickedIsNewest, PendingIsNewest
<1> QED
  BY <1>2, <1>3

LEMMA ResumesStep == IInv /\ WorkerResumes => IInv'
<1> SUFFICES ASSUME IInv, WorkerResumes PROVE IInv'
  OBVIOUS
<1>1. UNCHANGED <<persisted, ticked, loop, stopping, wakeup, stopRequested>> /\ worker.pc = "await"
  BY DEF WorkerResumes
<1>2. PICK row \in Outcome(worker.result) :
        IF stopRequested
          THEN worker' = At("returned") /\ published' = row /\ pending' = None
          ELSE TakeOrWait(row)
  BY DEF WorkerResumes
<1>3. /\ row \in Publication
      /\ row.observation <= persisted /\ row.publishedObservation <= persisted
      /\ ticked # None => row.observation < ticked /\ row.publishedObservation < ticked
      /\ pending # None => pending > row.publishedObservation
  BY <1>1, Outcomes
<1>4. /\ worker' \in Worker /\ pending' = None /\ published' \in Publication
      /\ RecordIsOld' /\ AwaitedIsOld'
  <2>1. CASE stopRequested
    BY <1>1, <1>2, <1>3, <2>1 DEF At, Worker, RecordIsOld, AwaitedIsOld
  <2>2. CASE ~stopRequested
    BY <1>1, <1>2, <1>3, <2>2, Takes
  <2> QED
    BY <2>1, <2>2
<1> QED
  BY <1>1, <1>4 DEF IInv, TypeOK, TickedIsNewest, PendingIsNewest

LEMMA RaisingStep ==
  ASSUME IInv, WorkerWakesRaising \/ WorkerResumesRaising
  PROVE  IInv'
<1>1. /\ worker' = [pc |-> "dead"]
      /\ UNCHANGED <<persisted, ticked, loop, stopping, stopRequested>>
      /\ wakeup' \in {wakeup, "clear"}
  BY DEF WorkerWakesRaising, WorkerResumesRaising, At
<1>2. CASE published' = published /\ pending' \in {pending, None}
  BY <1>1, <1>2 DEF IInv, TypeOK, Worker, TickedIsNewest, RecordIsOld, AwaitedIsOld, PendingIsNewest,
     Beyond
<1>3. CASE worker.pc = "await" /\ published' \in Outcome(worker.result) /\ pending' = None
  <2>1. published' \in Publication /\ RecordIsOld'
    BY <1>1, <1>3, Outcomes DEF RecordIsOld
  <2> QED
    BY <1>1, <1>3, <2>1 DEF IInv, TypeOK, Worker, TickedIsNewest, AwaitedIsOld, PendingIsNewest
<1> QED
  BY <1>2, <1>3 DEF WorkerWakesRaising, WorkerResumesRaising

(* start(), stop() and a crash never add a result.                         *)
LEMMA LifecycleStep ==
  ASSUME IInv, Start \/ StopLoop \/ StopWorker \/ StopJoins \/ StopTimesOut \/ Crash
  PROVE  IInv'
<1>1. UNCHANGED <<persisted, published>> /\ pending' \in {pending, None} /\ ticked' \in {ticked, None}
  BY DEF Start, StopLoop, StopWorker, StopJoins, StopTimesOut, Crash
<1>2. worker' \in {worker, [pc |-> "none"], [pc |-> "wait"]}
  BY DEF Start, StopLoop, StopWorker, StopJoins, StopTimesOut, Crash, At
<1>3. /\ loop' \in {loop, "none", "up"} /\ stopping' \in {stopping, "idle", "loop", "worker"}
      /\ wakeup' \in {wakeup, "none", "clear", "set"}
      /\ stopRequested' \in {stopRequested, TRUE, FALSE}
  BY DEF Start, StopLoop, StopWorker, StopJoins, StopTimesOut, Crash
<1>4. TypeOK'
  <2>1. [pc |-> "none"] \in Worker /\ [pc |-> "wait"] \in Worker
    BY DEF Worker
  <2>2. worker' \in Worker
    BY <1>2, <2>1 DEF IInv, TypeOK
  <2>3. stopRequested' \in BOOLEAN
    BY <1>3, Zenon DEF IInv, TypeOK
  <2>4. /\ loop' \in {"none", "up", "dead"} /\ stopping' \in {"idle", "loop", "worker"}
        /\ wakeup' \in {"none", "clear", "set"}
    BY <1>3 DEF IInv, TypeOK
  <2> QED
    BY <1>1, <2>2, <2>3, <2>4 DEF IInv, TypeOK
<1> QED
  BY <1>1, <1>2, <1>4 DEF IInv, TickedIsNewest, RecordIsOld, AwaitedIsOld, PendingIsNewest, Beyond

LEMMA Inductive == IInv /\ [Next]_vars => IInv'
<1>1. IInv /\ UNCHANGED vars => IInv'
  BY DEF vars, taskVars, IInv, TypeOK, TickedIsNewest, RecordIsOld, AwaitedIsOld, PendingIsNewest,
     Beyond
<1> QED
  BY <1>1, LoopSteps, HandOverStep, BlockedStep, WakesStep, ResumesStep, RaisingStep, LifecycleStep
  DEF Next

LEMMA Invariance == Spec => []IInv
BY InitInvariant, Inductive, PTL DEF Spec

(* The scheduler's tasks, slot, event and delivery record keep their types.*)
THEOREM TypeCorrect == Spec => []TypeOK
BY Invariance, PTL DEF IInv

(* Coalescing: what is pending is newer than what is being delivered, and  *)
(* whatever the loop hands over later is newer still.                      *)
THEOREM NewestIsPending == Spec => []PendingIsNewest
BY Invariance, PTL DEF IInv

-----------------------------------------------------------------------------
(* The delivery record.                                                    *)

(* A step that moves delivery forward.                                     *)
Forward ==
  /\ (published'.status = "attempting" /\ published' # published) =>
       /\ published'.observation > published.publishedObservation
       /\ published.status # "blocked" => published'.observation > published.observation
  /\ published'.publishedObservation >= published.publishedObservation

(* An attempt replaces a record row of an older observation.               *)
LEMMA TakeMovesForward ==
  ASSUME IInv, NEW row \in Publication, TakeOrWait(row),
         row.publishedObservation >= published.publishedObservation,
         row # published => row.status # "attempting"
  PROVE  Forward
<1>1. CASE pending = None
  BY <1>1 DEF TakeOrWait, Forward
<1>2. CASE pending # None
  <2>1. pending \in Ts /\ Beyond(pending)
    BY <1>2 DEF IInv, TypeOK
  <2>2. /\ published'.observation = pending
        /\ published'.publishedObservation = row.publishedObservation
    BY <1>2 DEF TakeOrWait, Publication
  <2> QED
    BY <2>1, <2>2 DEF Beyond, Forward
<1> QED
  BY <1>1, <1>2

LEMMA OutcomeMovesForward ==
  ASSUME IInv, worker.pc = "await", NEW row \in Outcome(worker.result), published' = row
  PROVE  Forward
BY Outcomes DEF Forward

LEMMA ForwardStep == IInv /\ [Next]_vars => [Forward]_vars
<1> SUFFICES ASSUME IInv, Next PROVE Forward
  BY DEF vars
<1>1. CASE UNCHANGED published
  BY <1>1, Numbers DEF Forward, IInv
<1>2. CASE HandOverBlocked
  <2>1. /\ published'.status = "blocked"
        /\ published'.publishedObservation = published.publishedObservation
    BY <1>2, Rows DEF HandOverBlocked, IInv, TypeOK, Status
  <2> QED
    BY <2>1, Numbers DEF Forward, IInv
<1>3. CASE WorkerWakes
  <2>1. CASE stopRequested
    BY <1>3, <2>1, <1>1 DEF WorkerWakes
  <2>2. CASE ~stopRequested
    <3>1. TakeOrWait(published) /\ published \in Publication
      BY <1>3, <2>2 DEF WorkerWakes, IInv, TypeOK
    <3> QED
      BY <3>1, TakeMovesForward, Numbers DEF IInv
  <2> QED
    BY <2>1, <2>2
<1>4. CASE WorkerResumes
  <2>1. PICK row \in Outcome(worker.result) :
          IF stopRequested
            THEN worker' = At("returned") /\ published' = row /\ pending' = None
            ELSE TakeOrWait(row)
    BY <1>4 DEF WorkerResumes
  <2>2. worker.pc = "await"
    BY <1>4 DEF WorkerResumes
  <2>3. CASE stopRequested
    BY <2>1, <2>2, <2>3, OutcomeMovesForward
  <2>4. CASE ~stopRequested
    BY <2>1, <2>2, <2>4, Outcomes, TakeMovesForward
  <2> QED
    BY <2>3, <2>4
<1>5. CASE WorkerResumesRaising
  BY <1>5, <1>1, OutcomeMovesForward DEF WorkerResumesRaising
<1> QED
  BY <1>1, <1>2, <1>3, <1>4, <1>5
  DEF Next, TickPersists, HandOver, HandOverNothing, HandOverRaises, WorkerWakesRaising,
      Start, StopLoop, StopWorker, StopJoins, StopTimesOut, Crash

(* Delivery goes forward only: an attempt is of a later observation than   *)
(* the last published one and than the attempt before, a blocked record    *)
(* aside, and the last published observation is never set back, however    *)
(* failing writes, stops and crashes interleave.                           *)
THEOREM ForwardOnly == Spec => DeliveryMovesForward
<1>1. Spec => [][Forward]_vars
  BY Invariance, ForwardStep, PTL DEF Spec
<1> QED
  BY <1>1 DEF DeliveryMovesForward, Forward

-----------------------------------------------------------------------------
(* Valuation and delivery as a reader of the store sees them: two numbers  *)
(* that only move forward, one step at a time, the second behind the first.*)
(* It is the register that the control plane implements too.               *)

Observed ==
  [k \in {"valued", "published"} |->
     IF k = "valued" THEN persisted ELSE published.publishedObservation]

Record == INSTANCE ObservationRegister WITH Pair <- {"valued", "published"}, newest <- Observed

LEMMA RecordStep == ASSUME IInv, [Next]_vars PROVE [Record!Next]_Observed
<1>1. /\ persisted \in Nat /\ published.publishedObservation \in Nat
      /\ Observed = [k \in {"valued", "published"} |-> Observed[k]]
      /\ Observed["valued"] = persisted
      /\ Observed["published"] = published.publishedObservation
  BY Numbers DEF IInv, Observed
<1>2. /\ Observed' = [k \in {"valued", "published"} |-> Observed'[k]]
      /\ Observed'["valued"] = persisted'
      /\ Observed'["published"] = published'.publishedObservation
  BY DEF Observed
<1>3. CASE TickPersists
  <2>1. persisted' \in Nat /\ persisted' > persisted /\ UNCHANGED published
    BY <1>1, <1>3 DEF TickPersists
  <2>2. Observed' = [Observed EXCEPT !["valued"] = Observed'["valued"]]
    BY <1>1, <1>2, <2>1
  <2>. QED
    BY <1>1, <1>2, <2>1, <2>2 DEF Record!Next, Record!Advance
<1>4. CASE UNCHANGED persisted
  <2>1. Forward \/ UNCHANGED published
    BY ForwardStep DEF vars
  <2>2. published'.publishedObservation >= published.publishedObservation
    BY <1>1, <2>1 DEF Forward
  <2>3. published'.publishedObservation \in Nat
    <3>1. TypeOK'
      BY Inductive DEF IInv
    <3>. QED
      BY <3>1, BoundAssumption DEF TypeOK, Publication
  <2>4. Observed' = [Observed EXCEPT !["published"] = Observed'["published"]]
    BY <1>1, <1>2, <1>4
  <2>5. CASE published'.publishedObservation = published.publishedObservation
    BY <1>1, <1>2, <1>4, <2>5
  <2>6. CASE published'.publishedObservation > published.publishedObservation
    BY <1>1, <1>2, <2>3, <2>4, <2>6 DEF Record!Next, Record!Advance
  <2>. QED
    BY <1>1, <2>2, <2>3, <2>5, <2>6
<1>5. TickPersists \/ UNCHANGED persisted
  BY DEF Next, HandOver, HandOverBlocked, HandOverNothing, HandOverRaises, WorkerWakes,
     WorkerResumes, WorkerWakesRaising, WorkerResumesRaising, Start, StopLoop, StopWorker,
     StopJoins, StopTimesOut, Crash, vars
<1>. QED
  BY <1>3, <1>4, <1>5

(* A restart, a crash, a stop or a failing write sets neither back, and    *)
(* nothing is ever recorded as published that was not valued before.       *)
THEOREM DeliveryTrailsValuation ==
  Spec => Record!Spec /\ [](published.publishedObservation <= persisted)
<1>1. Init => Record!Init
  BY DEF Init, Record!Init, Observed, NoPublication
<1>2. IInv /\ [Next]_vars => [Record!Next]_Observed
  BY RecordStep
<1>3. IInv => published.publishedObservation <= persisted
  BY DEF IInv, RecordIsOld
<1>. QED
  BY <1>1, <1>2, <1>3, Invariance, PTL DEF Spec, Record!Spec
=============================================================================
