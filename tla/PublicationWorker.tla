-------------------------- MODULE PublicationWorker --------------------------
(***************************************************************************)
(* Delivery of warmed results by one LiveScheduler (scheduler.py): the     *)
(* scheduler loop hands each new result over, a publication worker takes   *)
(* the newest one and calls the publisher on a thread, and start() and     *)
(* stop() bring both tasks up and down.  The delivery status goes to       *)
(* publication_state (runtime_store.py).                                   *)
(*                                                                         *)
(* The tasks share one asyncio event loop: what runs between two awaits is *)
(* one atomic step.  The publisher's thread does not, and it cannot be     *)
(* cancelled.  A result is named by its observation timestamp; what the    *)
(* publisher does with it is a choice here, and the Publisher module       *)
(* there.                                                                  *)
(***************************************************************************)
EXTENDS Integers

CONSTANTS
  MaxTs,        \* bound on the observations produced
  StoreFaults,  \* whether a SQLite write may raise
  Stops,        \* whether stop() may be called
  Crashes       \* whether the process may be killed

ASSUME BoundAssumption == MaxTs \in Nat
ASSUME EnvironmentAssumption ==
  StoreFaults \in BOOLEAN /\ Stops \in BOOLEAN /\ Crashes \in BOOLEAN

VARIABLES
  persisted,      \* timestamp of the latest result in runtime_state
  ticked,         \* a success the loop still has to hand over, or None
  loop,           \* _task: "none", "up", or "dead" after an exception
  stopping,       \* where stop() is: "idle", "loop", "worker"
  worker,         \* _publication_task and where it is
  wakeup,         \* _publication_wakeup: "none", "clear", "set"
  stopRequested,  \* _publication_stop_requested
  pending,        \* _pending_publication
  published       \* the asset's publication_state row

taskVars == <<loop, stopping, worker, wakeup, stopRequested, pending>>
vars == <<persisted, ticked, loop, stopping, worker, wakeup, stopRequested, pending,
          published>>

-----------------------------------------------------------------------------
Ts   == 1..MaxTs
None == 0

(* Where the worker's coroutine is suspended, and the result it awaits.    *)
Worker == [pc : {"none", "wait", "returned", "dead"}] \cup [pc : {"await"}, result : Ts]

At(pc) == [pc |-> pc]

Success == {"published", "already_published"}
Status  == {"none", "attempting", "failed", "blocked"} \cup Success

NoPublication == [status |-> "none", observation |-> None, publishedObservation |-> None]

Publication == [status : Status, observation : Ts \cup {None},
                publishedObservation : Ts \cup {None}]

Init ==
  /\ persisted = None
  /\ ticked = None
  /\ loop = "none"
  /\ stopping = "idle"
  /\ worker = At("none")
  /\ wakeup = "none"
  /\ stopRequested = FALSE
  /\ pending = None
  /\ published = NoPublication

-----------------------------------------------------------------------------
(* publication_state (runtime_store.py).  Each write replaces the status,  *)
(* the error and the attempted observation; only a success replaces what   *)
(* was last published.                                                     *)

(* Mutant: a failure also clears what was last published.                  *)
RecordedClearing(status, result) ==
  [status |-> status, observation |-> result, publishedObservation |-> None]

(* record_publication_attempt, _failure and _blocked_semantic_mismatch     *)
Recorded(status, result) ==
  [published EXCEPT !.status = status, !.observation = result]

(* record_publication_success                                              *)
RecordedSuccess(status, result) ==
  [status |-> status, observation |-> result, publishedObservation |-> result]

(* Every write of the row may raise instead.                               *)
WriteRaises == StoreFaults

-----------------------------------------------------------------------------
(* The scheduler loop.                                                     *)

(* The tick's thread has committed a new success.                          *)
TickPersists ==
  /\ loop = "up"
  /\ ticked = None
  /\ persisted < MaxTs
  /\ persisted' = persisted + 1
  /\ ticked' = persisted'
  /\ UNCHANGED <<taskVars, published>>

(* Mutant: the worker is not woken.                                        *)
EnqueueSilently(result) ==
  /\ pending' = result
  /\ UNCHANGED <<loop, stopping, worker, stopRequested, wakeup>>

(* _publish_if_enabled, after the compatibility check: a newer result      *)
(* supersedes the pending one and the worker is woken.                     *)
Enqueue(result) ==
  /\ IF pending = None \/ result > pending
       THEN /\ pending' = result
            /\ wakeup' = IF wakeup # "none" THEN "set" ELSE wakeup
       ELSE UNCHANGED <<pending, wakeup>>
  /\ UNCHANGED <<loop, stopping, worker, stopRequested>>

(* The result is compatible with the deployed binding, or the check could  *)
(* not be made because the publisher is not configured.                    *)
HandOver ==
  /\ loop = "up"
  /\ ticked # None
  /\ Enqueue(ticked)
  /\ ticked' = None
  /\ UNCHANGED <<persisted, published>>

(* Auto-publication is off or the asset has no on-chain binding.           *)
HandOverNothing ==
  /\ loop = "up"
  /\ ticked # None
  /\ ticked' = None
  /\ UNCHANGED <<persisted, taskVars, published>>

(* PublicationSemanticMismatchError: recorded, never queued.               *)
HandOverBlocked ==
  /\ loop = "up"
  /\ ticked # None
  /\ published' = Recorded("blocked", ticked)
  /\ ticked' = None
  /\ UNCHANGED <<persisted, taskVars>>

(* That record is written inside the loop's own task.                      *)
HandOverRaises ==
  /\ WriteRaises
  /\ loop = "up"
  /\ ticked # None
  /\ loop' = "dead"
  /\ ticked' = None
  /\ UNCHANGED <<persisted, stopping, worker, wakeup, stopRequested, pending, published>>

-----------------------------------------------------------------------------
(* _publication_worker and _publish_one.                                   *)

(* Mutant: the slot is not emptied when its result is taken.               *)
TakeOrWaitKeeping(row) ==
  /\ worker' = IF pending = None THEN At("wait") ELSE [pc |-> "await", result |-> pending]
  /\ published' = IF pending = None THEN row
                  ELSE [row EXCEPT !.status = "attempting", !.observation = pending]
  /\ UNCHANGED pending

(* The inner loop: take the newest pending result and record the attempt   *)
(* before the thread starts, or go back to waiting for the event.          *)
TakeOrWait(row) ==
  IF pending = None
    THEN /\ worker' = At("wait")
         /\ published' = row
         /\ UNCHANGED pending
    ELSE /\ worker' = [pc |-> "await", result |-> pending]
         /\ published' = [row EXCEPT !.status = "attempting", !.observation = pending]
         /\ pending' = None

(* Mutant: the event is cleared once the queue has been served.            *)
WorkerWakesWithoutLooking ==
  /\ worker.pc = "wait"
  /\ wakeup = "set"
  /\ wakeup' = "clear"
  /\ worker' = IF stopRequested THEN At("returned") ELSE At("wait")
  /\ UNCHANGED <<persisted, ticked, loop, stopping, stopRequested, pending, published>>

WorkerWakes ==
  /\ worker.pc = "wait"
  /\ wakeup = "set"
  /\ wakeup' = "clear"
  /\ IF stopRequested
       THEN worker' = At("returned") /\ UNCHANGED <<pending, published>>
       ELSE TakeOrWait(published)
  /\ UNCHANGED <<persisted, ticked, loop, stopping, stopRequested>>

(* record_publication_attempt raises: the worker's task ends.              *)
WorkerWakesRaising ==
  /\ WriteRaises
  /\ worker.pc = "wait"
  /\ wakeup = "set"
  /\ ~stopRequested
  /\ pending # None
  /\ worker' = At("dead")
  /\ wakeup' = "clear"
  /\ pending' = None
  /\ UNCHANGED <<persisted, ticked, loop, stopping, stopRequested, published>>

(* Mutants: an outcome the readers of the row do not know; a failure that  *)
(* is only logged.                                                         *)
OutcomeUnknown(result) == {Recorded("timeout", result), RecordedSuccess("published", result)}

OutcomeUnrecorded(result) == {published, RecordedSuccess("published", result)}

(* The row after the publisher's call for the awaited result came back.    *)
Outcome(result) ==
  {RecordedSuccess(status, result) : status \in Success}
    \cup {Recorded(status, result) : status \in {"failed", "blocked"}}

(* The thread finished and the awaiting worker resumes; a stop that came   *)
(* meanwhile ends it, otherwise it goes on with what is pending now.       *)
WorkerResumes ==
  /\ worker.pc = "await"
  /\ \E row \in Outcome(worker.result) :
       IF stopRequested
         THEN /\ worker' = At("returned")
              /\ published' = row
              /\ pending' = None
         ELSE TakeOrWait(row)
  /\ UNCHANGED <<persisted, ticked, loop, stopping, wakeup, stopRequested>>

(* Recording the outcome, or the next attempt, raises.                     *)
WorkerResumesRaising ==
  /\ WriteRaises
  /\ worker.pc = "await"
  /\ worker' = At("dead")
  /\ \/ UNCHANGED <<pending, published>>
     \/ /\ ~stopRequested
        /\ pending # None
        /\ published' \in Outcome(worker.result)
        /\ pending' = None
  /\ UNCHANGED <<persisted, ticked, loop, stopping, wakeup, stopRequested>>

-----------------------------------------------------------------------------
(* start() and stop().                                                     *)

Start ==
  /\ stopping = "idle"
  /\ loop = "none"
  /\ worker = At("none")
  /\ stopRequested' = FALSE
  /\ wakeup' = IF pending # None THEN "set" ELSE "clear"
  /\ worker' = At("wait")
  /\ loop' = "up"
  /\ UNCHANGED <<persisted, ticked, stopping, pending, published>>

(* The loop's task is cancelled and awaited; a result it had not handed    *)
(* over is gone.  A task that had already died raises its exception here,  *)
(* out of stop().                                                          *)
StopLoop ==
  /\ Stops
  /\ stopping = "idle"
  /\ loop # "none" \/ worker # At("none")
  /\ loop' = "none"
  /\ ticked' = None
  /\ stopping' = IF loop = "dead" THEN "idle" ELSE "loop"
  /\ UNCHANGED <<persisted, worker, wakeup, stopRequested, pending, published>>

StopWorker ==
  /\ stopping = "loop"
  /\ stopRequested' = TRUE
  /\ pending' = None
  /\ wakeup' = IF wakeup # "none" THEN "set" ELSE wakeup
  /\ stopping' = "worker"
  /\ UNCHANGED <<persisted, ticked, loop, worker, published>>

(* The worker returned in time, or had died before.                        *)
StopJoins ==
  /\ stopping = "worker"
  /\ worker.pc \in {"none", "returned", "dead"}
  /\ worker' = At("none")
  /\ wakeup' = "none"
  /\ stopping' = "idle"
  /\ UNCHANGED <<persisted, ticked, loop, stopRequested, pending, published>>

(* Mutant: stop() waits for the worker without a timeout.                  *)
StopNeverTimesOut == FALSE /\ UNCHANGED vars

(* The shutdown timeout: the await is cancelled, the thread goes on.       *)
StopTimesOut ==
  /\ stopping = "worker"
  /\ worker.pc = "await"
  /\ worker' = At("none")
  /\ wakeup' = "none"
  /\ stopping' = "idle"
  /\ UNCHANGED <<persisted, ticked, loop, stopRequested, pending, published>>

Crash ==
  /\ Crashes
  /\ loop' = "none" /\ worker' = At("none") /\ stopping' = "idle"
  /\ wakeup' = "none" /\ stopRequested' = FALSE /\ pending' = None
  /\ ticked' = None
  /\ UNCHANGED <<persisted, published>>

Next ==
  \/ TickPersists \/ HandOver \/ HandOverNothing \/ HandOverBlocked \/ HandOverRaises
  \/ WorkerWakes \/ WorkerWakesRaising \/ WorkerResumes \/ WorkerResumesRaising
  \/ Start \/ StopLoop \/ StopWorker \/ StopJoins \/ StopTimesOut \/ Crash

Spec == Init /\ [][Next]_vars

(* The event loop runs whatever is ready.                                  *)
EventLoop ==
  /\ WF_vars(HandOver \/ HandOverNothing \/ HandOverBlocked)
  /\ WF_vars(WorkerWakes)
  /\ WF_vars(StopWorker) /\ WF_vars(StopJoins) /\ WF_vars(StopTimesOut)

(* The publisher's thread may hang for ever.                               *)
LiveSpec == Spec /\ EventLoop

(* publisher.publish bounds each of its waits (Publisher, CallEnds), so    *)
(* that its thread finishes.  An assumption of what depends on it, not of  *)
(* the specification: stop() must not rely on it.                          *)
PublisherReturns == WF_vars(WorkerResumes \/ WorkerResumesRaising)

-----------------------------------------------------------------------------
(* Properties                                                              *)

TypeOK ==
  /\ persisted \in Ts \cup {None}
  /\ ticked \in Ts \cup {None}
  /\ loop \in {"none", "up", "dead"}
  /\ stopping \in {"idle", "loop", "worker"}
  /\ worker \in Worker
  /\ wakeup \in {"none", "clear", "set"}
  /\ stopRequested \in BOOLEAN
  /\ pending \in Ts \cup {None}
  /\ published \in Publication

(* No lost wake-up: a worker that waits on a clear event has nothing to    *)
(* do.  The pending slot and the event are two variables that the loop,    *)
(* the worker, start() and stop() all write between awaits.                *)
NoLostWakeup == worker.pc = "wait" /\ wakeup = "clear" => pending = None /\ ~stopRequested

(* Coalescing never leaves an older result behind a newer one: what is     *)
(* pending is newer than what is being delivered, and whatever is handed   *)
(* over later is newer still.                                              *)
PendingIsNewest ==
  /\ worker.pc = "await" /\ pending # None => pending > worker.result
  /\ pending # None => pending <= persisted /\ (ticked # None => pending < ticked)

(* Delivery goes forward only: an attempt is of a later observation than   *)
(* the last published one and, unless a blocked one was recorded over it,  *)
(* than the attempt before; and what was last published is never forgotten *)
(* or set back, however attempts, failures, stops and crashes interleave.  *)
DeliveryMovesForward ==
  [][/\ (published'.status = "attempting" /\ published' # published) =>
          /\ published'.observation > published.publishedObservation
          /\ published.status # "blocked" => published'.observation > published.observation
     /\ published'.publishedObservation >= published.publishedObservation]_vars

(* The application is shut down, restarted or has crashed, or a raising    *)
(* write of the store has ended the worker's task.                         *)
Interrupted == stopping # "idle" \/ worker.pc \in {"none", "returned", "dead"}

(* When the publisher returns, a result that was handed over is attempted, *)
(* or superseded by a newer one that is, unless the worker is interrupted; *)
(* that the loop's own task has died does not matter.                      *)
HandedOverIsAttempted ==
  PublisherReturns =>
    \A t \in Ts : (pending = t) ~> (published.observation >= t \/ Interrupted)

(* When the publisher returns, the result the worker awaits gets an        *)
(* outcome on record, unless the worker is interrupted: it never goes back *)
(* to waiting for work with the attempt unresolved.                        *)
AttemptIsResolved ==
  PublisherReturns =>
    \A t \in Ts :
      (worker = [pc |-> "await", result |-> t]) ~>
        (~(published.status = "attempting" /\ published.observation = t) \/ Interrupted)

(* stop() returns even when the publisher's thread hangs.                  *)
StopReturns == stopping # "idle" ~> stopping = "idle"

(* A delivery failure does not stop the scheduler                          *)
(* (docs/DEPLOYMENT.md, "does not invalidate the warmed valuation or stop  *)
(* future scheduler ticks"; scheduler.py, "delivery must not stop          *)
(* valuation").                                                            *)
DeliveryNeverStopsValuation == loop # "dead"
=============================================================================
