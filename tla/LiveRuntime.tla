----------------------------- MODULE LiveRuntime -----------------------------
(***************************************************************************)
(* The warmed live runtime of one asset: the scheduler loop of             *)
(* scheduler.py (LiveScheduler._run), the tick it runs on a worker thread  *)
(* (run_live_tick), the SQLite rows the tick reads and writes              *)
(* (runtime_store.py), and the life of the process around them (lifespan   *)
(* of main.py, crashes and restarts).                                      *)
(*                                                                         *)
(* Each asset has its own loop and its own rows, so one asset is modelled. *)
(* Every critical section of the store's lock is one atomic step and one   *)
(* SQLite transaction; between two of them the process may crash, stop or  *)
(* see its clock change.  What the filter computes is abstracted to the    *)
(* elapsed-time steps it went through and the binding it ran under.        *)
(***************************************************************************)
EXTENDS Integers

CONSTANTS
  Identity,     \* runtime identities (data/profile/model bindings) of deployments
  NoIdentity,   \* no runtime_generation row
  Interval,     \* FIVE_MINUTES, in clock units
  Grace,        \* live_settlement_grace_seconds, in clock units
  MaxAttempts,  \* live_settlement_max_attempts
  StartTime,    \* the clock at the first boot
  MaxTime,      \* bound on the monotonic clock
  MaxSkew,      \* bound on how far the wall clock is stepped
  StoreFaults,  \* whether a SQLite write may raise
  Crashes       \* whether the process may be killed

ASSUME ClockAssumption ==
  /\ Interval \in Nat \ {0} /\ Grace \in Nat
  /\ StartTime \in Nat /\ MaxTime \in Nat /\ MaxTime >= StartTime
  /\ MaxSkew \in Nat /\ MaxSkew <= StartTime
ASSUME AttemptAssumption == MaxAttempts \in Nat \ {0}
ASSUME IdentityAssumption == NoIdentity \notin Identity
ASSUME FaultAssumption == StoreFaults \in BOOLEAN /\ Crashes \in BOOLEAN

VARIABLES
  mono,        \* the monotonic clock that sleeps are measured with
  skew,        \* wall clock minus monotonic clock
  active,      \* identity of the running process, NoIdentity while it is down
  loop,        \* LiveScheduler._run
  tick,        \* the thread that runs run_live_tick
  row,         \* runtime_state: carried state, latest result and tick status
  generation,  \* runtime_generation
  archive,     \* runtime_state_archive
  history,     \* valuation_history with its generation
  cache        \* the in-memory state_store

storeVars == <<row, generation, archive, history>>
vars == <<mono, skew, active, loop, tick, row, generation, archive, history, cache>>

-----------------------------------------------------------------------------
(* clock.py.  A bar is named by its index: bar b opens at b * Interval.     *)

Bar == Nat

Wall == mono + skew

(* The bar that is forming at t, whose open is canonical_5m_boundary(t).   *)
FormingBar(t) == t \div Interval

NextBoundary(t) == (FormingBar(t) + 1) * Interval

-----------------------------------------------------------------------------
(* A carried state with the result it was saved with: the bar they are of, *)
(* the trusted anchor the filter was started from, the process-noise steps *)
(* it has taken since, and the identity it was computed under.             *)
Data == [ts : Bar, since : Bar, steps : Nat, id : Identity]

NoData == [steps |-> 0]

NoRow == [status |-> "none", gap |-> 0, data |-> NoData]

Row == [status : {"none", "success", "failure", "already_processed"}, gap : Nat,
        data : Data \cup {NoData}]

NoTick == [pc |-> "idle"]

(* record is what the tick loaded, data what it will save, gap its hidden  *)
(* steps, attempt the settlement attempts made.                            *)
Tick == [pc : {"load", "already", "fetch", "save", "cache", "fail"}, ts : Bar,
         attempt : 0..MaxAttempts, record : Data \cup {NoData},
         data : Data \cup {NoData}, gap : Nat]

Done == [pc : {"done"}, ts : Bar, status : {"success", "failure", "already_processed"}]

Loop == [pc : {"off", "run", "dead"}] \cup [pc : {"sleep", "tick"}, ts : Bar, wakeAt : Nat]

Off == [pc |-> "off"]
Running == [pc |-> "run"]

Init ==
  /\ mono = StartTime
  /\ skew = 0
  /\ active = NoIdentity
  /\ loop = Off
  /\ tick = NoTick
  /\ row = NoRow
  /\ generation = NoIdentity
  /\ archive = {}
  /\ history = {}
  /\ cache = NoData

-----------------------------------------------------------------------------
(* runtime_store.py, as operators on the stored rows.                      *)

(* Mutant: the row is resumed whatever identity it was written under.      *)
LoadRuntimeUnverified(identity) == row.data

(* load_runtime with an expected identity: a row of another generation is  *)
(* neither parsed nor resumed.                                             *)
LoadRuntime(identity) ==
  IF generation = identity THEN row.data ELSE NoData

(* Mutant: nothing is archived.                                            *)
SupersededForgotten(identity) == {}

(* _save_runtime_locked archives the row before another identity takes its *)
(* slot.                                                                   *)
Superseded(identity) ==
  IF row.data # NoData /\ generation # identity
    THEN {[data |-> row.data, id |-> generation]} ELSE {}

(* Mutant: a bar behind the newest one counts as recorded.                 *)
InsertHistoryNewest(data) ==
  IF \E h \in history : h.ts >= data.ts THEN history ELSE history \cup {data}

(* INSERT ... ON CONFLICT DO NOTHING: one result per bar, the first.       *)
InsertHistory(data) ==
  IF \E h \in history : h.ts = data.ts THEN history ELSE history \cup {data}

SaveRuntimeAndHistory(data, gap, identity) ==
  /\ archive' = archive \cup Superseded(identity)
  /\ row' = [status |-> "success", gap |-> gap, data |-> data]
  /\ generation' = identity
  /\ history' = InsertHistory(data)

(* Mutant: the status always binds it.                                     *)
MayBindIdentityAlways(identity) == TRUE

(* A status may bind the identity only where no state of another identity  *)
(* would become resumable by it.                                           *)
MayBindIdentity(identity) == row.data = NoData \/ generation = identity

RecordTickStatus(status, identity) ==
  /\ row' = [status |-> status, gap |-> 0, data |-> row.data]
  /\ generation' = IF MayBindIdentity(identity) THEN identity ELSE generation
  /\ UNCHANGED <<archive, history>>

-----------------------------------------------------------------------------
(* LiveScheduler._run                                                      *)

(* Mutants: the bar that is still forming at the wake-up; the bar that had *)
(* already closed before the wait.                                         *)
PlannedForming(now) ==
  [pc |-> "sleep", ts |-> FormingBar(now) + 1,
   wakeAt |-> mono + (NextBoundary(now) - now) + Grace]

PlannedClosed(now) ==
  [pc |-> "sleep", ts |-> FormingBar(now) - 1, wakeAt |-> mono + Grace]

(* The bar is fixed from the wall clock before the wait: the one that is   *)
(* forming, to be processed once it has closed and settled.  The wait      *)
(* itself is a duration.                                                   *)
Planned(now) ==
  [pc |-> "sleep", ts |-> FormingBar(now),
   wakeAt |-> mono + (NextBoundary(now) - now) + Grace]

Schedule ==
  /\ loop.pc = "run"
  /\ loop' = Planned(Wall)
  /\ UNCHANGED <<mono, skew, active, tick, storeVars, cache>>

Wake ==
  /\ loop.pc = "sleep"
  /\ mono >= loop.wakeAt
  /\ tick = NoTick
  /\ loop' = [loop EXCEPT !.pc = "tick"]
  /\ tick' = [pc |-> "load", ts |-> loop.ts, attempt |-> 0, record |-> NoData,
              data |-> NoData, gap |-> 0]
  /\ UNCHANGED <<mono, skew, active, storeVars, cache>>

-----------------------------------------------------------------------------
(* run_live_tick                                                           *)

Goto(pc) == tick' = [tick EXCEPT !.pc = pc]

(* Mutant: a state later than the requested tick is accepted.              *)
LoadAnyOrder ==
  /\ tick.pc = "load"
  /\ LET record == LoadRuntime(active) IN
     tick' = [tick EXCEPT !.record = record,
                          !.pc = IF record # NoData /\ record.ts = tick.ts THEN "already"
                                 ELSE "fetch"]
  /\ UNCHANGED <<mono, skew, active, loop, storeVars, cache>>

Load ==
  /\ tick.pc = "load"
  /\ LET record == LoadRuntime(active) IN
     tick' = [tick EXCEPT !.record = record,
                          !.pc = IF record = NoData \/ record.ts < tick.ts THEN "fetch"
                                 ELSE IF record.ts = tick.ts THEN "already"
                                 ELSE "fail"]
  /\ UNCHANGED <<mono, skew, active, loop, storeVars, cache>>

AlreadyProcessed ==
  /\ tick.pc = "already"
  /\ RecordTickStatus("already_processed", active)
  /\ tick' = [pc |-> "done", ts |-> tick.ts, status |-> "already_processed"]
  /\ UNCHANGED <<mono, skew, active, loop, cache>>

(* Mutant: the loop runs while timestamp <= end.                           *)
HiddenStepsInclusive(from, to) == to - from

(* The hidden steps of advance_without_measurements and of the warm-up:    *)
(* every canonical timestamp strictly between the two.                     *)
HiddenSteps(from, to) == to - from - 1

(* The state after the bar ts was observed: propagated over the gap, then  *)
(* one inference step.  A cold start counts from the snapshot's anchor,    *)
(* the latest underlying bar strictly before ts.                           *)
Warmed(anchor) ==
  LET from == IF tick.record = NoData THEN anchor ELSE tick.record.ts
      gap  == HiddenSteps(from, tick.ts)
      base == IF tick.record = NoData THEN [since |-> anchor, steps |-> 0] ELSE tick.record
  IN [tick EXCEPT !.pc = "save", !.gap = gap,
                  !.data = [ts |-> tick.ts, since |-> base.since,
                            steps |-> base.steps + gap + 1, id |-> active]]

FetchSucceeds ==
  /\ tick.pc = "fetch"
  /\ \E anchor \in 0..(tick.ts - 1) : tick' = Warmed(anchor)
  /\ UNCHANGED <<mono, skew, active, loop, storeVars, cache>>

(* Mutants: the attempts have no end, or start again.                      *)
CandleMissingUncapped ==
  /\ tick.pc = "fetch"
  /\ tick' = [tick EXCEPT !.attempt = @ + 1]
  /\ UNCHANGED <<mono, skew, active, loop, storeVars, cache>>

CandleMissingRestarting ==
  /\ tick.pc = "fetch"
  /\ tick' = [tick EXCEPT !.attempt = (@ + 1) % MaxAttempts]
  /\ UNCHANGED <<mono, skew, active, loop, storeVars, cache>>

(* ExactTokenCandleUnavailable is retried, and raised by the last attempt. *)
CandleMissing ==
  /\ tick.pc = "fetch"
  /\ tick' = [tick EXCEPT !.attempt = @ + 1,
                          !.pc = IF tick.attempt + 1 = MaxAttempts THEN "fail" ELSE "fetch"]
  /\ UNCHANGED <<mono, skew, active, loop, storeVars, cache>>

(* Every other failure of the snapshot or of the inference.                *)
FetchFails ==
  /\ tick.pc = "fetch"
  /\ Goto("fail")
  /\ UNCHANGED <<mono, skew, active, loop, storeVars, cache>>

Save ==
  /\ tick.pc = "save"
  /\ SaveRuntimeAndHistory(tick.data, tick.gap, active)
  /\ Goto("cache")
  /\ UNCHANGED <<mono, skew, active, loop, cache>>

(* save_state and save_latest_result, after the transaction.               *)
SaveCache ==
  /\ tick.pc = "cache"
  /\ cache' = tick.data
  /\ tick' = [pc |-> "done", ts |-> tick.ts, status |-> "success"]
  /\ UNCHANGED <<mono, skew, active, loop, storeVars>>

(* A write that raises inside the try block is a failed tick.              *)
WriteRaises ==
  /\ StoreFaults
  /\ tick.pc \in {"already", "save"}
  /\ Goto("fail")
  /\ UNCHANGED <<mono, skew, active, loop, storeVars, cache>>

(* Mutant: the except block re-raises.                                     *)
RecordFailureReraising ==
  /\ tick.pc = "fail"
  /\ RecordTickStatus("failure", active)
  /\ tick' = NoTick
  /\ loop' = IF loop.pc = "tick" THEN [pc |-> "dead"] ELSE loop
  /\ UNCHANGED <<mono, skew, active, cache>>

RecordFailure ==
  /\ tick.pc = "fail"
  /\ RecordTickStatus("failure", active)
  /\ tick' = [pc |-> "done", ts |-> tick.ts, status |-> "failure"]
  /\ UNCHANGED <<mono, skew, active, loop, cache>>

(* The except block's own write raises: the exception leaves the thread    *)
(* and, if the loop still awaits it, ends the scheduler's task.            *)
RecordFailureRaises ==
  /\ StoreFaults
  /\ tick.pc = "fail"
  /\ tick' = NoTick
  /\ loop' = IF loop.pc = "tick" THEN [pc |-> "dead"] ELSE loop
  /\ UNCHANGED <<mono, skew, active, storeVars, cache>>

(* _process_tick resumes in the event loop and the loop goes round.        *)
TickReturns ==
  /\ tick.pc = "done"
  /\ loop.pc = "tick"
  /\ tick' = NoTick
  /\ loop' = Running
  /\ UNCHANGED <<mono, skew, active, storeVars, cache>>

-----------------------------------------------------------------------------
(* The process.                                                            *)

(* lifespan: restore the cache when the identity is verified, then start.  *)
Boot(identity) ==
  /\ active = NoIdentity
  /\ active' = identity
  /\ cache' = LoadRuntime(identity)
  /\ loop' = Running
  /\ UNCHANGED <<mono, skew, tick, storeVars>>

(* stop() cancels the loop's task; a tick already on its thread goes on.   *)
Stop ==
  /\ active # NoIdentity
  /\ loop # Off
  /\ loop' = Off
  /\ UNCHANGED <<mono, skew, active, tick, storeVars, cache>>

(* The interpreter joins the executor's threads before it exits.           *)
Exit ==
  /\ active # NoIdentity
  /\ loop = Off
  /\ tick.pc \in {"idle", "done"}
  /\ active' = NoIdentity
  /\ tick' = NoTick
  /\ cache' = NoData
  /\ UNCHANGED <<mono, skew, loop, storeVars>>

Crash ==
  /\ Crashes
  /\ active # NoIdentity
  /\ active' = NoIdentity
  /\ loop' = Off
  /\ tick' = NoTick
  /\ cache' = NoData
  /\ UNCHANGED <<mono, skew, storeVars>>

-----------------------------------------------------------------------------
(* Time.                                                                   *)

Advance ==
  /\ mono < MaxTime
  /\ mono' = mono + 1
  /\ UNCHANGED <<skew, active, loop, tick, storeVars, cache>>

(* The wall clock is stepped, forward or back.                             *)
StepClock ==
  /\ \E s \in -MaxSkew..MaxSkew : s # skew /\ skew' = s
  /\ UNCHANGED <<mono, active, loop, tick, storeVars, cache>>

TickStep == \/ Load \/ AlreadyProcessed \/ FetchSucceeds \/ CandleMissing \/ FetchFails
            \/ Save \/ SaveCache \/ RecordFailure

Next ==
  \/ Advance \/ StepClock
  \/ Schedule \/ Wake \/ TickReturns
  \/ TickStep \/ WriteRaises \/ RecordFailureRaises
  \/ \E identity \in Identity : Boot(identity)
  \/ Stop \/ Exit \/ Crash

Spec == Init /\ [][Next]_vars

(* The event loop and the worker thread run when they can: every network   *)
(* call has a timeout and the store's lock is held for one transaction.    *)
LiveSpec ==
  /\ Spec
  /\ WF_vars(Advance) /\ WF_vars(Schedule) /\ WF_vars(Wake) /\ WF_vars(TickReturns)
  /\ WF_vars(TickStep)

-----------------------------------------------------------------------------
(* Properties                                                              *)

TypeOK ==
  /\ mono \in StartTime..MaxTime
  /\ skew \in -MaxSkew..MaxSkew
  /\ active \in Identity \cup {NoIdentity}
  /\ loop \in Loop
  /\ tick \in {NoTick} \cup Tick \cup Done
  /\ row \in Row
  /\ generation \in Identity \cup {NoIdentity}
  /\ archive \subseteq [data : Data, id : Identity]
  /\ history \subseteq Data
  /\ cache \in Data \cup {NoData}

(* The generation row always names the binding that computed the stored    *)
(* state, whatever statuses, restarts and bindings came in between; it is  *)
(* the only thing load_runtime trusts before resuming the state.           *)
GenerationBindsState ==
  /\ row.data # NoData => row.data.id = generation
  /\ \A a \in archive : a.data.id = a.id

(* A state is never carried from one binding's filter into another's.      *)
NoForeignPrior ==
  /\ tick.pc \in {"fetch", "save"} /\ tick.record # NoData => tick.record.id = active
  /\ cache # NoData => cache.id = active

(* The filter's uncertainty matches the time that has really elapsed: one  *)
(* process-noise step per five-minute interval since the trusted anchor,   *)
(* none skipped or repeated over gaps, failures, restarts and retries.     *)
StepsMatchElapsedTime ==
  \A d \in {row.data} \cup {a.data : a \in archive} \cup history :
    d # NoData => d.steps = d.ts - d.since

(* However the clock is stepped, the state of a binding never goes back,   *)
(* and only a successful tick of a later bar replaces it: a failed or      *)
(* repeated one keeps the last good state and result (apps/api/README.md,  *)
(* "a failed tick preserves the last good result").                        *)
StateNeverRollsBack ==
  [][/\ row.data # NoData /\ row'.data # NoData /\ row'.data.id = row.data.id =>
          row'.data.ts >= row.data.ts
     /\ row'.data # row.data => row'.status = "success"]_vars

(* Nothing that was served is lost to an audit: recorded results are never *)
(* rewritten, and a state gives way to another binding's only into the     *)
(* archive.                                                                *)
AuditTrailKept ==
  [][/\ history \subseteq history'
     /\ archive \subseteq archive'
     /\ (row.data # NoData /\ row'.data # NoData /\ row'.data.id # row.data.id) =>
          [data |-> row.data, id |-> row.data.id] \in archive']_vars

(* The bar of the result that is served has a record, however the clock is *)
(* stepped and the binding changed.  If the record is of another result,   *)
(* an audit can tell why: the binding that recorded it first carried a     *)
(* state of that bar or a later one until it was superseded.               *)
LatestBarIsRecorded ==
  row.data # NoData =>
    \E h \in history :
      /\ h.ts = row.data.ts
      /\ h # row.data => \E a \in archive : a.id = h.id /\ a.data.ts >= h.ts

(* With a clock that is never stepped, the latest result is in the history *)
(* that the current binding serves, even right after the binding changed.  *)
HistoryHoldsLatest == row.data # NoData => row.data \in history

(* With a clock that is never stepped, a tick only asks for a bar that     *)
(* closed at least the settlement grace ago.                               *)
OnlySettledBars ==
  tick # NoTick => NextBoundary(tick.ts * Interval) + Grace <= Wall

(* A tick that started always comes back to the loop, whatever the sources *)
(* answer, unless the process stops: the loop is never stuck in it.        *)
TickComesBack == loop.pc = "tick" ~> loop.pc # "tick"

(* The scheduler keeps its cadence: a bar that was planned and whose       *)
(* wake-up comes is attempted, and its outcome recorded or the process     *)
(* went away.                                                              *)
LoopKeepsGoing ==
  (loop.pc = "sleep" /\ loop.wakeAt <= MaxTime) ~> (loop.pc \in {"run", "off"})
=============================================================================
