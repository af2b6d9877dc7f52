-------------------------- MODULE LiveRuntimeProofs --------------------------
(***************************************************************************)
(* Proofs about LiveRuntime for every interval, grace, number of           *)
(* settlement attempts, set of bindings, clock skew and bound on time,     *)
(* with failing writes and crashes or without.                             *)
(*                                                                         *)
(* What makes the carried state safe is inductive together: the tick that  *)
(* is under way resumed a state of the active binding, older than its own  *)
(* bar; the rows hold a state of the binding that the generation names;    *)
(* and every state took one step per interval.                             *)
(***************************************************************************)
EXTENDS LiveRuntime, TLAPS

(* A state accounts for all the time since its anchor.                     *)
Elapsed(d) == d # NoData => d.steps = d.ts - d.since

(* While the process is down nothing of it is left.                        *)
DownIsEmpty == active = NoIdentity => tick = NoTick /\ cache = NoData /\ loop = Off

(* What the tick resumed is of the active binding, and older than its bar. *)
TickResumes ==
  tick.pc \in {"fetch", "save", "cache"} =>
    /\ tick.record # NoData =>
         tick.record.id = active /\ tick.record.ts < tick.ts /\ Elapsed(tick.record)
    /\ row.data # NoData /\ row.data.id = active /\ tick.pc # "cache" => row.data.ts < tick.ts

(* What the tick will save is a state of its own bar and binding.          *)
TickProduces ==
  tick.pc \in {"save", "cache"} =>
    tick.data \in Data /\ tick.data.id = active /\ tick.data.ts = tick.ts /\ Elapsed(tick.data)

AttemptsLeft == tick.pc \in {"load", "fetch"} => tick.attempt < MaxAttempts

IInv == /\ TypeOK /\ DownIsEmpty /\ TickResumes /\ TickProduces /\ AttemptsLeft
        /\ GenerationBindsState /\ NoForeignPrior /\ StepsMatchElapsedTime

-----------------------------------------------------------------------------
(* Values.                                                                 *)

(* A state and the absence of one are told apart by their fields.          *)
LEMMA NoDataIsNotData == NoData \notin Data
<1> SUFFICES ASSUME NoData \in Data PROVE FALSE
  OBVIOUS
<1>1. "ts" \in DOMAIN NoData
  BY DEF Data
<1> QED
  BY <1>1 DEF NoData

(* The bar of a time, and the time its bar ends.                           *)
LEMMA BarOfTime ==
  ASSUME NEW t \in Nat
  PROVE  /\ FormingBar(t) \in Bar
         /\ NextBoundary(t) \in Nat
         /\ NextBoundary(t) > t
<1>1. Interval \in Nat /\ Interval > 0
  BY ClockAssumption
<1>2. t = Interval * (t \div Interval) + (t % Interval) /\ t % Interval \in 0..(Interval - 1)
  BY <1>1
<1>3. t \div Interval \in Nat
  BY <1>1
<1>4. (t \div Interval + 1) * Interval = Interval * (t \div Interval) + Interval
  BY <1>1, <1>3
<1>5. (t \div Interval + 1) * Interval \in Nat
  BY <1>1, <1>3
<1> QED
  BY <1>1, <1>2, <1>3, <1>4, <1>5 DEF FormingBar, NextBoundary, Bar

(* What the program counters say about the other fields.                   *)
LEMMA Shapes ==
  ASSUME TypeOK
  PROVE  /\ tick.pc \in {"load", "already", "fetch", "save", "cache", "fail"} => tick \in Tick
         /\ tick.pc = "done" => tick \in Done
         /\ tick.pc \in {"idle", "done"} \/ tick \in Tick
         /\ loop.pc \in {"sleep", "tick"} =>
              loop \in [pc : {"sleep", "tick"}, ts : Bar, wakeAt : Nat]
BY DEF TypeOK, NoTick, Tick, Done, Loop

(* load_runtime answers with the state of the asked binding, or nothing.   *)
LEMMA Loaded ==
  ASSUME TypeOK, GenerationBindsState, NEW identity,
         LoadRuntime(identity) # NoData
  PROVE  /\ LoadRuntime(identity) = row.data
         /\ row.data \in Data
         /\ row.data.id = identity
BY DEF LoadRuntime, TypeOK, Row, GenerationBindsState

LEMMA WallIsNat == TypeOK => mono \in Nat /\ Wall \in Nat
BY ClockAssumption DEF TypeOK, Wall

-----------------------------------------------------------------------------
(* The invariant.                                                          *)

LEMMA InitInvariant == Init => IInv
<1> SUFFICES ASSUME Init PROVE IInv
  OBVIOUS
<1>1. NoTick.pc = "idle" /\ row.data = NoData /\ tick = NoTick
  BY DEF Init, NoTick, NoRow
<1>2. TypeOK
  BY ClockAssumption DEF Init, TypeOK, Loop, Off, Row, NoRow
<1> QED
  BY <1>1, <1>2 DEF Init, IInv, DownIsEmpty, TickResumes, TickProduces, AttemptsLeft,
     GenerationBindsState, NoForeignPrior, StepsMatchElapsedTime

(* Everything in IInv but the types is about the process and the rows.     *)
StateInv == /\ DownIsEmpty /\ TickResumes /\ TickProduces /\ AttemptsLeft
            /\ GenerationBindsState /\ NoForeignPrior /\ StepsMatchElapsedTime

(* Time and the loop's own steps touch neither.                            *)
LEMMA LoopStep ==
  ASSUME IInv, Advance \/ StepClock \/ Schedule \/ Wake \/ TickReturns
  PROVE  IInv'
<1> USE DEF IInv
<1>1. ASSUME Advance PROVE TypeOK'
  BY <1>1, ClockAssumption DEF Advance, TypeOK, storeVars
<1>2. ASSUME StepClock PROVE TypeOK'
  BY <1>2, ClockAssumption DEF StepClock, TypeOK, storeVars
<1>3. ASSUME Schedule PROVE TypeOK'
  <2>1. loop' \in [pc : {"sleep"}, ts : Bar, wakeAt : Nat]
    BY <1>3, WallIsNat, BarOfTime, ClockAssumption DEF Schedule, Planned, Bar
  <2>2. loop' \in Loop
    BY <2>1 DEF Loop
  <2> QED
    BY <1>3, <2>2 DEF Schedule, TypeOK, storeVars
<1>4. ASSUME Wake PROVE TypeOK'
  <2>1. tick' \in Tick
    BY <1>4, Shapes, AttemptAssumption DEF Wake, Tick
  <2>2. loop' \in Loop
    BY <1>4, Shapes DEF Wake, Loop
  <2> QED
    BY <1>4, <2>1, <2>2 DEF Wake, TypeOK, storeVars
<1>5. ASSUME TickReturns PROVE TypeOK'
  BY <1>5 DEF TickReturns, TypeOK, storeVars, Loop, Running
<1>6. ASSUME Advance \/ StepClock \/ Schedule PROVE StateInv'
  <2>1. UNCHANGED <<active, tick, storeVars, cache>> /\ (loop' = loop \/ loop.pc = "run")
    BY <1>6 DEF Advance, StepClock, Schedule
  <2> QED
    BY <2>1 DEF StateInv, DownIsEmpty, TickResumes, TickProduces, AttemptsLeft, Elapsed,
       GenerationBindsState, NoForeignPrior, StepsMatchElapsedTime, storeVars, Off
<1>7. ASSUME Wake PROVE StateInv'
  BY <1>7, AttemptAssumption DEF Wake, StateInv, DownIsEmpty, TickResumes, TickProduces, AttemptsLeft,
     GenerationBindsState, NoForeignPrior, StepsMatchElapsedTime, storeVars, Off
<1>8. ASSUME TickReturns PROVE StateInv'
  BY <1>8 DEF TickReturns, StateInv, DownIsEmpty, TickResumes, TickProduces, AttemptsLeft,
     GenerationBindsState, NoForeignPrior, StepsMatchElapsedTime, storeVars, NoTick, Off
<1> QED
  BY <1>1, <1>2, <1>3, <1>4, <1>5, <1>6, <1>7, <1>8 DEF StateInv

(* The status of a failed or repeated tick: no other binding's state       *)
(* becomes resumable by it, and no state changes.                          *)
LEMMA StatusStep ==
  ASSUME IInv, NEW status \in {"failure", "already_processed"},
         active # NoIdentity, RecordTickStatus(status, active)
  PROVE  /\ row' \in Row /\ row'.data = row.data
         /\ generation' \in Identity \cup {NoIdentity}
         /\ archive' = archive /\ history' = history
         /\ GenerationBindsState'
         /\ StepsMatchElapsedTime'
<1>1. row' \in Row /\ row'.data = row.data
  BY DEF RecordTickStatus, IInv, TypeOK, Row
<1>2. generation' \in Identity \cup {NoIdentity} /\ archive' = archive /\ history' = history
  BY DEF RecordTickStatus, IInv, TypeOK
<1>3. row.data # NoData => generation' = generation
  BY DEF RecordTickStatus, MayBindIdentity
<1> QED
  BY <1>1, <1>2, <1>3 DEF IInv, GenerationBindsState, StepsMatchElapsedTime

(* A tick that is under way runs in a process that is up.                  *)
LEMMA TickIsUp ==
  ASSUME IInv, tick.pc # "idle"
  PROVE  active # NoIdentity
BY DEF IInv, DownIsEmpty, NoTick

LEMMA RecordingStep ==
  ASSUME IInv, AlreadyProcessed \/ RecordFailure
  PROVE  IInv'
<1>1. tick \in Tick /\ active # NoIdentity
  BY Shapes, TickIsUp DEF IInv, AlreadyProcessed, RecordFailure
<1>2. PICK status \in {"failure", "already_processed"} :
        /\ RecordTickStatus(status, active)
        /\ tick' = [pc |-> "done", ts |-> tick.ts, status |-> status]
        /\ UNCHANGED <<mono, skew, active, loop, cache>>
  BY DEF AlreadyProcessed, RecordFailure
<1>3. tick' \in Done /\ tick'.pc = "done"
  BY <1>1, <1>2 DEF Tick, Done
<1>4. TypeOK'
  BY <1>1, <1>2, <1>3, StatusStep DEF IInv, TypeOK
<1> QED
  BY <1>1, <1>2, <1>3, <1>4, StatusStep
  DEF IInv, DownIsEmpty, TickResumes, TickProduces, AttemptsLeft, NoForeignPrior

(* The tick resumes what the store verified, and only if it is older than  *)
(* the tick's bar.                                                         *)
LEMMA LoadStep == IInv /\ Load => IInv'
<1> SUFFICES ASSUME IInv, Load PROVE IInv'
  OBVIOUS
<1> DEFINE record == LoadRuntime(active)
<1>1. tick \in Tick /\ active # NoIdentity /\ TypeOK /\ GenerationBindsState
  BY Shapes, TickIsUp DEF IInv, Load
<1>2. record # NoData => record = row.data /\ row.data \in Data /\ row.data.id = active
  BY <1>1, Loaded
<1>3. record \in Data \cup {NoData}
  BY <1>2
<1>4. /\ tick' = [tick EXCEPT !.record = record,
                              !.pc = IF record = NoData \/ record.ts < tick.ts THEN "fetch"
                                     ELSE IF record.ts = tick.ts THEN "already" ELSE "fail"]
      /\ UNCHANGED <<mono, skew, active, loop, storeVars, cache>>
  BY DEF Load
<1> HIDE DEF record
<1>5. /\ tick' \in Tick /\ tick'.record = record /\ tick'.ts = tick.ts
      /\ tick'.attempt = tick.attempt
      /\ tick'.pc = "fetch" => record = NoData \/ record.ts < tick.ts
      /\ tick'.pc \in {"fetch", "already", "fail"}
  BY <1>1, <1>3, <1>4 DEF Tick
<1>6. TypeOK'
  BY <1>1, <1>4, <1>5 DEF TypeOK, storeVars
<1>7. row.data # NoData /\ row.data.id = active => record = row.data
  BY <1>1 DEF GenerationBindsState, LoadRuntime, record
<1>8. TickResumes'
  BY <1>2, <1>4, <1>5, <1>7 DEF TickResumes, Elapsed, IInv, StepsMatchElapsedTime, storeVars
<1>9. tick.attempt < MaxAttempts
  BY DEF IInv, AttemptsLeft, Load
<1> QED
  BY <1>1, <1>2, <1>4, <1>5, <1>6, <1>8, <1>9
  DEF IInv, DownIsEmpty, TickProduces, AttemptsLeft, GenerationBindsState, NoForeignPrior,
      StepsMatchElapsedTime, storeVars

(* A missing candle, or any other failure before the save, changes only    *)
(* where the tick is.                                                      *)
LEMMA FailingStep ==
  ASSUME IInv, CandleMissing \/ FetchFails \/ WriteRaises
  PROVE  IInv'
<1>1. tick \in Tick /\ active # NoIdentity
  BY Shapes, TickIsUp DEF IInv, CandleMissing, FetchFails, WriteRaises
<1>2. /\ tick' \in Tick /\ tick'.record = tick.record /\ tick'.ts = tick.ts
      /\ tick'.pc \in {"fetch", "fail"}
      /\ tick'.pc = "fetch" => tick.pc = "fetch" /\ tick'.attempt < MaxAttempts
  <2>1. CASE CandleMissing
    <3>1. /\ tick.attempt \in Nat /\ tick.attempt + 1 \in 0..MaxAttempts
          /\ tick.attempt + 1 # MaxAttempts => tick.attempt + 1 < MaxAttempts
      BY <2>1, <1>1, AttemptAssumption DEF IInv, AttemptsLeft, CandleMissing, Tick
    <3> QED
      BY <2>1, <3>1, <1>1 DEF CandleMissing, Tick
  <2>2. CASE FetchFails \/ WriteRaises
    BY <2>2, <1>1 DEF FetchFails, WriteRaises, Goto, Tick
  <2> QED
    BY <2>1, <2>2
<1>3. UNCHANGED <<mono, skew, active, loop, row, generation, archive, history, cache>>
  BY DEF CandleMissing, FetchFails, WriteRaises, storeVars
<1> QED
  BY <1>1, <1>2, <1>3 DEF IInv, TypeOK, DownIsEmpty, TickResumes, TickProduces, AttemptsLeft,
     GenerationBindsState, NoForeignPrior, StepsMatchElapsedTime

(* What inference produces: one step per interval since the anchor, in the *)
(* gap and in the bar itself.                                              *)
LEMMA WarmedOK ==
  ASSUME IInv, tick.pc = "fetch", active \in Identity, NEW anchor \in 0..(tick.ts - 1)
  PROVE  /\ Warmed(anchor) \in Tick
         /\ Warmed(anchor).pc = "save"
         /\ Warmed(anchor).ts = tick.ts
         /\ Warmed(anchor).record = tick.record
         /\ Warmed(anchor).data \in Data
         /\ Warmed(anchor).data.id = active
         /\ Warmed(anchor).data.ts = tick.ts
         /\ Elapsed(Warmed(anchor).data)
<1>1. tick \in Tick /\ tick.ts \in Nat
  BY Shapes DEF IInv, Tick, Bar
<1> DEFINE from == IF tick.record = NoData THEN anchor ELSE tick.record.ts
           gap  == HiddenSteps(from, tick.ts)
           base == IF tick.record = NoData THEN [since |-> anchor, steps |-> 0] ELSE tick.record
           data == [ts |-> tick.ts, since |-> base.since, steps |-> base.steps + gap + 1,
                    id |-> active]
<1>2. from \in Nat /\ from < tick.ts
  BY <1>1 DEF IInv, TickResumes, Tick, Data, Bar
<1>3. gap \in Nat /\ gap = tick.ts - from - 1
  BY <1>1, <1>2 DEF HiddenSteps
<1>4. base.since \in Nat /\ base.steps \in Nat /\ base.steps = from - base.since
  <2>1. CASE tick.record = NoData
    BY <2>1, <1>1
  <2>2. CASE tick.record # NoData
    BY <2>2, <1>1 DEF IInv, TickResumes, Elapsed, Tick, Data, Bar
  <2> QED
    BY <2>1, <2>2
<1>5. data \in Data
  <2>1. base.steps + gap + 1 \in Nat
    BY <1>3, <1>4
  <2> QED
    BY <2>1, <1>1, <1>4 DEF Data, Bar
<1>6. data.steps = data.ts - data.since
  <2>1. base.steps + gap + 1 = tick.ts - base.since
    BY <1>1, <1>2, <1>3, <1>4
  <2> QED
    BY <2>1
<1>7. Warmed(anchor) = [tick EXCEPT !.pc = "save", !.gap = gap, !.data = data]
  BY DEF Warmed
<1> HIDE DEF gap, data
<1>8. /\ Warmed(anchor) \in Tick /\ Warmed(anchor).pc = "save"
      /\ Warmed(anchor).ts = tick.ts /\ Warmed(anchor).record = tick.record
      /\ Warmed(anchor).data = data
  BY <1>1, <1>3, <1>5, <1>7 DEF Tick
<1>9. data.id = active /\ data.ts = tick.ts
  BY DEF data
<1> QED
  BY <1>5, <1>6, <1>8, <1>9 DEF Elapsed

LEMMA FetchStep == IInv /\ FetchSucceeds => IInv'
<1> SUFFICES ASSUME IInv, FetchSucceeds PROVE IInv'
  OBVIOUS
<1>1. active \in Identity /\ active # NoIdentity
  BY TickIsUp DEF IInv, FetchSucceeds, TypeOK
<1>2. PICK anchor \in 0..(tick.ts - 1) : tick' = Warmed(anchor)
  BY DEF FetchSucceeds
<1>3. UNCHANGED <<mono, skew, active, loop, row, generation, archive, history, cache>>
  BY DEF FetchSucceeds, storeVars
<1>4. /\ tick' \in Tick /\ tick'.pc = "save" /\ tick'.ts = tick.ts
      /\ tick'.record = tick.record /\ tick'.data \in Data /\ tick'.data.id = active
      /\ tick'.data.ts = tick.ts /\ Elapsed(tick'.data)
  BY <1>1, <1>2, WarmedOK DEF FetchSucceeds
<1> QED
  BY <1>1, <1>3, <1>4 DEF FetchSucceeds, IInv, TypeOK, DownIsEmpty, TickResumes, TickProduces,
     AttemptsLeft, GenerationBindsState, NoForeignPrior, StepsMatchElapsedTime, Elapsed

(* The transaction: the generation becomes the state's binding, the state  *)
(* of another binding goes to the archive.                                 *)
LEMMA SaveStep == IInv /\ Save => IInv'
<1> SUFFICES ASSUME IInv, Save PROVE IInv'
  OBVIOUS
<1>1. tick \in Tick /\ active # NoIdentity /\ active \in Identity
  BY Shapes, TickIsUp DEF IInv, Save, TypeOK
<1>2. tick.data \in Data /\ tick.data.id = active /\ Elapsed(tick.data) /\ tick.data # NoData
  BY NoDataIsNotData DEF IInv, TickProduces, Save
<1>3. /\ row'.data = tick.data /\ row' \in Row /\ generation' = active
      /\ UNCHANGED <<mono, skew, active, loop, cache>>
  <2>1. tick.gap \in Nat
    BY <1>1 DEF Tick
  <2> QED
    BY <1>2, <2>1 DEF Save, SaveRuntimeAndHistory, Row
<1>4. /\ tick' \in Tick /\ tick'.pc = "cache" /\ tick'.record = tick.record
      /\ tick'.ts = tick.ts /\ tick'.data = tick.data
  BY <1>1 DEF Save, Goto, Tick
<1>5. history' \subseteq history \cup {tick.data}
  BY DEF Save, SaveRuntimeAndHistory, InsertHistory
<1>6. \A a \in archive' : a \in archive \/
        (a = [data |-> row.data, id |-> generation] /\ row.data \in Data /\ row.data # NoData)
  BY DEF Save, SaveRuntimeAndHistory, Superseded, IInv, TypeOK, Row
<1>7. /\ row.data \in Data /\ row.data # NoData => generation \in Identity
      /\ row.data # NoData => row.data.id = generation
  BY DEF IInv, GenerationBindsState, TypeOK, Data
<1>8. \A a \in archive' :
        a \in [data : Data, id : Identity] /\ a.data.id = a.id /\ Elapsed(a.data)
  BY <1>6, <1>7 DEF IInv, TypeOK, GenerationBindsState, StepsMatchElapsedTime, Elapsed
<1>9. TypeOK'
  BY <1>1, <1>2, <1>3, <1>4, <1>5, <1>8 DEF IInv, TypeOK
<1>10. StepsMatchElapsedTime'
  BY <1>2, <1>3, <1>5, <1>8 DEF IInv, StepsMatchElapsedTime, Elapsed
<1>11. GenerationBindsState'
  BY <1>2, <1>3, <1>8 DEF GenerationBindsState
<1> QED
  BY <1>1, <1>2, <1>3, <1>4, <1>9, <1>10, <1>11
  DEF Save, IInv, DownIsEmpty, TickResumes, TickProduces, AttemptsLeft, NoForeignPrior, Elapsed

LEMMA SaveCacheStep == IInv /\ SaveCache => IInv'
<1> SUFFICES ASSUME IInv, SaveCache PROVE IInv'
  OBVIOUS
<1>1. tick \in Tick /\ active # NoIdentity
  BY Shapes, TickIsUp DEF IInv, SaveCache
<1>2. tick' \in Done /\ tick'.pc = "done"
  BY <1>1 DEF SaveCache, Tick, Done
<1>3. cache' \in Data /\ cache'.id = active
  BY DEF SaveCache, IInv, TickProduces
<1> QED
  BY <1>1, <1>2, <1>3 DEF SaveCache, IInv, TypeOK, DownIsEmpty, TickResumes, TickProduces,
     AttemptsLeft, GenerationBindsState, NoForeignPrior, StepsMatchElapsedTime, storeVars

(* The process ends, is stopped, or its loop dies: the rows stay.          *)
LEMMA EndingStep ==
  ASSUME IInv, RecordFailureRaises \/ Stop \/ Exit \/ Crash
  PROVE  IInv'
<1>1. NoTick.pc = "idle"
  BY DEF NoTick
<1>2. UNCHANGED <<mono, skew, row, generation, archive, history>>
  BY DEF RecordFailureRaises, Stop, Exit, Crash, storeVars
<1>3. loop' \in Loop /\ (loop' # Off => loop # Off)
  BY DEF RecordFailureRaises, Stop, Exit, Crash, IInv, TypeOK, Loop, Off
<1>4. TypeOK'
  BY <1>2, <1>3 DEF RecordFailureRaises, Stop, Exit, Crash, IInv, TypeOK
<1>5. CASE RecordFailureRaises \/ Exit \/ Crash
  <2>1. tick' = NoTick /\ tick'.pc = "idle"
    BY <1>1, <1>5 DEF RecordFailureRaises, Exit, Crash
  <2>2. DownIsEmpty' /\ NoForeignPrior'
    BY <2>1, <1>5, <1>3 DEF RecordFailureRaises, Exit, Crash, IInv, DownIsEmpty, NoForeignPrior
  <2> QED
    BY <1>2, <1>4, <2>1, <2>2 DEF IInv, TickResumes, TickProduces, AttemptsLeft,
       GenerationBindsState, StepsMatchElapsedTime
<1>6. CASE Stop
  BY <1>2, <1>4, <1>6 DEF Stop, IInv, DownIsEmpty, TickResumes, TickProduces, AttemptsLeft,
     GenerationBindsState, NoForeignPrior, StepsMatchElapsedTime
<1> QED
  BY <1>5, <1>6

(* A new process restores its cache only from a state of its own binding.  *)
LEMMA BootStep == ASSUME IInv, NEW identity \in Identity, Boot(identity) PROVE IInv'
<1>1. tick = NoTick /\ tick' = NoTick /\ NoTick.pc = "idle" /\ active' # NoIdentity
  BY IdentityAssumption DEF Boot, IInv, DownIsEmpty, NoTick
<1>2. cache' # NoData => cache' \in Data /\ cache'.id = active'
  BY Loaded DEF Boot, IInv
<1>3. UNCHANGED <<mono, skew, row, generation, archive, history>>
  BY DEF Boot, storeVars
<1>4. TypeOK'
  BY <1>1, <1>2, <1>3 DEF Boot, IInv, TypeOK, Loop, Running
<1> QED
  BY <1>1, <1>2, <1>3, <1>4 DEF IInv, DownIsEmpty, TickResumes, TickProduces, AttemptsLeft,
     GenerationBindsState, NoForeignPrior, StepsMatchElapsedTime

LEMMA Stutter == IInv /\ UNCHANGED vars => IInv'
BY DEF IInv, TypeOK, DownIsEmpty, TickResumes, TickProduces, AttemptsLeft, Elapsed,
   GenerationBindsState, NoForeignPrior, StepsMatchElapsedTime, vars, storeVars

LEMMA Inductive == IInv /\ [Next]_vars => IInv'
BY LoopStep, RecordingStep, LoadStep, FailingStep, FetchStep, SaveStep, SaveCacheStep,
   EndingStep, BootStep, Stutter
DEF Next, TickStep

LEMMA Invariance == Spec => []IInv
BY InitInvariant, Inductive, PTL DEF Spec

-----------------------------------------------------------------------------
(* The state invariants.                                                   *)

(* The variables of a scheduler, its tick, its rows and its process keep   *)
(* their types, whatever the intervals, bindings, faults and clocks.       *)
THEOREM TypeCorrect == Spec => []TypeOK
BY Invariance, PTL DEF IInv

(* The generation row of runtime_generation names the binding of the state *)
(* in runtime_state, and every archived state that of its archive row.     *)
THEOREM GenerationIsOfState == Spec => []GenerationBindsState
BY Invariance, PTL DEF IInv

(* run_live_tick and lifespan only ever resume a state of the binding they *)
(* run under.                                                              *)
THEOREM NoStateCrossesBindings == Spec => []NoForeignPrior
BY Invariance, PTL DEF IInv

(* Warm-up, advance_without_measurements and inference together take one   *)
(* process-noise step per interval, over any gaps, failures and restarts.  *)
THEOREM EveryIntervalIsCounted == Spec => []StepsMatchElapsedTime
BY Invariance, PTL DEF IInv

-----------------------------------------------------------------------------
(* What a step does to the rows.                                           *)

LEMMA RowChanges ==
  ASSUME [Next]_vars
  PROVE  \/ UNCHANGED <<row, generation, archive, history>>
         \/ Save
         \/ \E status \in {"failure", "already_processed"} :
              RecordTickStatus(status, active)
<1>1. CASE AlreadyProcessed \/ RecordFailure
  BY <1>1 DEF AlreadyProcessed, RecordFailure
<1>2. CASE Save
  BY <1>2
<1>3. CASE ~(AlreadyProcessed \/ RecordFailure \/ Save)
  BY <1>3 DEF Next, TickStep, vars, storeVars, Advance, StepClock, Schedule, Wake, TickReturns,
     Load, FetchSucceeds, CandleMissing, FetchFails, SaveCache, WriteRaises,
     RecordFailureRaises, Boot, Stop, Exit, Crash
<1> QED
  BY <1>1, <1>2, <1>3

(* What the save writes, and over what.                                    *)
LEMMA Saved ==
  ASSUME IInv, Save
  PROVE  /\ row'.status = "success" /\ row'.data = tick.data
         /\ tick.data \in Data /\ tick.data.id = active /\ tick.data.ts = tick.ts
         /\ row.data # NoData /\ row.data.id = active => row.data.ts < tick.ts
BY DEF IInv, Save, SaveRuntimeAndHistory, TickProduces, TickResumes

LEMMA StatusRecorded ==
  ASSUME NEW status \in {"failure", "already_processed"}, RecordTickStatus(status, active)
  PROVE  /\ row'.data = row.data /\ row'.status = status
         /\ archive' = archive /\ history' = history
BY DEF RecordTickStatus

(* However the clock is stepped, no step takes a binding's state back, and *)
(* only a successful tick changes it.                                      *)
THEOREM NeverRollsBack == Spec => StateNeverRollsBack
<1> DEFINE A == /\ row.data # NoData /\ row'.data # NoData /\ row'.data.id = row.data.id =>
                     row'.data.ts >= row.data.ts
                /\ row'.data # row.data => row'.status = "success"
<1>1. ASSUME IInv, [Next]_vars PROVE A
  <2>1. row.data # NoData => row.data \in Data /\ row.data.ts \in Nat
    BY <1>1 DEF IInv, TypeOK, Row, Data, Bar
  <2>2. CASE row' = row
    BY <2>1, <2>2
  <2>3. CASE Save
    <3>1. tick.ts \in Nat
      BY <1>1, <2>3, Saved DEF Data, Bar
    <3> QED
      BY <1>1, <2>1, <2>3, <3>1, Saved
  <2>4. CASE \E status \in {"failure", "already_processed"} : RecordTickStatus(status, active)
    BY <2>1, <2>4, StatusRecorded
  <2> QED
    BY <1>1, <2>2, <2>3, <2>4, RowChanges
<1>2. IInv /\ [Next]_vars => [A]_vars
  BY <1>1
<1>3. [][A]_vars => StateNeverRollsBack
  BY PTL DEF StateNeverRollsBack
<1> HIDE DEF A
<1> QED
  BY <1>2, <1>3, Invariance, PTL DEF Spec

(* No step rewrites a recorded result or loses a state of another binding. *)
THEOREM NothingIsLost == Spec => AuditTrailKept
<1> DEFINE A == /\ history \subseteq history'
                /\ archive \subseteq archive'
                /\ (row.data # NoData /\ row'.data # NoData /\ row'.data.id # row.data.id) =>
                     [data |-> row.data, id |-> row.data.id] \in archive'
<1>1. ASSUME IInv, [Next]_vars PROVE A
  <2>1. CASE UNCHANGED <<row, generation, archive, history>>
    BY <2>1
  <2>2. CASE Save
    <3>1. row'.data.id = active
      BY <1>1, <2>2, Saved
    <3>2. row.data # NoData => row.data.id = generation
      BY <1>1 DEF IInv, GenerationBindsState
    <3> QED
      BY <2>2, <3>1, <3>2 DEF Save, SaveRuntimeAndHistory, InsertHistory, Superseded
  <2>3. CASE \E status \in {"failure", "already_processed"} : RecordTickStatus(status, active)
    BY <2>3, StatusRecorded
  <2> QED
    BY <1>1, <2>1, <2>2, <2>3, RowChanges
<1>2. IInv /\ [Next]_vars => [A]_vars
  BY <1>1
<1>3. [][A]_vars => AuditTrailKept
  BY PTL DEF AuditTrailKept
<1> HIDE DEF A
<1> QED
  BY <1>2, <1>3, Invariance, PTL DEF Spec

-----------------------------------------------------------------------------
(* What a recorded result is worth to an audit: the binding that recorded  *)
(* it carries that state, or has moved on from it to a later bar, or gave  *)
(* way with a state of that bar or a later one.                            *)
Carried(h) ==
  \/ row.data # NoData /\ row.data.id = h.id /\ (row.data = h \/ h.ts < row.data.ts)
  \/ \E a \in archive : a.id = h.id /\ a.data.ts >= h.ts

Accounted == /\ row.data # NoData => \E h \in history : h.ts = row.data.ts
             /\ \A h \in history : Carried(h)

LEMMA SaveAccounts == ASSUME IInv, Accounted, Save PROVE Accounted'
<1>1. /\ row'.data = tick.data /\ tick.data \in Data /\ tick.data # NoData
      /\ tick.data.id = active /\ tick.data.ts = tick.ts /\ tick.ts \in Nat
      /\ row.data # NoData /\ row.data.id = active => row.data.ts < tick.ts
  BY Saved, NoDataIsNotData DEF Data, Bar
<1>2. archive \subseteq archive'
  BY DEF Save, SaveRuntimeAndHistory
<1>3. history' = IF \E h \in history : h.ts = tick.data.ts THEN history
                 ELSE history \cup {tick.data}
  BY DEF Save, SaveRuntimeAndHistory, InsertHistory
<1>4. \E h \in history' : h.ts = row'.data.ts
  BY <1>1, <1>3
<1>5. ASSUME NEW h \in history, row.data # NoData, row.data.id = h.id,
             row.data = h \/ h.ts < row.data.ts
      PROVE  Carried(h)'
  <2>1. h.ts \in Nat /\ row.data.ts \in Nat /\ row.data.id = generation
    BY <1>5 DEF IInv, TypeOK, Row, Data, Bar, GenerationBindsState
  <2>2. CASE generation = active
    <3>1. row.data.ts < tick.ts
      BY <1>1, <1>5, <2>1, <2>2
    <3>2. h.ts < row'.data.ts
      BY <1>1, <1>5, <2>1, <3>1
    <3> QED
      BY <1>1, <1>5, <2>1, <2>2, <3>2 DEF Carried
  <2>3. CASE generation # active
    <3>1. [data |-> row.data, id |-> generation] \in archive'
      BY <1>5, <2>3 DEF Save, SaveRuntimeAndHistory, Superseded
    <3>2. row.data.ts >= h.ts
      BY <1>5, <2>1
    <3> QED
      BY <1>5, <2>1, <3>1, <3>2 DEF Carried
  <2> QED
    BY <2>2, <2>3
<1>6. \A h \in history : Carried(h)'
  BY <1>2, <1>5 DEF Accounted, Carried
<1>7. ASSUME NEW h, h = tick.data PROVE Carried(h)'
  BY <1>1, <1>7 DEF Carried
<1> QED
  BY <1>3, <1>4, <1>6, <1>7 DEF Accounted

LEMMA StaysAccounted == IInv /\ Accounted /\ [Next]_vars => Accounted'
<1> SUFFICES ASSUME IInv, Accounted, [Next]_vars PROVE Accounted'
  OBVIOUS
<1>1. CASE row'.data = row.data /\ archive' = archive /\ history' = history
  BY <1>1 DEF Accounted, Carried
<1>2. CASE Save
  BY <1>2, SaveAccounts
<1> QED
  BY <1>1, <1>2, RowChanges, StatusRecorded

(* The bar that a binding serves is on record, and a record of another     *)
(* result for it is explained by the archive: however the clock is         *)
(* stepped, ON CONFLICT DO NOTHING hides a result only behind one that a   *)
(* superseded binding, or an earlier life of the same one, was carrying.   *)
THEOREM LatestIsAccountedFor == Spec => []LatestBarIsRecorded
<1>1. Init => Accounted
  BY DEF Init, Accounted, NoRow
<1>2. IInv /\ Accounted => LatestBarIsRecorded
  <2> SUFFICES ASSUME IInv, Accounted, row.data # NoData
               PROVE  \E h \in history :
                        /\ h.ts = row.data.ts
                        /\ h # row.data => \E a \in archive : a.id = h.id /\ a.data.ts >= h.ts
    BY DEF LatestBarIsRecorded
  <2>1. PICK h \in history : h.ts = row.data.ts
    BY DEF Accounted
  <2>2. h.ts \in Nat
    BY DEF IInv, TypeOK, Data, Bar
  <2>3. h = row.data \/ \E a \in archive : a.id = h.id /\ a.data.ts >= h.ts
    BY <2>1, <2>2 DEF Accounted, Carried
  <2> QED
    BY <2>1, <2>3
<1> QED
  BY <1>1, <1>2, StaysAccounted, Invariance, PTL DEF Spec

-----------------------------------------------------------------------------
(* A clock that is never stepped.                                          *)

(* The end of bar b, and the bars that have ended by t.                    *)
LEMMA EndOfBar ==
  ASSUME NEW b \in Nat
  PROVE  /\ NextBoundary(b * Interval) = (b + 1) * Interval
         /\ (b + 1) * Interval \in Nat
<1>1. Interval \in Nat /\ Interval > 0
  BY ClockAssumption
<1>2. (b * Interval) \div Interval = b
  BY <1>1
<1> QED
  BY <1>1, <1>2 DEF NextBoundary, FormingBar

LEMMA EndedBar ==
  ASSUME NEW b \in Nat, NEW t \in Nat, (b + 1) * Interval <= t
  PROVE  b < FormingBar(t)
<1> DEFINE q == t \div Interval
<1>1. Interval \in Nat /\ Interval > 0
  BY ClockAssumption
<1>2. q \in Nat /\ t < (q + 1) * Interval
  BY BarOfTime DEF FormingBar, NextBoundary, Bar
<1> HIDE DEF q
<1>3. SUFFICES ASSUME q <= b PROVE FALSE
  BY <1>2 DEF FormingBar, q
<1>4. (q + 1) * Interval <= (b + 1) * Interval
  BY <1>1, <1>2, <1>3
<1>5. (q + 1) * Interval \in Nat /\ (b + 1) * Interval \in Nat
  BY <1>1, <1>2
<1> QED
  BY <1>2, <1>4, <1>5

(* The loop has no tick under way while it plans and sleeps.               *)
OneTick == loop.pc \in {"run", "sleep"} => tick = NoTick

(* It sleeps until its bar has settled, and no bar that late is recorded.  *)
SleepsToSettled ==
  loop.pc = "sleep" =>
    /\ loop.wakeAt = (loop.ts + 1) * Interval + Grace
    /\ \A h \in history : h.ts < loop.ts

TickIsNew ==
  tick.pc \in {"load", "fetch", "save"} => \A h \in history : h.ts < tick.ts

Settled     == tick # NoTick => (tick.ts + 1) * Interval + Grace <= mono
RecordEnded == \A h \in history : (h.ts + 1) * Interval <= mono

SteadyPart == /\ OneTick /\ SleepsToSettled /\ TickIsNew /\ Settled /\ RecordEnded
              /\ HistoryHoldsLatest

SteadyInv == IInv /\ SteadyPart

LEMMA SteadyInit == Init => SteadyInv
<1> SUFFICES ASSUME Init PROVE SteadyInv
  OBVIOUS
<1>1. tick.pc = "idle" /\ loop.pc = "off" /\ tick = NoTick /\ history = {} /\ row.data = NoData
  BY DEF Init, NoTick, Off, NoRow
<1> QED
  BY <1>1, InitInvariant DEF SteadyInv, SteadyPart, OneTick, SleepsToSettled, TickIsNew, Settled, RecordEnded,
     HistoryHoldsLatest

(* The bars of the loop, of the tick and of the history are numbers.       *)
LEMMA Bars ==
  ASSUME TypeOK
  PROVE  /\ mono \in Nat
         /\ \A h \in history : h.ts \in Nat
         /\ tick # NoTick => tick.ts \in Nat
         /\ loop.pc \in {"sleep", "tick"} => loop.ts \in Nat
<1>1. mono \in Nat
  BY WallIsNat
<1>2. tick # NoTick => tick.ts \in Nat
  BY DEF TypeOK, Tick, Done, Bar
<1>3. loop.pc \in {"sleep", "tick"} => loop.ts \in Nat
  BY Shapes DEF Bar
<1>4. \A h \in history : h.ts \in Nat
  BY DEF TypeOK, Data, Bar
<1> QED
  BY <1>1, <1>2, <1>3, <1>4

LEMMA ScheduleSteady ==
  ASSUME SteadyInv, skew = 0, Schedule
  PROVE  SteadyPart'
<1>1. mono \in Nat /\ Wall = mono
  BY Bars, WallIsNat DEF SteadyInv, SteadyPart, IInv, Wall
<1> DEFINE b == FormingBar(mono)
<1>2. b \in Nat /\ NextBoundary(mono) = (b + 1) * Interval /\ NextBoundary(mono) \in Nat
  BY <1>1, BarOfTime DEF NextBoundary, Bar
<1>3. \A h \in history : h.ts < b
  BY <1>1, EndedBar, Bars DEF SteadyInv, SteadyPart, IInv, RecordEnded
<1> HIDE DEF b
<1>4. /\ loop' = [pc |-> "sleep", ts |-> b, wakeAt |-> mono + (NextBoundary(mono) - mono) + Grace]
      /\ UNCHANGED <<mono, skew, active, tick, row, generation, archive, history, cache>>
  BY <1>1 DEF Schedule, Planned, storeVars, b
<1>5. mono + (NextBoundary(mono) - mono) + Grace = (b + 1) * Interval + Grace
  BY <1>1, <1>2, ClockAssumption
<1>6. loop'.pc = "sleep" /\ loop'.ts = b /\ loop'.wakeAt = (b + 1) * Interval + Grace
  BY <1>4, <1>5
<1>7. tick = NoTick
  BY DEF SteadyInv, SteadyPart, OneTick, Schedule
<1> QED
  BY <1>3, <1>4, <1>6, <1>7
  DEF SteadyInv, SteadyPart, OneTick, SleepsToSettled, TickIsNew, Settled, RecordEnded, HistoryHoldsLatest

LEMMA WakeSteady ==
  ASSUME SteadyInv, Wake
  PROVE  SteadyPart'
<1>1. /\ tick'.pc = "load" /\ tick'.ts = loop.ts /\ loop'.pc = "tick"
      /\ UNCHANGED <<mono, row, history>>
  BY Shapes DEF Wake, storeVars, SteadyInv, SteadyPart, IInv
<1>2. mono >= (loop.ts + 1) * Interval + Grace /\ \A h \in history : h.ts < loop.ts
  BY DEF SteadyInv, SteadyPart, SleepsToSettled, Wake
<1>3. (loop.ts + 1) * Interval + Grace <= mono
  BY <1>2, EndOfBar, Bars, ClockAssumption DEF Wake, SteadyInv, SteadyPart, IInv
<1> QED
  BY <1>1, <1>2, <1>3
  DEF SteadyInv, SteadyPart, OneTick, SleepsToSettled, TickIsNew, Settled, RecordEnded, HistoryHoldsLatest

LEMMA SaveSteady ==
  ASSUME SteadyInv, Save
  PROVE  SteadyPart'
<1>1. /\ tick' = [tick EXCEPT !.pc = "cache"] /\ tick \in Tick /\ tick # NoTick
      /\ UNCHANGED <<mono, loop>>
  BY Shapes DEF Save, Goto, SteadyInv, SteadyPart, IInv, NoTick
<1>2. tick'.pc = "cache" /\ tick'.ts = tick.ts
  BY <1>1 DEF Tick
<1>3. row'.data = tick.data /\ tick.data.ts = tick.ts
  BY Saved DEF SteadyInv, SteadyPart
<1>4. history' = history \cup {tick.data}
  <2>1. \A h \in history : h.ts # tick.data.ts
    BY <1>3, Bars, <1>1 DEF SteadyInv, SteadyPart, IInv, TickIsNew, Save
  <2> QED
    BY <2>1 DEF Save, SaveRuntimeAndHistory, InsertHistory
<1>5. (tick.ts + 1) * Interval + Grace <= mono /\ (tick.ts + 1) * Interval \in Nat
  BY <1>1, EndOfBar, Bars DEF SteadyInv, SteadyPart, IInv, Settled
<1>6. (tick.ts + 1) * Interval <= mono
  BY <1>5, ClockAssumption, Bars DEF SteadyInv, SteadyPart, IInv
<1>7. loop.pc # "sleep" /\ loop.pc # "run"
  BY <1>1 DEF SteadyInv, SteadyPart, OneTick
<1> QED
  BY <1>1, <1>2, <1>3, <1>4, <1>5, <1>6, <1>7
  DEF SteadyInv, SteadyPart, OneTick, SleepsToSettled, TickIsNew, Settled, RecordEnded, HistoryHoldsLatest

(* A step within the tick that writes no history keeps its bar.            *)
LEMMA TickKeepsBar ==
  ASSUME SteadyInv, tick # NoTick, tick' # NoTick, tick'.ts = tick.ts,
         row'.data = row.data, UNCHANGED <<mono, loop, history>>,
         tick'.pc \in {"fetch", "save"} => tick.pc \in {"load", "fetch"},
         tick'.pc # "load"
  PROVE  SteadyPart'
<1>1. loop.pc # "sleep" /\ loop.pc # "run"
  BY DEF SteadyInv, SteadyPart, OneTick
<1> QED
  BY <1>1 DEF SteadyInv, SteadyPart, OneTick, SleepsToSettled, TickIsNew, Settled, RecordEnded,
     HistoryHoldsLatest

LEMMA InTickSteady ==
  ASSUME SteadyInv,
         \/ Load \/ AlreadyProcessed \/ RecordFailure \/ FetchSucceeds \/ CandleMissing
         \/ FetchFails \/ SaveCache \/ WriteRaises
  PROVE  SteadyPart'
<1>1. tick \in Tick /\ tick # NoTick /\ active \in Identity /\ IInv
  BY Shapes, TickIsUp
  DEF SteadyInv, IInv, TypeOK, NoTick, Load, AlreadyProcessed, RecordFailure, FetchSucceeds,
      CandleMissing, FetchFails, SaveCache, WriteRaises
<1>2. UNCHANGED <<mono, loop, history>> /\ row'.data = row.data
  BY DEF Load, AlreadyProcessed, RecordFailure, FetchSucceeds, CandleMissing, FetchFails,
         SaveCache, WriteRaises, RecordTickStatus, storeVars
<1>3. CASE Load \/ CandleMissing \/ FetchFails \/ WriteRaises
  <2>1. /\ tick'.ts = tick.ts /\ tick'.pc \in {"fetch", "already", "fail"}
        /\ tick'.pc = "fetch" => tick.pc \in {"load", "fetch"}
    BY <1>1, <1>3 DEF Load, CandleMissing, FetchFails, WriteRaises, Goto, Tick
  <2> QED
    BY <1>1, <1>2, <2>1, TickKeepsBar DEF NoTick
<1>4. CASE AlreadyProcessed \/ RecordFailure \/ SaveCache
  <2>1. tick'.ts = tick.ts /\ tick'.pc = "done"
    BY <1>4 DEF AlreadyProcessed, RecordFailure, SaveCache
  <2> QED
    BY <1>1, <1>2, <2>1, TickKeepsBar DEF NoTick
<1>5. CASE FetchSucceeds
  <2>1. tick'.ts = tick.ts /\ tick'.pc = "save" /\ tick.pc = "fetch"
    BY <1>1, <1>5, WarmedOK DEF FetchSucceeds
  <2> QED
    BY <1>1, <1>2, <2>1, TickKeepsBar DEF NoTick
<1> QED
  BY <1>3, <1>4, <1>5

(* No tick is left: it returned, or the process ended or began.            *)
LEMMA NoTickSteady ==
  ASSUME SteadyInv, tick' = NoTick, loop'.pc # "sleep", UNCHANGED <<mono, row, history>>
  PROVE  SteadyPart'
<1>1. NoTick.pc = "idle"
  BY DEF NoTick
<1> QED
  BY <1>1 DEF SteadyInv, SteadyPart, OneTick, SleepsToSettled, TickIsNew, Settled, RecordEnded,
     HistoryHoldsLatest

LEMMA ProcessSteady ==
  ASSUME SteadyInv, \/ TickReturns \/ RecordFailureRaises \/ Exit \/ Crash \/ Stop
                    \/ \E identity \in Identity : Boot(identity)
  PROVE  SteadyPart'
<1>1. CASE TickReturns \/ Exit \/ Crash \/ \E identity \in Identity : Boot(identity)
  <2>1. tick' = NoTick /\ UNCHANGED <<mono, row, history>>
    BY <1>1 DEF TickReturns, Exit, Crash, Boot, storeVars, SteadyInv, IInv, DownIsEmpty
  <2>2. loop'.pc \in {"run", "off"}
    BY <1>1 DEF TickReturns, Exit, Crash, Boot, Running, Off
  <2> QED
    BY <2>1, <2>2, NoTickSteady
<1>2. CASE RecordFailureRaises
  <2>1. tick' = NoTick /\ UNCHANGED <<mono, row, history>>
    BY <1>2 DEF RecordFailureRaises, storeVars
  <2>2. loop'.pc # "sleep"
    BY <1>2 DEF RecordFailureRaises, SteadyInv, SteadyPart, OneTick, NoTick
  <2> QED
    BY <2>1, <2>2, NoTickSteady
<1>3. CASE Stop
  BY <1>3 DEF Stop, Off, storeVars, SteadyInv, SteadyPart, OneTick, SleepsToSettled, TickIsNew,
     Settled, RecordEnded, HistoryHoldsLatest
<1> QED
  BY <1>1, <1>2, <1>3

LEMMA AdvanceSteady == ASSUME SteadyInv, Advance PROVE SteadyPart'
<1>1. mono \in Nat /\ mono' = mono + 1 /\ UNCHANGED <<loop, tick, row, history>>
  BY Bars DEF SteadyInv, IInv, Advance, storeVars
<1>2. \A h \in history : (h.ts + 1) * Interval \in Nat
  BY Bars, EndOfBar DEF SteadyInv, IInv
<1>3. tick # NoTick => (tick.ts + 1) * Interval + Grace \in Nat
  BY Bars, EndOfBar, ClockAssumption DEF SteadyInv, IInv
<1>4. Settled'
  BY <1>1, <1>3 DEF SteadyInv, SteadyPart, Settled
<1>5. RecordEnded'
  BY <1>1, <1>2 DEF SteadyInv, SteadyPart, RecordEnded
<1> QED
  BY <1>1, <1>4, <1>5 DEF SteadyInv, SteadyPart, OneTick, SleepsToSettled, TickIsNew,
     HistoryHoldsLatest

LEMMA SteadyInductive ==
  ASSUME MaxSkew = 0
  PROVE  SteadyInv /\ [Next]_vars => SteadyInv'
<1> SUFFICES ASSUME SteadyInv, [Next]_vars PROVE SteadyPart'
  BY Inductive DEF SteadyInv
<1>1. skew = 0 /\ ~StepClock
  BY DEF SteadyInv, IInv, TypeOK, StepClock
<1>2. CASE UNCHANGED vars
  BY <1>2 DEF vars, storeVars, SteadyInv, SteadyPart, OneTick, SleepsToSettled, TickIsNew, Settled,
     RecordEnded, HistoryHoldsLatest
<1> QED
  BY <1>1, <1>2, ScheduleSteady, WakeSteady, SaveSteady, InTickSteady, ProcessSteady, AdvanceSteady
  DEF Next, TickStep

(* With a clock that is never stepped, a tick of the loop only asks for a  *)
(* bar that closed at least the settlement grace ago.                      *)
THEOREM TicksAskForSettledBars == ASSUME MaxSkew = 0 PROVE Spec => []OnlySettledBars
<1>1. SteadyInv => OnlySettledBars
  <2> SUFFICES ASSUME SteadyInv, tick # NoTick
               PROVE  NextBoundary(tick.ts * Interval) + Grace <= Wall
    BY DEF OnlySettledBars
  <2>1. tick.ts \in Nat /\ skew = 0 /\ mono \in Nat
    BY Bars DEF SteadyInv, IInv, TypeOK
  <2> QED
    BY <2>1, EndOfBar DEF SteadyInv, SteadyPart, Settled, Wall
<1> QED
  BY <1>1, SteadyInit, SteadyInductive, PTL DEF Spec

(* With a clock that is never stepped, the result a binding serves as its  *)
(* latest is in the history, although history ignores repeated bars.       *)
THEOREM LatestIsInHistory == ASSUME MaxSkew = 0 PROVE Spec => []HistoryHoldsLatest
<1>1. SteadyInv => HistoryHoldsLatest
  BY DEF SteadyInv, SteadyPart
<1> QED
  BY <1>1, SteadyInit, SteadyInductive, PTL DEF Spec
=============================================================================
