----------------------- MODULE NativeOrchestratorProofs -----------------------
(***************************************************************************)
(* For every plan length, worker count and set of process endings:         *)
(*   - TypeOK is an invariant of a run;                                    *)
(*   - an abort nothing cuts short leaves no thread waiting on a live      *)
(*     Godot process (AbortReachesEverySpawn);                             *)
(*   - what a run reports as not run was never started, its verdict is     *)
(*     earned and on disk, and no more processes live than there are       *)
(*     workers.                                                            *)
(***************************************************************************)
EXTENDS NativeOrchestrator, TLAPS, FiniteSetTheorems

\* The index is published once, and once more only after a failure; what is
\* published is a verdict.
PublishCount ==
    /\ main = "publish" => fate \in Verdicts
    /\ main = "republish" => publishFaults = 1
    /\ main \notin {"republish", "ended"} => publishFaults = 0

TypeInv == TypeOK /\ PublishCount

\* A run starts typed.
LEMMA TypeInit == Init => TypeInv
  <1> SUFFICES ASSUME Init PROVE TypeInv
    OBVIOUS
  <1> USE OrchestratorAssumption DEF Init
  <1>1. main \in MainStates /\ fate = "running" /\ next \in 1..(N + 1)
    BY DEF MainStates, Interruptible
  <1>2. /\ task \in [Suites -> TaskStates]
        /\ proc \in [Suites -> {"none", "alive", "dead"}]
    BY DEF TaskStates
  <1>3. exit \in [Suites -> [file : Files, code : Codes]]
    BY DEF NoExit, Files, Codes
  <1>4. /\ interrupts \in 0..MaxInterrupts /\ spawnFaults \in 0..MaxSpawnFaults
        /\ publishFaults \in 0..2
    OBVIOUS
  <1>5. TypeOK
    BY <1>1, <1>2, <1>3, <1>4 DEF TypeOK
  <1>6. PublishCount
    BY DEF PublishCount
  <1> QED
    BY <1>5, <1>6 DEF TypeInv

\* A kill only turns live processes dead and rewrites their exit records.
LEMMA KillTyped ==
    ASSUME TypeOK, NEW S, NEW written \in KilledWith, Kill(S, written)
    PROVE  /\ proc' \in [Suites -> {"none", "alive", "dead"}]
           /\ exit' \in [Suites -> [file : Files, code : Codes]]
  <1>1. written \in Files
    BY OrchestratorAssumption DEF KilledWith, Files
  <1> QED
    BY <1>1 DEF TypeOK, Kill, Codes, Killed

\* The steps of _execute_suite and of the processes keep the types.
LEMMA TypeWorker ==
    ASSUME TypeInv, NEW s \in Suites, WorkerStep(s) \/ ProcessExits(s)
    PROVE  TypeInv'
  <1> USE DEF TypeInv, TypeOK, PublishCount, WorkerFrame, Move, runVars, loopVars,
          abortVars, indexVars, TaskStates
  <1>1. CASE Pick(s)
    BY <1>1 DEF Pick
  <1>2. CASE Begin(s)
    BY <1>2 DEF Begin
  <1>3. CASE Spawn(s)
    BY <1>3 DEF Spawn
  <1>4. CASE SpawnRaises(s)
    BY <1>4, OrchestratorAssumption DEF SpawnRaises
  <1>5. CASE Register(s)
    BY <1>5 DEF Register
  <1>6. CASE CheckAbort(s)
    <2>1. /\ proc' \in [Suites -> {"none", "alive", "dead"}]
          /\ exit' \in [Suites -> [file : Files, code : Codes]]
      BY <1>6, KillTyped DEF CheckAbort
    <2> QED
      BY <1>6, <2>1 DEF CheckAbort
  <1>7. CASE TimeOut(s)
    <2>1. /\ proc' \in [Suites -> {"none", "alive", "dead"}]
          /\ exit' \in [Suites -> [file : Files, code : Codes]]
      BY <1>7, KillTyped DEF TimeOut
    <2> QED
      BY <1>7, <2>1 DEF TimeOut
  <1>8. CASE Collect(s)
    BY <1>8 DEF Collect
  <1>9. CASE ProcessExits(s)
    <2>1. exit' \in [Suites -> [file : Files, code : Codes]]
      BY <1>9, OrchestratorAssumption DEF ProcessExits
    <2> QED
      BY <1>9, <2>1 DEF ProcessExits
  <1> QED
    BY <1>1, <1>2, <1>3, <1>4, <1>5, <1>6, <1>7, <1>8, <1>9 DEF WorkerStep

\* Dispatch and collection on the main thread keep the types.
LEMMA TypeDispatch ==
    ASSUME TypeInv,
           \/ Submit \/ Await \/ Fill \/ Wait \/ (\E s \in Suites : Batch(s))
           \/ BatchDone \/ Drain \/ SeqNext \/ Join
    PROVE  TypeInv'
  <1> USE OrchestratorAssumption
      DEF TypeInv, TypeOK, PublishCount, DispatchFrame, runVars, loopVars,
          abortVars, indexVars, TaskStates, MainStates, Interruptible, Suites
  <1>1. CASE Submit
    <2>1. /\ task' \in [Suites -> TaskStates] /\ next' \in 1..(N + 1)
          /\ main' \in MainStates
      BY <1>1 DEF Submit, Enqueue
    <2> QED
      BY <1>1, <2>1 DEF Submit
  <1>2. CASE Await
    BY <1>2 DEF Await, TakeResult
  <1>3. CASE Fill
    <2>1. CASE Cardinality(pending) < Parallel /\ next <= N
      <3>1. /\ task' = [task EXCEPT ![next] = "queued"] /\ next' = next + 1
            /\ pending' = pending \cup {next} /\ main' = main
        BY <1>3, <2>1 DEF Fill, Enqueue
      <3>2. next \in Suites
        BY <2>1
      <3>3. /\ task' \in [Suites -> TaskStates] /\ next' \in 1..(N + 1)
            /\ pending' \subseteq Suites
        BY <3>1, <3>2
      <3> QED
        BY <1>3, <3>1, <3>3 DEF Fill
    <2>2. CASE ~(Cardinality(pending) < Parallel /\ next <= N)
      <3>1. main' \in {"join", "wait"} /\ UNCHANGED <<task, next, pending>>
        BY <1>3, <2>2 DEF Fill
      <3> QED
        BY <1>3, <3>1 DEF Fill
    <2> QED
      BY <2>1, <2>2
  <1>4. CASE Wait
    BY <1>4 DEF Wait
  <1>5. CASE \E s \in Suites : Batch(s)
    BY <1>5 DEF Batch, TakeResult
  <1>6. CASE BatchDone
    BY <1>6 DEF BatchDone
  <1>7. CASE Drain
    <2>1. /\ fate' \in Verdicts \cup {"running", "interrupted", "crashed"}
          /\ main' \in {"drain", "join"} /\ pending' \subseteq Suites
          /\ collected' \subseteq Suites
      BY <1>7 DEF Drain, TakeResult
    <2> QED
      BY <1>7, <2>1 DEF Drain
  <1>8. CASE SeqNext
    <2>1. CASE next > N
      BY <1>8, <2>1 DEF SeqNext
    <2>2. CASE ~(next > N) /\ task[next] = "raised"
      <3>1. main' = "ended" /\ fate' = "crashed" /\ UNCHANGED <<next, collected, trigger>>
        BY <1>8, <2>2 DEF SeqNext
      <3> QED
        BY <1>8, <3>1 DEF SeqNext
    <2>3. CASE ~(next > N) /\ task[next] = "done"
      <3>1. next \in Suites
        BY <2>3
      <3>2. /\ collected' = collected \cup {next} /\ fate' = fate
            /\ \/ trigger' = next /\ main' = "aggregate" /\ next' = next
               \/ next' = next + 1 /\ trigger' = trigger /\ main' = main
        BY <1>8, <2>3 DEF SeqNext
      <3> QED
        BY <1>8, <2>3, <3>1, <3>2 DEF SeqNext
    <2> QED
      BY <1>8, <2>1, <2>2, <2>3 DEF SeqNext
  <1>9. CASE Join
    BY <1>9 DEF Join
  <1> QED
    BY <1>1, <1>2, <1>3, <1>4, <1>5, <1>6, <1>7, <1>8, <1>9

\* Interrupts, the abort, aggregation and publication keep the types.
LEMMA TypeAbort ==
    ASSUME TypeInv,
           \/ Interrupt \/ InterruptAgain \/ CancelQueued \/ SignalAbort \/ Snapshot
           \/ (\E s \in Suites : KillOne(s)) \/ ReadNames \/ PublishIncomplete
    PROVE  TypeInv'
  <1> USE OrchestratorAssumption
      DEF TypeInv, TypeOK, PublishCount, AbortFrame, runVars, loopVars, abortVars,
          MainStates, Aborting, Interruptible
  <1>1. CASE Interrupt
    BY <1>1 DEF Interrupt
  <1>2. CASE InterruptAgain
    BY <1>2 DEF InterruptAgain
  <1>3. CASE CancelQueued
    <2>1. task' \in [Suites -> TaskStates]
      BY <1>3 DEF CancelQueued, TaskStates
    <2> QED
      BY <1>3, <2>1 DEF CancelQueued
  <1>4. CASE SignalAbort
    BY <1>4 DEF SignalAbort
  <1>5. CASE Snapshot
    BY <1>5 DEF Snapshot
  <1>6. ASSUME NEW s \in Suites, KillOne(s)
        PROVE  TypeInv'
    <2>1. /\ proc' \in [Suites -> {"none", "alive", "dead"}]
          /\ exit' \in [Suites -> [file : Files, code : Codes]]
          /\ registry' \subseteq Suites
      BY <1>6, KillTyped DEF KillOne
    <2> QED
      BY <1>6, <2>1 DEF KillOne
  <1>7. CASE ReadNames
    BY <1>7 DEF ReadNames
  <1>8. CASE PublishIncomplete
    BY <1>8 DEF PublishIncomplete
  <1> QED
    BY <1>1, <1>2, <1>3, <1>4, <1>5, <1>6, <1>7, <1>8

\* So do the first and the second publication of the index.
LEMMA TypePublish ==
    ASSUME TypeInv, Aggregate \/ Publish \/ Republish
    PROVE  TypeInv'
  <1> USE DEF TypeInv, TypeOK, PublishCount, IndexFrame, indexVars, runVars, taskVars,
          loopVars, abortVars, MainStates, Interruptible, Verdicts
  <1>1. CASE Aggregate
    BY <1>1 DEF Aggregate, RunStatus
  <1>2. CASE Publish
    BY <1>2 DEF Publish, PublishRaises
  <1>3. CASE Republish
    BY <1>3 DEF Republish, PublishRaises
  <1> QED
    BY <1>1, <1>2, <1>3

\* Every step keeps the types.
LEMMA TypeNext == TypeInv /\ [Next]_vars => TypeInv'
  <1> SUFFICES ASSUME TypeInv, [Next]_vars PROVE TypeInv'
    OBVIOUS
  <1>1. CASE MainStep
    BY <1>1, TypeDispatch, TypeAbort, TypePublish DEF MainStep
  <1>2. CASE Interrupt \/ InterruptAgain
    BY <1>2, TypeAbort
  <1>3. CASE \E s \in Suites : WorkerStep(s) \/ ProcessExits(s)
    BY <1>3, TypeWorker
  <1>4. CASE UNCHANGED vars
    BY <1>4 DEF vars, runVars, taskVars, loopVars, abortVars, indexVars, TypeInv,
                TypeOK, PublishCount
  <1> QED
    BY <1>1, <1>2, <1>3, <1>4 DEF Next, Terminated

\* Every reachable state of a run is well typed.
THEOREM Typing == Spec => []TypeOK
  <1>1. Spec => []TypeInv
    BY TypeInit, TypeNext, PTL DEF Spec
  <1> QED
    BY <1>1, PTL DEF TypeInv

-----------------------------------------------------------------------------
(* The abort protocol. *)

PoolStates == {"submit", "await", "fill", "wait", "batch", "drain", "cancel"}

\* The executor is used exactly by parallel runs; a suite not yet submitted to
\* it has no state, so submission never overwrites one.
Modes ==
    /\ main \in PoolStates => pool
    /\ main = "seq" => ~pool
    /\ pool => \A s \in Suites : next <= s => task[s] = "idle"

\* A live process belongs to a suite that is still executing; from its
\* registration on it is in the registry.
LiveProcesses ==
    \A s \in Suites : proc[s] = "alive" =>
        /\ task[s] \in {"spawned", "registered", "running"}
        /\ task[s] \in {"registered", "running"} => s \in registry

\* The first interrupt ends dispatch; a run it hit never aggregates.
Interrupts ==
    /\ main \in Interruptible \cup {"aggregate", "publish", "republish"} => interrupts = 0
    /\ main \in Aborting => interrupts = 1
    /\ interrupts > 0 => fate # "running"

\* From the snapshot on, a process somebody waits for is still to be visited,
\* and a process registered later meets the abort event.
Reached ==
    /\ interrupts = 1 /\ main \in {"snapshot", "kill", "paths", "join", "ended"}
         => abortEvent
    /\ interrupts = 1 /\ main \in {"kill", "paths", "join", "ended"}
         => \A s \in Suites : task[s] = "running" /\ proc[s] = "alive" => s \in toKill
    /\ AfterAbort => toKill = {}

AbortInv == TypeOK /\ Modes /\ LiveProcesses /\ Interrupts /\ Reached

\* No abort is under way at the start.
LEMMA AbortInit == Init => AbortInv
  <1> SUFFICES ASSUME Init PROVE AbortInv
    OBVIOUS
  <1>1. TypeOK
    BY TypeInit DEF TypeInv
  <1>2. Modes
    BY DEF Init, Modes, PoolStates
  <1>3. LiveProcesses
    BY DEF Init, LiveProcesses
  <1>4. Interrupts
    BY DEF Init, Interrupts, Aborting
  <1>5. Reached
    BY DEF Init, Reached, AfterAbort
  <1> QED
    BY <1>1, <1>2, <1>3, <1>4, <1>5 DEF AbortInv

\* A worker's step.  Outside a pool it is taken by the main thread, so none is
\* taken once the loop has been left.
LEMMA AbortWorker ==
    ASSUME AbortInv, NEW s \in Suites, WorkerStep(s) \/ ProcessExits(s)
    PROVE  Modes' /\ LiveProcesses' /\ Interrupts' /\ Reached'
  <1>0. UNCHANGED <<pool, main, fate, abortEvent, next, toKill, interrupts>>
    BY DEF WorkerStep, ProcessExits, Pick, Begin, Spawn, SpawnRaises, Register, CheckAbort,
           TimeOut, Collect, WorkerFrame, runVars, loopVars, abortVars
  <1>1. Interrupts'
    BY <1>0 DEF AbortInv, Interrupts
  <1>2. pool \/ main = "seq" \/ UNCHANGED task
    BY DEF WorkerStep, ProcessExits, Pick, Begin, Spawn, SpawnRaises, Register, CheckAbort,
           TimeOut, Collect, Move, Scheduled
  <1>3. Modes'
    <2>1. pool => \A t \in Suites : task[t] = "idle" => task'[t] = "idle"
      BY DEF WorkerStep, ProcessExits, Pick, Begin, Spawn, SpawnRaises, Register,
             CheckAbort, TimeOut, Collect, Move, AbortInv, TypeOK
    <2> QED
      BY <1>0, <2>1 DEF AbortInv, Modes
  <1>4. LiveProcesses'
    <2> USE DEF AbortInv, TypeOK, LiveProcesses, Move
    <2>1. CASE Pick(s) \/ Begin(s) \/ SpawnRaises(s) \/ Register(s)
      BY <2>1 DEF Pick, Begin, SpawnRaises, Register
    <2>2. CASE Spawn(s)
      BY <2>2 DEF Spawn
    <2>3. CASE CheckAbort(s)
      <3>1. CASE abortEvent
        BY <2>3, <3>1 DEF CheckAbort, Kill
      <3>2. CASE ~abortEvent
        BY <2>3, <3>2 DEF CheckAbort
      <3> QED
        BY <3>1, <3>2
    <2>4. CASE TimeOut(s)
      BY <2>4 DEF TimeOut, Kill
    <2>5. CASE Collect(s)
      BY <2>5 DEF Collect
    <2>6. CASE ProcessExits(s)
      BY <2>6 DEF ProcessExits
    <2> QED
      BY <2>1, <2>2, <2>3, <2>4, <2>5, <2>6 DEF WorkerStep
  <1>5. Reached'
    <2>1. \A t \in Suites : task'[t] = "running" /\ proc'[t] = "alive" =>
             \/ task[t] = "running" /\ proc[t] = "alive"
             \/ ~abortEvent
      <3> USE DEF AbortInv, TypeOK, LiveProcesses, Move
      <3>1. CASE Pick(s) \/ Begin(s) \/ SpawnRaises(s) \/ Register(s)
        BY <3>1 DEF Pick, Begin, SpawnRaises, Register
      <3>2. CASE Spawn(s)
        BY <3>2 DEF Spawn
      <3>3. CASE CheckAbort(s)
        <4>1. CASE abortEvent
          <5>1. \A t \in Suites : /\ proc'[t] = IF t = s THEN "dead" ELSE proc[t]
                                  /\ t # s => task'[t] = task[t]
            BY <3>3, <4>1 DEF CheckAbort, Kill
          <5> QED
            BY <5>1
        <4>2. CASE ~abortEvent
          BY <4>2
        <4> QED
          BY <4>1, <4>2
      <3>4. CASE TimeOut(s) \/ Collect(s)
        <4>1. task'[s] = "done" /\ \A t \in Suites : proc'[t] = "alive" => proc[t] = "alive"
          BY <3>4 DEF TimeOut, Collect, Kill
        <4>2. \A t \in Suites \ {s} : task'[t] = task[t]
          BY <3>4 DEF TimeOut, Collect
        <4> QED
          BY <4>1, <4>2
      <3>5. CASE ProcessExits(s)
        BY <3>5 DEF ProcessExits
      <3> QED
        BY <3>1, <3>2, <3>3, <3>4, <3>5 DEF WorkerStep
    <2> QED
      BY <1>0, <2>1 DEF AbortInv, Reached, AfterAbort
  <1> QED
    BY <1>1, <1>3, <1>4, <1>5

\* Dispatch and collection: no task starts or stops, and there is no interrupt yet.
LEMMA AbortDispatch ==
    ASSUME AbortInv,
           \/ Submit \/ Await \/ Fill \/ Wait \/ (\E s \in Suites : Batch(s))
           \/ BatchDone \/ Drain \/ SeqNext \/ Join
    PROVE  Modes' /\ LiveProcesses' /\ Interrupts' /\ Reached'
  <1> USE OrchestratorAssumption
  <1>1. /\ UNCHANGED <<pool, proc, registry, interrupts, toKill>>
        /\ main \in {"submit", "await", "fill", "wait", "batch", "drain", "seq", "join"}
    BY DEF Submit, Await, Fill, Wait, Batch, BatchDone, Drain, SeqNext, Join,
           DispatchFrame, runVars, abortVars
  <1>2. \/ UNCHANGED <<task, next>>
        \/ /\ main \in {"submit", "fill"} /\ next \in Suites
           /\ task' = [task EXCEPT ![next] = "queued"] /\ next' = next + 1
        \/ main = "seq" /\ next' = next + 1 /\ task' = task
    BY DEF Submit, Await, Fill, Wait, Batch, BatchDone, Drain, SeqNext, Join, Enqueue,
           loopVars, AbortInv, TypeOK, Suites
  <1>3. \/ main # "join" /\ interrupts = 0
        \/ main = "join" /\ UNCHANGED <<fate, abortEvent>>
           /\ main' = (IF fate = "running" THEN "aggregate" ELSE "ended")
    <2>1. CASE main = "join"
      BY <2>1 DEF Submit, Await, Fill, Wait, Batch, BatchDone, Drain, SeqNext, Join
    <2>2. CASE main # "join"
      BY <1>1, <2>2 DEF AbortInv, Interrupts, Interruptible
    <2> QED
      BY <2>1, <2>2
  <1>4. main = "seq" => main' \in {"seq", "aggregate", "ended"}
    BY DEF Submit, Await, Fill, Wait, Batch, BatchDone, Drain, SeqNext, Join
  <1>5. main # "seq" => main' \notin {"seq", "cancel", "signal", "snapshot", "kill", "paths"}
    BY DEF Submit, Await, Fill, Wait, Batch, BatchDone, Drain, SeqNext, Join, TakeResult
  <1>6. Modes'
    <2>1. main' \in PoolStates => pool'
      <3>1. CASE main = "seq"
        BY <3>1, <1>4 DEF PoolStates
      <3>2. CASE main = "join"
        BY <3>2, <1>3 DEF PoolStates
      <3>3. CASE main \notin {"seq", "join"}
        BY <3>3, <1>1 DEF PoolStates, AbortInv, Modes
      <3> QED
        BY <3>1, <3>2, <3>3
    <2>2. main' = "seq" => ~pool'
      BY <1>1, <1>5 DEF AbortInv, Modes
    <2>3. pool' => \A s \in Suites : next' <= s => task'[s] = "idle"
      <3>1. CASE UNCHANGED <<task, next>>
        BY <3>1, <1>1 DEF AbortInv, Modes
      <3>2. CASE main = "seq"
        BY <3>2, <1>1 DEF AbortInv, Modes
      <3>3. CASE /\ next \in Suites
                 /\ task' = [task EXCEPT ![next] = "queued"] /\ next' = next + 1
        BY <3>3, <1>1 DEF AbortInv, Modes, TypeOK, Suites
      <3> QED
        BY <1>2, <3>1, <3>2, <3>3
    <2> QED
      BY <2>1, <2>2, <2>3 DEF Modes
  <1>7. LiveProcesses'
    <2>1. CASE task' = task
      BY <2>1, <1>1 DEF AbortInv, LiveProcesses
    <2>2. CASE /\ main \in {"submit", "fill"} /\ next \in Suites
               /\ task' = [task EXCEPT ![next] = "queued"]
      <3>1. task[next] = "idle"
        BY <2>2 DEF AbortInv, Modes, PoolStates, Suites
      <3> QED
        BY <2>2, <3>1, <1>1 DEF AbortInv, LiveProcesses, TypeOK
    <2> QED
      BY <1>2, <2>1, <2>2
  <1>8. Interrupts'
    <2>1. CASE main # "join"
      BY <2>1, <1>1, <1>3, <1>4, <1>5 DEF Interrupts, Aborting, AbortInv, TypeOK
    <2>2. CASE main = "join"
      BY <2>2, <1>1, <1>3 DEF Interrupts, Aborting, Interruptible, AbortInv, TypeOK
    <2> QED
      BY <2>1, <2>2
  <1>9. Reached'
    <2>1. CASE main # "join"
      BY <2>1, <1>1, <1>3 DEF Reached, AfterAbort
    <2>2. CASE main = "join"
      <3>1. UNCHANGED task
        BY <1>2, <2>2
      <3> QED
        BY <2>2, <3>1, <1>1, <1>3 DEF Reached, AfterAbort, AbortInv
    <2> QED
      BY <2>1, <2>2
  <1> QED
    BY <1>6, <1>7, <1>8, <1>9

\* The interrupt and the steps of _abort_run.
LEMMA AbortAbort ==
    ASSUME AbortInv,
           \/ Interrupt \/ InterruptAgain \/ CancelQueued \/ SignalAbort \/ Snapshot
           \/ (\E s \in Suites : KillOne(s)) \/ ReadNames \/ PublishIncomplete
    PROVE  Modes' /\ LiveProcesses' /\ Interrupts' /\ Reached'
  <1> USE OrchestratorAssumption
      DEF AbortFrame, runVars, loopVars, abortVars, AbortInv, Modes, LiveProcesses,
          Interrupts, Reached, AfterAbort, PoolStates, Interruptible, Aborting
  <1>1. CASE Interrupt
    BY <1>1 DEF Interrupt
  <1>2. CASE InterruptAgain
    BY <1>2 DEF InterruptAgain
  <1>3. CASE CancelQueued
    <2>1. \A s \in Suites : task'[s] \in {task[s], "cancelled"}
                            /\ (task[s] # "queued" => task'[s] = task[s])
      BY <1>3 DEF CancelQueued
    <2>2. \A s \in Suites : next <= s => task'[s] = task[s] \/ ~pool
      BY <1>3 DEF CancelQueued
    <2> QED
      BY <1>3, <2>1, <2>2 DEF CancelQueued
  <1>4. CASE SignalAbort
    BY <1>4 DEF SignalAbort
  <1>5. CASE Snapshot
    BY <1>5 DEF Snapshot
  <1>6. ASSUME NEW s \in Suites, KillOne(s)
        PROVE  Modes' /\ LiveProcesses' /\ Interrupts' /\ Reached'
    <2>1. \A t \in Suites : proc'[t] = "alive" =>
             /\ proc[t] = "alive" /\ t # s
             /\ (t \in registry => t \in registry') /\ (t \in toKill => t \in toKill')
      BY <1>6 DEF KillOne, Kill
    <2>2. /\ UNCHANGED <<pool, main, fate, task, next, abortEvent, interrupts>>
          /\ main = "kill"
      BY <1>6 DEF KillOne
    <2> QED
      BY <2>1, <2>2
  <1>7. CASE ReadNames
    BY <1>7 DEF ReadNames
  <1>8. CASE PublishIncomplete
    BY <1>8 DEF PublishIncomplete
  <1> QED
    BY <1>1, <1>2, <1>3, <1>4, <1>5, <1>6, <1>7, <1>8

\* Publishing leaves the abort and the tasks alone.
LEMMA AbortPublish ==
    ASSUME AbortInv, Aggregate \/ Publish \/ Republish
    PROVE  Modes' /\ LiveProcesses' /\ Interrupts' /\ Reached'
  <1>1. /\ UNCHANGED <<pool, task, proc, registry, next, toKill, interrupts, abortEvent>>
        /\ interrupts = 0
        /\ main' \in {"publish", "republish", "ended"}
    BY DEF Aggregate, Publish, Republish, IndexFrame, runVars, taskVars, loopVars, abortVars,
           AbortInv, Interrupts
  <1> QED
    BY <1>1 DEF AbortInv, Modes, LiveProcesses, Interrupts, Reached, AfterAbort, PoolStates,
                Interruptible, Aborting

\* Every step keeps the abort invariant.
LEMMA AbortNext == AbortInv /\ TypeOK' /\ [Next]_vars => AbortInv'
  <1> SUFFICES ASSUME AbortInv, TypeOK', [Next]_vars PROVE AbortInv'
    OBVIOUS
  <1>1. CASE MainStep
    BY <1>1, AbortDispatch, AbortAbort, AbortPublish DEF MainStep, AbortInv
  <1>2. CASE Interrupt \/ InterruptAgain
    BY <1>2, AbortAbort DEF AbortInv
  <1>3. CASE \E s \in Suites : WorkerStep(s) \/ ProcessExits(s)
    BY <1>3, AbortWorker DEF AbortInv
  <1>4. CASE UNCHANGED vars
    BY <1>4 DEF vars, runVars, taskVars, loopVars, abortVars, indexVars, AbortInv,
                Modes, LiveProcesses, Interrupts, Reached, AfterAbort
  <1> QED
    BY <1>1, <1>2, <1>3, <1>4 DEF Next, Terminated

\* _abort_run reaches every process a thread waits for, also the ones spawned
\* while it was taking its snapshot: what the comments in _spawn_process and
\* _abort_run promise, for every plan length and worker count.
THEOREM AbortReaches == Spec => []AbortReachesEverySpawn
  <1>1. AbortInv => AbortReachesEverySpawn
    BY DEF AbortInv, Reached, AbortReachesEverySpawn, AfterAbort
  <1> QED
    BY <1>1, Typing, AbortInit, AbortNext, PTL DEF Spec

-----------------------------------------------------------------------------
(* Reports and verdicts. *)

Begun == {"begun", "spawned", "registered", "running", "done", "raised"}

\* An attempt is recorded when a suite begins, and stays recorded.
Started == \A s \in Suites : s \in attempted <=> task[s] \in Begun

\* Outcomes are those of finished suites; a trigger is one of them, and failed.
Gathered ==
    /\ \A s \in collected : task[s] = "done"
    /\ trigger # NoSuite => trigger \in collected /\ Failing(trigger)

\* While suites are dispatched, every suite that was is collected or waited for.
Awaited ==
    /\ main \in {"submit", "await", "fill", "wait", "seq"} => trigger = NoSuite
    /\ main = "drain" => trigger # NoSuite
    /\ main \in {"fill", "wait", "batch", "drain"} =>
           \A s \in Suites : s < next => s \in collected \cup pending
    /\ main = "seq" => \A s \in Suites : /\ s < next => s \in collected
                                         /\ s > next => task[s] = "idle"

\* From the end of an undisturbed dispatch on, everything started is collected.
Complete ==
    /\ collected = attempted /\ (trigger = NoSuite => collected = Suites)
    /\ \A s \in Suites : task[s] \in {"idle", "done"}

Whole ==
    \/ main = "join" /\ fate = "running"
    \/ main \in {"aggregate", "publish", "republish"}
    \/ fate \in Verdicts
    => Complete

\* A verdict is reached by aggregation only; what is on disk follows it.
Verdict ==
    /\ fate \in Verdicts => main \in {"publish", "republish", "ended"}
    /\ main = "republish" => fate = "error"
    /\ PassedIsEarned
    /\ main = "ended" => IndexAgrees

\* What is known from the proofs of types and of the abort.
Known == TypeInv /\ AbortInv

VerdictInv == Started /\ Gathered /\ Awaited /\ Whole /\ Verdict

LEMMA VerdictInit == Init => VerdictInv
<1> SUFFICES ASSUME Init PROVE VerdictInv
  OBVIOUS
<1>1. Started /\ Gathered
  BY DEF Init, Started, Gathered, Begun
<1>2. Awaited
  BY DEF Init, Awaited, Suites
<1>3. Whole /\ Verdict
  BY DEF Init, Whole, Verdict, PassedIsEarned, Verdicts
<1>4. QED
  BY <1>1, <1>2, <1>3 DEF VerdictInv

\* A step of a worker or a process leaves what is finished as it is, and in a
\* settled run nothing is left to do.
LEMMA WorkerEffect ==
    ASSUME Known, NEW s \in Suites, WorkerStep(s) \/ ProcessExits(s)
    PROVE  /\ UNCHANGED <<pool, main, fate, next, pending, collected, trigger, index, publishFaults>>
           /\ \A t \in Suites : task[t] = "done" => task'[t] = "done" /\ exit'[t] = exit[t]
           /\ \A t \in Suites : t # s => task'[t] = task[t]
           /\ main = "seq" /\ task'[s] # task[s] => s = next
           /\ task[s] \in {"idle", "done"} /\ main # "seq" => UNCHANGED <<task, attempted, exit>>
<1>1. TypeOK /\ Modes /\ LiveProcesses
  BY DEF Known, AbortInv
<1>2. UNCHANGED <<pool, main, fate, next, pending, collected, trigger, index, publishFaults>>
  BY DEF WorkerStep, ProcessExits, Pick, Begin, Spawn, SpawnRaises, Register, CheckAbort,
         TimeOut, Collect, WorkerFrame, runVars, loopVars, indexVars
<1>3. \A t \in Suites : task[t] = "done" => task'[t] = "done"
  BY <1>1 DEF WorkerStep, ProcessExits, Pick, Begin, Spawn, SpawnRaises, Register, CheckAbort,
         TimeOut, Collect, Move, TypeOK
<1>4. \A t \in Suites : proc[t] # "alive" => exit'[t] = exit[t]
  BY <1>1 DEF WorkerStep, ProcessExits, Pick, Begin, Spawn, SpawnRaises, Register, CheckAbort,
         TimeOut, Collect, Kill, TypeOK
<1>5. \A t \in Suites : task[t] \in {"idle", "done"} => proc[t] # "alive"
  BY <1>1 DEF LiveProcesses
<1>6. \A t \in Suites : t # s => task'[t] = task[t]
  BY <1>1 DEF WorkerStep, ProcessExits, Pick, Begin, Spawn, SpawnRaises, Register, CheckAbort,
         TimeOut, Collect, Move, TypeOK
<1>7. main = "seq" /\ task'[s] # task[s] => s = next
  <2>1. main = "seq" => ~pool
    BY <1>1 DEF Modes
  <2>2. task'[s] # task[s] => Scheduled(s)
    BY DEF WorkerStep, ProcessExits, Pick, Begin, Spawn, SpawnRaises, Register, CheckAbort,
           TimeOut, Collect, Move
  <2>3. QED
    BY <2>1, <2>2 DEF Scheduled
<1>8. ASSUME task[s] \in {"idle", "done"}, main # "seq"
      PROVE  UNCHANGED <<task, attempted, exit>>
  <2>1. ~ProcessExits(s)
    BY <1>5, <1>8 DEF ProcessExits
  <2>2. ~WorkerStep(s)
    BY <1>8 DEF WorkerStep, Pick, Begin, Spawn, SpawnRaises, Register, CheckAbort, TimeOut,
                Collect, Move, Scheduled
  <2>3. QED
    BY <2>1, <2>2
<1>9. QED
  BY <1>2, <1>3, <1>4, <1>5, <1>6, <1>7, <1>8

LEMMA VerdictWorker ==
    ASSUME Known, VerdictInv, NEW s \in Suites, WorkerStep(s) \/ ProcessExits(s)
    PROVE  VerdictInv'
<1>1. /\ UNCHANGED <<pool, main, fate, next, pending, collected, trigger, index, publishFaults>>
      /\ \A t \in Suites : task[t] = "done" => task'[t] = "done" /\ exit'[t] = exit[t]
      /\ \A t \in Suites : t # s => task'[t] = task[t]
      /\ main = "seq" /\ task'[s] # task[s] => s = next
      /\ task[s] \in {"idle", "done"} /\ main # "seq" => UNCHANGED <<task, attempted, exit>>
  BY WorkerEffect
<1>2. TypeOK
  BY DEF Known, AbortInv
<1>3. Started'
  <2> USE <1>2 DEF VerdictInv, Started, Begun, Move, TypeOK
  <2>1. CASE Begin(s)
    BY <2>1 DEF Begin
  <2>2. CASE ~Begin(s)
    <3>1. UNCHANGED attempted
      BY <2>2 DEF WorkerStep, ProcessExits, Pick, Spawn, SpawnRaises, Register, CheckAbort, TimeOut, Collect
    <3>2. task'[s] \in Begun <=> task[s] \in Begun
      BY <2>2 DEF WorkerStep, ProcessExits, Pick, Spawn, SpawnRaises, Register, CheckAbort, TimeOut, Collect
    <3>3. QED
      BY <1>1, <3>1, <3>2
  <2>3. QED
    BY <2>1, <2>2
<1>4. Gathered'
  BY <1>1, <1>2 DEF VerdictInv, Gathered, Failing, Outcome, TypeOK
<1>5. Awaited'
  BY <1>1, <1>2 DEF VerdictInv, Awaited, TypeOK, Suites
<1>6. ASSUME \/ main = "join" /\ fate = "running"
             \/ main \in {"aggregate", "publish", "republish"}
             \/ fate \in Verdicts
      PROVE  Complete' /\ UNCHANGED exit
  <2>1. Complete /\ main # "seq"
    BY <1>6 DEF VerdictInv, Whole, Verdict
  <2>2. UNCHANGED <<task, attempted, exit>>
    BY <1>1, <2>1 DEF Complete
  <2>3. QED
    BY <1>1, <2>1, <2>2 DEF Complete
<1>7. Whole'
  BY <1>1, <1>6 DEF Whole
<1>8. Verdict'
  BY <1>1, <1>6 DEF VerdictInv, Verdict, PassedIsEarned, IndexAgrees, Verdicts
<1>9. QED
  BY <1>3, <1>4, <1>5, <1>7, <1>8 DEF VerdictInv

\* Taking a result: the suite's outcome, or the end of the run.
LEMMA Taken ==
    ASSUME Known, VerdictInv, NEW s \in Suites, TakeResult(s), UNCHANGED <<task, exit, trigger>>
    PROVE  /\ \A t \in collected' : task'[t] = "done"
           /\ \/ main' = "join" /\ fate' = "crashed" /\ collected' = collected
              \/ main' = main /\ fate' = fate /\ task[s] = "done" /\ collected' = collected \cup {s}
BY DEF TakeResult, VerdictInv, Gathered, Finished

\* Dispatch and collection, by the three modes of the run.
LEMMA VerdictDispatch ==
    ASSUME Known, VerdictInv,
           \/ Submit \/ Await \/ Fill \/ Wait \/ (\E s \in Suites : Batch(s))
           \/ BatchDone \/ Drain \/ SeqNext
    PROVE  VerdictInv'
<1>1. /\ UNCHANGED <<pool, exit, attempted, index, publishFaults>>
      /\ main \in {"submit", "await", "fill", "wait", "batch", "drain", "seq"}
      /\ TypeOK /\ Modes /\ Cardinality({}) = 0
  BY FS_EmptySet DEF Submit, Await, Fill, Wait, Batch, BatchDone, Drain, SeqNext, DispatchFrame, runVars,
     indexVars, Known, AbortInv
<1>2. fate \notin Verdicts /\ fate' \in {fate, "crashed"}
  <2>1. fate \notin Verdicts
    BY <1>1 DEF VerdictInv, Verdict
  <2>2. fate' \in {fate, "crashed"}
    BY DEF Submit, Await, Fill, Wait, Batch, BatchDone, Drain, SeqNext, TakeResult
  <2>3. QED
    BY <2>1, <2>2
<1>3. main' \notin {"publish", "republish"} /\ (main' = "ended" => fate' = "crashed")
  BY DEF Submit, Await, Fill, Wait, Batch, BatchDone, Drain, SeqNext, TakeResult
<1>4. Verdict'
  BY <1>1, <1>2, <1>3 DEF Verdict, PassedIsEarned, IndexAgrees, Verdicts
<1>5. ASSUME Submit \/ Fill \/ Wait \/ BatchDone PROVE Started' /\ Gathered' /\ Awaited' /\ Whole'
  <2>1. UNCHANGED <<fate, collected, trigger>>
    BY <1>5 DEF Submit, Fill, Wait, BatchDone, loopVars
  <2>2. \/ UNCHANGED <<task, next, pending>>
        \/ /\ next \in Suites /\ task' = [task EXCEPT ![next] = "queued"] /\ next' = next + 1
           /\ main \in {"submit", "fill"} /\ main' = main
           /\ main = "fill" => pending' = pending \cup {next}
    BY <1>1, <1>5, OrchestratorAssumption DEF Submit, Fill, Wait, BatchDone, Enqueue, loopVars, TypeOK, Suites
  <2>3. ASSUME next \in Suites, main \in {"submit", "fill"} PROVE task[next] = "idle"
    BY <1>1, <2>3 DEF Modes, PoolStates, Suites
  <2>4. Started' /\ Gathered'
    <3>1. CASE UNCHANGED <<task, next, pending>>
      BY <1>1, <2>1, <3>1 DEF VerdictInv, Started, Gathered, Failing, Outcome
    <3>2. CASE ~UNCHANGED <<task, next, pending>>
      BY <1>1, <2>1, <2>2, <2>3, <3>2 DEF VerdictInv, Started, Gathered, Failing, Outcome, Begun, TypeOK
    <3>3. QED
      BY <3>1, <3>2
  <2>5. Awaited'
    <3>1. main' \in {"submit", "await"} => main = "submit"
      BY <1>5 DEF Submit, Fill, Wait, BatchDone
    <3>2. /\ main' \in {"fill", "wait", "batch", "drain"} => main \in {"fill", "wait", "batch"}
          /\ main' \in {"fill", "wait"} => main = "fill" \/ trigger = NoSuite
          /\ main' = "drain" => trigger # NoSuite /\ main' # "seq"
          /\ main' # "seq"
      BY <1>5 DEF Submit, Fill, Wait, BatchDone
    <3>3. \A s \in Suites : s < next' /\ main' \in {"fill", "wait", "batch", "drain"} => s \in collected \cup pending'
      <4>1. CASE UNCHANGED <<task, next, pending>>
        BY <3>2, <4>1 DEF VerdictInv, Awaited
      <4>2. CASE main = "fill" /\ next \in Suites /\ next' = next + 1 /\ pending' = pending \cup {next}
        BY <4>2, OrchestratorAssumption DEF VerdictInv, Awaited, Suites
      <4>3. QED
        BY <2>2, <3>2, <4>1, <4>2
    <3>4. QED
      BY <2>1, <3>1, <3>2, <3>3 DEF VerdictInv, Awaited
  <2>6. Whole'
    <3>1. SUFFICES ASSUME main' = "join" PROVE Complete'
      BY <1>2, <1>5 DEF Whole, Submit, Fill, Wait, BatchDone
    <3>2. Fill /\ pending = {} /\ UNCHANGED <<task, next, pending>>
      BY <1>5, <3>1 DEF Fill, Submit, Wait, BatchDone
    <3>3. ~(0 < Parallel /\ next <= N)
      BY <1>1, <3>1, <3>2 DEF Fill
    <3>4. next = N + 1
      BY <1>1, <3>3, OrchestratorAssumption DEF TypeOK
    <3>5. Suites \subseteq collected
      BY <3>2, <3>4, OrchestratorAssumption DEF Fill, VerdictInv, Awaited, Suites
    <3>6. QED
      BY <1>1, <2>1, <3>2, <3>5 DEF VerdictInv, Started, Gathered, Complete, TypeOK, Begun
  <2>7. QED
    BY <2>4, <2>5, <2>6
<1>6. ASSUME Await PROVE Started' /\ Gathered' /\ Awaited' /\ Whole'
  <2>1. UNCHANGED <<task, next, pending, trigger>> /\ main = "await" /\ trigger = NoSuite
    BY <1>6 DEF Await, VerdictInv, Awaited
  <2>2. CASE collected = Suites
    <3>1. main' = "join" /\ UNCHANGED <<fate, collected>>
      BY <1>6, <2>2 DEF Await
    <3>2. Started' /\ Gathered' /\ Awaited'
      BY <1>1, <2>1, <3>1 DEF VerdictInv, Started, Gathered, Awaited, Failing, Outcome
    <3>3. Complete'
      BY <1>1, <2>1, <2>2, <3>1 DEF VerdictInv, Started, Gathered, Complete, TypeOK, Begun
    <3>4. QED
      BY <3>2, <3>3 DEF Whole
  <2>3. CASE collected # Suites
    <3>1. PICK s \in Suites : TakeResult(s)
      BY <1>6, <2>3 DEF Await
    <3>2. /\ \A t \in collected' : task'[t] = "done"
          /\ \/ main' = "join" /\ fate' = "crashed" /\ collected' = collected
             \/ main' = main /\ fate' = fate /\ collected' = collected \cup {s}
      BY <1>1, <2>1, <3>1, Taken
    <3>3. QED
      BY <1>1, <1>2, <2>1, <3>2 DEF VerdictInv, Started, Gathered, Awaited, Whole, Verdicts
  <2>4. QED
    BY <2>2, <2>3
<1>7. ASSUME NEW s \in Suites, Batch(s) PROVE Started' /\ Gathered' /\ Awaited' /\ Whole'
  <2>1. UNCHANGED <<task, next>> /\ main = "batch" /\ pending' = pending \ {s} /\ TakeResult(s)
    BY <1>7 DEF Batch
  <2>2. /\ \A t \in collected' : task'[t] = "done"
        /\ \/ main' = "join" /\ fate' = "crashed" /\ collected' = collected /\ task[s] = "raised"
           \/ main' = main /\ fate' = fate /\ task[s] = "done" /\ collected' = collected \cup {s}
    BY <2>1 DEF TakeResult, VerdictInv, Gathered, Finished
  <2>3. \/ trigger' = s /\ task[s] = "done" /\ Failing(s)
        \/ UNCHANGED trigger
    BY <1>7 DEF Batch
  <2>4. Gathered'
    BY <1>1, <2>1, <2>2, <2>3 DEF VerdictInv, Gathered, Failing, Outcome
  <2>5. QED
    BY <1>1, <1>2, <2>1, <2>2, <2>4 DEF VerdictInv, Started, Awaited, Whole, Verdicts
<1>8. ASSUME Drain PROVE Started' /\ Gathered' /\ Awaited' /\ Whole'
  <2>1. UNCHANGED <<task, next, trigger>> /\ main = "drain" /\ trigger # NoSuite
    BY <1>8 DEF Drain, VerdictInv, Awaited
  <2>2. CASE pending = {}
    <3>1. main' = "join" /\ UNCHANGED <<fate, collected, pending>>
      BY <1>8, <2>2 DEF Drain
    <3>2. Started' /\ Gathered' /\ Awaited'
      BY <1>1, <2>1, <3>1 DEF VerdictInv, Started, Gathered, Awaited, Failing, Outcome
    <3>3. \A t \in Suites : task[t] # "idle" => t \in collected
      <4>1. pool
        BY <1>1, <2>1 DEF Modes, PoolStates
      <4>2. \A t \in Suites : task[t] # "idle" => t < next
        BY <1>1, <4>1 DEF Modes, TypeOK, Suites
      <4>3. QED
        BY <2>1, <2>2, <4>2 DEF VerdictInv, Awaited
    <3>4. Complete'
      BY <1>1, <2>1, <3>1, <3>3 DEF VerdictInv, Started, Gathered, Complete, TypeOK, Begun
    <3>5. QED
      BY <3>2, <3>4 DEF Whole
  <2>3. CASE pending # {}
    <3>1. PICK s \in pending : TakeResult(s) /\ pending' = pending \ {s}
      BY <1>8, <2>3 DEF Drain
    <3>2. /\ \A t \in collected' : task'[t] = "done"
          /\ \/ main' = "join" /\ fate' = "crashed" /\ collected' = collected
             \/ main' = main /\ fate' = fate /\ collected' = collected \cup {s}
      <4>1. s \in Suites
        BY <1>1 DEF TypeOK
      <4>2. QED
        BY <1>1, <2>1, <3>1, <4>1, Taken
    <3>3. QED
      BY <1>1, <1>2, <2>1, <3>1, <3>2 DEF VerdictInv, Started, Gathered, Awaited, Whole, Verdicts, Failing, Outcome
  <2>4. QED
    BY <2>2, <2>3
<1>9. ASSUME SeqNext PROVE Started' /\ Gathered' /\ Awaited' /\ Whole'
  <2>1. /\ UNCHANGED <<task, pending>> /\ main = "seq" /\ trigger = NoSuite
        /\ \A s \in Suites : (s < next => s \in collected) /\ (s > next => task[s] = "idle")
    BY <1>9 DEF SeqNext, VerdictInv, Awaited
  <2>2. CASE next > N
    <3>1. main' = "aggregate" /\ UNCHANGED <<fate, next, collected, trigger>>
      BY <1>9, <2>2 DEF SeqNext
    <3>2. Suites \subseteq collected
      BY <1>1, <2>1, <2>2, OrchestratorAssumption DEF TypeOK, Suites
    <3>3. Started' /\ Gathered' /\ Awaited'
      BY <1>1, <2>1, <3>1 DEF VerdictInv, Started, Gathered, Awaited, Failing, Outcome
    <3>4. Complete'
      BY <1>1, <2>1, <3>1, <3>2 DEF VerdictInv, Started, Gathered, Complete, TypeOK, Begun
    <3>5. QED
      BY <3>3, <3>4 DEF Whole
  <2>3. CASE ~(next > N) /\ task[next] = "raised"
    <3>1. main' = "ended" /\ fate' = "crashed" /\ UNCHANGED <<next, collected, trigger>>
      BY <1>9, <2>3 DEF SeqNext
    <3>2. QED
      BY <1>1, <2>1, <3>1 DEF VerdictInv, Started, Gathered, Awaited, Whole, Failing, Outcome, Verdicts
  <2>4. CASE ~(next > N) /\ task[next] = "done"
    <3>1. next \in Suites
      BY <1>1, <2>4, OrchestratorAssumption DEF TypeOK, Suites
    <3>2. /\ collected' = collected \cup {next} /\ fate' = fate
          /\ \/ trigger' = next /\ Failing(next) /\ main' = "aggregate" /\ next' = next
             \/ next' = next + 1 /\ trigger' = trigger /\ main' = main
      BY <1>9, <2>4 DEF SeqNext
    <3>3. Started' /\ Gathered'
      BY <1>1, <2>1, <2>4, <3>2 DEF VerdictInv, Started, Gathered, Failing, Outcome
    <3>4. CASE trigger' = next /\ Failing(next) /\ main' = "aggregate" /\ next' = next
      <4>1. \A s \in Suites : s \in collected' \/ task[s] = "idle"
        BY <2>1, <3>1, <3>2 DEF Suites
      <4>2. trigger' # NoSuite
        BY <3>1, <3>4 DEF Suites, NoSuite
      <4>3. Complete'
        BY <1>1, <2>1, <3>1, <3>2, <3>3, <4>1, <4>2 DEF Started, Gathered, Complete, TypeOK, Begun
      <4>4. QED
        BY <3>3, <3>4, <4>3 DEF Awaited, Whole
    <3>5. CASE next' = next + 1 /\ trigger' = trigger /\ main' = main
      <4>1. \A s \in Suites : (s < next' => s \in collected') /\ (s > next' => task[s] = "idle")
        BY <2>1, <3>1, <3>2, <3>5 DEF Suites
      <4>2. QED
        BY <1>2, <2>1, <3>2, <3>3, <3>5, <4>1 DEF Awaited, Whole, Verdicts
    <3>6. QED
      BY <3>2, <3>4, <3>5
  <2>5. QED
    BY <1>9, <2>2, <2>3, <2>4 DEF SeqNext
<1>10. QED
  BY <1>4, <1>5, <1>6, <1>7, <1>8, <1>9 DEF VerdictInv

\* The interrupt, the abort, and the join on the way out or to the aggregation.
LEMMA VerdictAbort ==
    ASSUME Known, VerdictInv,
           \/ Interrupt \/ InterruptAgain \/ CancelQueued \/ SignalAbort \/ Snapshot
           \/ (\E s \in Suites : KillOne(s)) \/ ReadNames \/ PublishIncomplete \/ Join
    PROVE  VerdictInv'
<1>1. TypeOK /\ LiveProcesses /\ Interrupts /\ fate \notin Verdicts
      /\ main \in Interruptible \cup Aborting \cup {"join"}
  BY DEF Known, AbortInv, VerdictInv, Verdict, Interrupt, InterruptAgain, CancelQueued, SignalAbort, Snapshot,
         KillOne, ReadNames, PublishIncomplete, Join, Interruptible, Aborting
<1>2. /\ UNCHANGED <<attempted, collected, trigger, publishFaults>>
      /\ \A t \in Suites : task[t] = "done" => task'[t] = "done" /\ exit'[t] = exit[t]
      /\ \A t \in Suites : task'[t] \in Begun <=> task[t] \in Begun
  <2>1. UNCHANGED <<attempted, collected, trigger, publishFaults>>
    BY DEF Interrupt, InterruptAgain, CancelQueued, SignalAbort, Snapshot, KillOne, ReadNames, PublishIncomplete,
           Join, AbortFrame, DispatchFrame, loopVars, indexVars
  <2>2. \A t \in Suites : task'[t] = task[t] \/ (task[t] = "queued" /\ task'[t] = "cancelled")
    BY DEF Interrupt, InterruptAgain, CancelQueued, SignalAbort, Snapshot, KillOne, ReadNames, PublishIncomplete, Join
  <2>3. \A t \in Suites : proc[t] # "alive" => exit'[t] = exit[t]
    BY DEF Interrupt, InterruptAgain, CancelQueued, SignalAbort, Snapshot, KillOne, ReadNames, PublishIncomplete,
           Join, DispatchFrame, Kill
  <2>4. \A t \in Suites : task[t] = "done" => proc[t] # "alive"
    BY <1>1 DEF LiveProcesses
  <2>5. QED
    BY <2>1, <2>2, <2>3, <2>4 DEF Begun
<1>3. Started' /\ Gathered'
  <2>1. Started'
    BY <1>2 DEF VerdictInv, Started
  <2>2. \A t \in collected : t \in Suites /\ task'[t] = "done" /\ exit'[t] = exit[t]
    BY <1>1, <1>2 DEF VerdictInv, Gathered, TypeOK
  <2>3. Gathered'
    BY <1>2, <2>2 DEF VerdictInv, Gathered, Failing, Outcome
  <2>4. QED
    BY <2>1, <2>3
<1>4. CASE ~Join
  <2>1. fate' \in {"interrupted", "crashed"} /\ main' \in {"cancel", "signal", "snapshot", "kill", "paths", "join", "ended"}
    <3>1. main \in Aborting => fate \notin Verdicts \cup {"running"}
      BY <1>1 DEF Interrupts, TypeOK, Aborting
    <3>2. QED
      BY <1>1, <1>4, <3>1 DEF Interrupt, InterruptAgain, CancelQueued, SignalAbort, Snapshot, KillOne, ReadNames,
         PublishIncomplete, TypeOK, Aborting
  <2>2. QED
    BY <1>3, <2>1 DEF VerdictInv, Awaited, Whole, Verdict, PassedIsEarned, IndexAgrees, Verdicts
<1>5. CASE Join
  <2>1. UNCHANGED <<fate, task, index, publishFaults>> /\ main = "join"
        /\ main' = IF fate = "running" THEN "aggregate" ELSE "ended"
    BY <1>5 DEF Join, DispatchFrame, indexVars
  <2>2. QED
    BY <1>1, <1>2, <1>3, <2>1 DEF VerdictInv, Awaited, Whole, Verdict, Complete, PassedIsEarned, IndexAgrees, Verdicts
<1>6. QED
  BY <1>4, <1>5

\* Aggregation turns collected outcomes into the verdict, publication writes it.
LEMMA VerdictPublish ==
    ASSUME Known, VerdictInv, Aggregate \/ Publish \/ Republish
    PROVE  VerdictInv'
<1>1. UNCHANGED <<task, proc, exit, attempted, next, pending, collected, trigger>>
      /\ main \in {"aggregate", "publish", "republish"} /\ main' \in {"publish", "republish", "ended"}
  BY DEF Aggregate, Publish, Republish, IndexFrame, taskVars, loopVars
<1>2. Complete /\ TypeOK /\ PublishCount
  BY <1>1 DEF VerdictInv, Whole, Known, TypeInv
<1>3. Started' /\ Gathered' /\ Awaited' /\ Whole'
  BY <1>1, <1>2 DEF VerdictInv, Started, Gathered, Awaited, Whole, Complete, Failing, Outcome
<1>4. CASE Aggregate
  <2>1. PICK merged \in BOOLEAN : fate' = RunStatus(collected, merged)
    BY <1>4 DEF Aggregate
  <2>2. ASSUME fate' = "passed" PROVE PassedIsEarned'
    <3>1. \A s \in collected : Outcome(s) \notin {"failed", "error"}
      BY <2>1, <2>2 DEF RunStatus
    <3>2. collected = Suites
      BY <1>2, <3>1 DEF VerdictInv, Gathered, Failing, Complete
    <3>3. \A s \in Suites : /\ exit[s].file \in {"passed", "cancelled"}
                            /\ exit[s].code = ExpectedCode(exit[s].file)
      BY <3>1, <3>2 DEF Outcome, Classify, Parsed
    <3>4. \A s \in Suites : exit[s].code # Killed
      BY <3>3 DEF ExpectedCode, Killed
    <3>5. QED
      BY <1>1, <3>3, <3>4 DEF PassedIsEarned
  <2>3. main' = "publish"
    BY <1>4 DEF Aggregate
  <2>4. QED
    BY <1>3, <2>2, <2>3 DEF VerdictInv, Verdict, PassedIsEarned
<1>5. CASE Publish
  <2>1. main = "publish" /\ fate \in Verdicts
    BY <1>2, <1>5 DEF Publish, PublishCount
  <2>2. CASE main' = "ended" /\ index' = fate /\ fate' = fate
    BY <1>1, <1>3, <2>2 DEF VerdictInv, Verdict, PassedIsEarned, IndexAgrees
  <2>3. CASE main' = "republish" /\ fate' = "error"
    BY <1>3, <2>3 DEF VerdictInv, Verdict, PassedIsEarned
  <2>4. QED
    BY <1>5, <2>2, <2>3 DEF Publish
<1>6. CASE Republish
  <2>1. fate = "error" /\ fate' = "error" /\ main' = "ended" /\ publishFaults = 1
        /\ (index' = "error" \/ publishFaults' = 2)
    BY <1>2, <1>6 DEF Republish, PublishRaises, PublishCount, VerdictInv, Verdict
  <2>2. QED
    BY <1>3, <2>1 DEF VerdictInv, Verdict, PassedIsEarned, IndexAgrees
<1>7. QED
  BY <1>4, <1>5, <1>6

LEMMA VerdictNext == Known /\ VerdictInv /\ [Next]_vars => VerdictInv'
<1> SUFFICES ASSUME Known, VerdictInv, [Next]_vars PROVE VerdictInv'
  OBVIOUS
<1>1. CASE MainStep
  BY <1>1, VerdictDispatch, VerdictAbort, VerdictPublish DEF MainStep
<1>2. CASE Interrupt \/ InterruptAgain
  BY <1>2, VerdictAbort
<1>3. CASE \E s \in Suites : WorkerStep(s) \/ ProcessExits(s)
  BY <1>3, VerdictWorker
<1>4. CASE UNCHANGED vars
  BY <1>4 DEF vars, taskVars, loopVars, indexVars, VerdictInv, Started, Gathered, Awaited, Whole, Complete,
              Verdict, PassedIsEarned, IndexAgrees, Failing, Outcome
<1>5. QED
  BY <1>1, <1>2, <1>3, <1>4 DEF Next, Terminated

\* The invariants of the two modules, together.
LEMMA AlwaysKnown == Spec => [](Known /\ VerdictInv)
<1>1. Init => TypeInv /\ AbortInv /\ VerdictInv
  BY TypeInit, AbortInit, VerdictInit
<1>2. TypeInv /\ AbortInv /\ VerdictInv /\ [Next]_vars => TypeInv' /\ AbortInv' /\ VerdictInv'
  <2>1. TypeInv' => TypeOK'
    BY DEF TypeInv
  <2>2. QED
    BY <2>1, TypeNext, AbortNext, VerdictNext DEF Known
<1>3. QED
  BY <1>1, <1>2, PTL DEF Spec, Known

\* What run_native_tests reports as not run was never started, what it started
\* is collected, and without a trigger that is the whole plan: in the loop, in
\* the pool, and in the pool that drains after a failure.
THEOREM NotRunNeverStarted == Spec => []NotRunMeansNeverStarted
<1>1. VerdictInv => NotRunMeansNeverStarted
  BY DEF VerdictInv, Whole, Complete, NotRunMeansNeverStarted
<1>2. QED
  BY <1>1, AlwaysKnown, PTL

\* A run that passed ran every suite to a status and the exit code that goes
\* with it, and the index on disk says what the run reports.
THEOREM VerdictIsHonest == Spec => []HonestVerdict
<1>1. VerdictInv => HonestVerdict
  BY DEF VerdictInv, Verdict, HonestVerdict
<1>2. QED
  BY <1>1, AlwaysKnown, PTL

-----------------------------------------------------------------------------
(* Workers and processes. *)

Busy == {"picked", "begun", "spawned", "registered", "running"}

\* A pool occupies no more workers than it has; the loop is in one suite at a time.
Workers ==
    /\ pool => Cardinality(Occupied) <= Parallel
    /\ ~pool => \A s \in Suites : task[s] \in Busy => s = next

\* Fewer suites in execution are no more than before.
LEMMA FewerOccupied ==
    ASSUME NEW S \in SUBSET Suites, NEW T \in SUBSET S
    PROVE  IsFiniteSet(S) /\ Cardinality(T) \in Nat /\ Cardinality(T) <= Cardinality(S)
<1>1. IsFiniteSet(Suites)
  BY FS_Interval, OrchestratorAssumption DEF Suites
<1>2. IsFiniteSet(S)
  BY <1>1, FS_Subset
<1>3. IsFiniteSet(T) /\ Cardinality(T) <= Cardinality(S)
  BY <1>2, FS_Subset
<1>4. QED
  BY <1>2, <1>3, FS_CardinalityType

LEMMA WorkersInit == Init => Workers
<1> SUFFICES ASSUME Init PROVE Workers
  OBVIOUS
<1>1. Occupied = {}
  BY DEF Init, Occupied
<1>2. QED
  BY <1>1, FS_EmptySet, OrchestratorAssumption DEF Init, Workers, Busy

LEMMA WorkersNext == TypeInv /\ AbortInv /\ Workers /\ [Next]_vars => Workers'
<1> SUFFICES ASSUME TypeInv, AbortInv, Workers, [Next]_vars PROVE Workers'
  OBVIOUS
<1>1. TypeOK /\ Modes /\ Parallel \in Nat
  BY OrchestratorAssumption DEF AbortInv
\* Nobody takes a suite up.
<1>2. ASSUME UNCHANGED pool, \A s \in Suites : task'[s] \in Busy => task[s] \in Busy,
             ~pool => \A s \in Suites : task'[s] \in Busy => s = next'
      PROVE  Workers'
  <2>1. Occupied' \subseteq Occupied /\ Occupied \subseteq Suites
    BY <1>2 DEF Occupied, Busy
  <2>2. Cardinality(Occupied') \in Nat /\ Cardinality(Occupied') <= Cardinality(Occupied)
        /\ Cardinality(Occupied) \in Nat
    BY <2>1, FewerOccupied
  <2>3. QED
    BY <1>1, <1>2, <2>2 DEF Workers
<1>3. ASSUME NEW s \in Suites, Pick(s) PROVE Workers'
  <2>1. pool /\ pool' = pool /\ task[s] = "queued" /\ task' = [task EXCEPT ![s] = "picked"]
        /\ Cardinality(Occupied) < Parallel
    BY <1>3 DEF Pick, Move, WorkerFrame, runVars
  <2>2. Occupied' = Occupied \cup {s} /\ Occupied \subseteq Suites
    BY <1>1, <2>1 DEF Occupied, TypeOK
  <2>3. IsFiniteSet(Occupied) /\ Cardinality(Occupied) \in Nat
    BY <2>2, FewerOccupied
  <2>4. s \notin Occupied
    BY <2>1 DEF Occupied
  <2>5. Cardinality(Occupied') = Cardinality(Occupied) + 1
    BY <2>2, <2>3, <2>4, FS_AddElement
  <2>6. QED
    BY <1>1, <2>1, <2>3, <2>5 DEF Workers
<1>4. ASSUME NEW s \in Suites, WorkerStep(s) \/ ProcessExits(s), ~Pick(s) PROVE Workers'
  <2>1. UNCHANGED <<pool, next>>
    BY <1>4 DEF WorkerStep, ProcessExits, Begin, Spawn, SpawnRaises, Register, CheckAbort,
         TimeOut, Collect, WorkerFrame, runVars, loopVars
  <2>2. \A t \in Suites : t # s => task'[t] = task[t]
    BY <1>1, <1>4 DEF WorkerStep, ProcessExits, Begin, Spawn, SpawnRaises, Register, CheckAbort,
         TimeOut, Collect, Move, TypeOK
  <2>3. task'[s] \in Busy => task[s] \in Busy \/ (~pool /\ s = next)
    BY <1>1, <1>4 DEF WorkerStep, ProcessExits, Begin, Spawn, SpawnRaises, Register, CheckAbort,
         TimeOut, Collect, Move, TypeOK, Busy, Scheduled
  <2>4. CASE pool
    BY <1>2, <2>1, <2>2, <2>3, <2>4
  <2>5. CASE ~pool
    BY <2>1, <2>2, <2>3, <2>5 DEF Workers
  <2>6. QED
    BY <1>1, <2>4, <2>5 DEF TypeOK
<1>5. CASE SeqNext
  <2>1. UNCHANGED <<pool, task>> /\ main = "seq" /\ ~pool
    BY <1>1, <1>5 DEF SeqNext, DispatchFrame, runVars, Modes
  <2>2. next' = next \/ task[next] = "done"
    BY <1>5 DEF SeqNext
  <2>3. QED
    BY <2>1, <2>2 DEF Workers, Busy
<1>6. CASE (MainStep /\ ~SeqNext) \/ Interrupt \/ InterruptAgain \/ UNCHANGED vars
  <2>1. UNCHANGED pool /\ \A s \in Suites : task'[s] \in Busy => task[s] = task'[s]
    BY <1>1, <1>6 DEF MainStep, Submit, Await, Fill, Wait, Batch, BatchDone, Drain, Join, CancelQueued,
       SignalAbort, Snapshot, KillOne, ReadNames, PublishIncomplete, Aggregate, Publish, Republish,
       Interrupt, InterruptAgain, vars, DispatchFrame, AbortFrame, IndexFrame, runVars, taskVars, Enqueue,
       TypeOK, Busy
  <2>2. ~pool => next' = next
    BY <1>1, <1>6 DEF MainStep, Submit, Await, Fill, Wait, Batch, BatchDone, Drain, Join, CancelQueued,
       SignalAbort, Snapshot, KillOne, ReadNames, PublishIncomplete, Aggregate, Publish, Republish,
       Interrupt, InterruptAgain, vars, DispatchFrame, AbortFrame, IndexFrame, loopVars, Enqueue,
       Modes, PoolStates
  <2>3. QED
    BY <1>2, <2>1, <2>2 DEF Workers
<1>7. QED
  BY <1>3, <1>4, <1>5, <1>6 DEF Next, Terminated

\* A run never has more live Godot processes than workers: a worker leaves a
\* suite only when its process has ended or its tree was killed.
THEOREM ProcessesBounded == Spec => []BoundedProcesses
<1>1. TypeInv /\ AbortInv /\ Workers => BoundedProcesses
  <2> SUFFICES ASSUME TypeInv, AbortInv, Workers PROVE BoundedProcesses
    OBVIOUS
  <2> DEFINE alive == {s \in Suites : proc[s] = "alive"}
  <2>1. alive \subseteq Occupied /\ Occupied \subseteq Suites
    BY DEF AbortInv, LiveProcesses, Occupied
  <2>2. CASE pool
    <3>1. Cardinality(alive) \in Nat /\ Cardinality(Occupied) \in Nat
          /\ Cardinality(alive) <= Cardinality(Occupied)
      BY <2>1, FewerOccupied
    <3>2. Cardinality(Occupied) <= Parallel /\ Parallel \in Nat
      BY <2>2, OrchestratorAssumption DEF Workers
    <3>3. Cardinality(alive) <= Parallel
      BY <3>1, <3>2
    <3>4. QED
      BY <2>2, <3>3 DEF BoundedProcesses
  <2>3. CASE ~pool
    <3>1. alive \subseteq {next}
      BY <2>1, <2>3 DEF Workers, Occupied, Busy
    <3>2. IsFiniteSet({next}) /\ Cardinality({next}) = 1
      BY FS_Singleton
    <3>3. IsFiniteSet(alive) /\ Cardinality(alive) <= 1
      BY <3>1, <3>2, FS_Subset
    <3>4. QED
      BY <2>3, <3>3 DEF BoundedProcesses
  <2>4. QED
    BY <2>2, <2>3
<1>2. Init => TypeInv /\ AbortInv /\ Workers
  BY TypeInit, AbortInit, WorkersInit
<1>3. TypeInv /\ AbortInv /\ Workers /\ [Next]_vars => TypeInv' /\ AbortInv' /\ Workers'
  <2>1. TypeInv' => TypeOK'
    BY DEF TypeInv
  <2>2. QED
    BY <2>1, TypeNext, AbortNext, WorkersNext
<1>4. QED
  BY <1>1, <1>2, <1>3, PTL DEF Spec
================================================================================
