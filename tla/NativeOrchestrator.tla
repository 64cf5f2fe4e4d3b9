--------------------------- MODULE NativeOrchestrator ---------------------------
(***************************************************************************)
(* One `gd-tools test` run: run_native_tests dispatches the planned suites *)
(* to isolated Godot processes, either in a loop on the main thread        *)
(* (Pool = FALSE) or on a ThreadPoolExecutor of Parallel workers, with or  *)
(* without fail-fast (--exitfirst), survives suite timeouts, spawn         *)
(* failures and Ctrl+C / SIGTERM, aggregates the outcomes and publishes    *)
(* the artifact index.                                                     *)
(*                                                                         *)
(* A suite is its position in the plan.  The steps of _execute_suite are   *)
(* separate actions wherever another thread can act between them: picking  *)
(* the work item, recording the attempt, Popen, registering the process,   *)
(* the abort check, and the end of communicate().                          *)
(***************************************************************************)
EXTENDS Integers, FiniteSets

CONSTANTS
    N,             \* number of planned suites
    Parallel,      \* worker count of a parallel run
    Exits,         \* how a Godot process may end: records [file, code]
    MaxInterrupts, \* Ctrl+C / SIGTERM deliveries (bound of the model)
    MaxSpawnFaults \* Popen or manifest writes that raise (bound of the model)

Suites == 1..N
NoSuite == 0
Files == {"none", "unreadable", "passed", "failed", "error", "cancelled"}
Codes == {0, 1, 2, 3, 137}     \* 3: any other exit status, 137: killed
Killed == 137

ASSUME OrchestratorAssumption ==
    /\ N \in Nat \ {0}
    /\ Parallel \in Nat \ {0, 1}
    /\ Exits \subseteq [file : Files, code : Codes \ {Killed}]
    /\ MaxInterrupts \in Nat
    /\ MaxSpawnFaults \in Nat

VARIABLES
    pool, exitfirst,  \* the run's options
    main,             \* where the main thread stands in run_native_tests
    fate,             \* what the run has turned into
    task,             \* per suite: where its _execute_suite call stands
    proc,             \* per suite: its Godot process
    exit,             \* per suite: the result file and exit code it left
    registry,         \* context.registry
    abortEvent,       \* context.abort_event
    attempted,        \* context.attempted (start order abstracted)
    next,             \* the next plan position to dispatch
    pending,          \* `pending`: submitted, not yet consumed (exitfirst)
    batch,            \* `done`: the batch returned by wait()
    collected,        \* suites with an entry in `outcomes`
    trigger,          \* fail_fast_trigger
    toKill,           \* registry.snapshot() still to be visited by _abort_run
    listed,           \* first read of context.attempted in _abort_run
    interrupts, spawnFaults, publishFaults,
    index             \* status field of artifacts.json on disk

runVars == <<pool, exitfirst>>
taskVars == <<task, proc, exit, registry, attempted, spawnFaults>>
loopVars == <<next, pending, batch, collected, trigger>>
abortVars == <<toKill, listed, interrupts>>
indexVars == <<index, publishFaults>>
vars == <<runVars, main, fate, taskVars, abortEvent, loopVars, abortVars, indexVars>>

-----------------------------------------------------------------------------
(* What _execute_suite makes of a process that has ended. *)

ExpectedCode(status) ==
    CASE status = "passed" -> 0
      [] status = "error" -> 2
      [] status \in {"failed", "cancelled"} -> 1

Parsed == {"passed", "failed", "error", "cancelled"}

\* Mutant: the exit code is not compared with the reported status.
ClassifyByFile(e) ==
    IF e.file \notin Parsed THEN "error"
    ELSE IF e.file \in {"failed", "error"} THEN e.file ELSE "passed"

Classify(e) ==
    IF e.file \notin Parsed \/ e.code # ExpectedCode(e.file) THEN "error"
    ELSE IF e.file \in {"failed", "error"} THEN e.file ELSE "passed"

\* A killed process never has the expected exit code, so a timeout or an abort
\* is an error outcome whatever the process had written.
Outcome(s) == Classify(exit[s])

Failing(s) == Outcome(s) \in {"failed", "error"}

RunStatus(S, merged) ==
    IF ~merged \/ \E s \in S : Outcome(s) = "error" THEN "error"
    ELSE IF \E s \in S : Outcome(s) = "failed" THEN "failed" ELSE "passed"

Verdicts == {"passed", "failed", "error"}
NoExit == [file |-> "none", code |-> 3]

-----------------------------------------------------------------------------
Init ==
    /\ pool \in BOOLEAN /\ exitfirst \in BOOLEAN
    /\ main = IF ~pool THEN "seq" ELSE IF exitfirst THEN "fill" ELSE "submit"
    /\ fate = "running"
    /\ task = [s \in Suites |-> "idle"]
    /\ proc = [s \in Suites |-> "none"]
    /\ exit = [s \in Suites |-> NoExit]
    /\ registry = {} /\ attempted = {} /\ abortEvent = FALSE
    /\ next = 1 /\ pending = {} /\ batch = {} /\ collected = {}
    /\ trigger = NoSuite
    /\ toKill = {} /\ listed = {}
    /\ interrupts = 0 /\ spawnFaults = 0 /\ publishFaults = 0
    /\ index = "absent"

-----------------------------------------------------------------------------
(* The steps of _execute_suite, on a pool worker or on the main thread. *)

Occupied == {s \in Suites : task[s] \in {"picked", "begun", "spawned",
                                         "registered", "running"}}
Finished == {s \in Suites : task[s] \in {"done", "raised"}}

\* The thread that runs suite s is free to take its next step.
Scheduled(s) == pool \/ (main = "seq" /\ s = next)

Move(s, from, to) ==
    /\ task[s] = from
    /\ Scheduled(s)
    /\ task' = [task EXCEPT ![s] = to]

\* Everything but the task's own state is untouched by a worker's step.
WorkerFrame == UNCHANGED <<runVars, main, fate, abortEvent, loopVars, abortVars, indexVars>>

\* A free worker takes the oldest queued work item (the queue is FIFO).
Pick(s) ==
    /\ pool
    /\ Cardinality(Occupied) < Parallel
    /\ \A t \in Suites : task[t] = "queued" => s <= t
    /\ Move(s, "queued", "picked")
    /\ UNCHANGED <<proc, exit, registry, attempted, spawnFaults>>
    /\ WorkerFrame

\* Record the attempt, unlink stale files, write the manifest.
Begin(s) ==
    /\ \/ Move(s, "picked", "begun")
       \/ ~pool /\ Move(s, "idle", "begun")
    /\ attempted' = attempted \cup {s}
    /\ UNCHANGED <<proc, exit, registry, spawnFaults>>
    /\ WorkerFrame

Spawn(s) ==
    /\ Move(s, "begun", "spawned")
    /\ proc' = [proc EXCEPT ![s] = "alive"]
    /\ UNCHANGED <<exit, registry, attempted, spawnFaults>>
    /\ WorkerFrame

\* Popen (or the manifest write before it) raises; nothing here catches it.
SpawnRaises(s) ==
    /\ spawnFaults < MaxSpawnFaults
    /\ Move(s, "begun", "raised")
    /\ spawnFaults' = spawnFaults + 1
    /\ UNCHANGED <<proc, exit, registry, attempted>>
    /\ WorkerFrame

Register(s) ==
    /\ Move(s, "spawned", "registered")
    /\ registry' = registry \cup {s}
    /\ UNCHANGED <<proc, exit, attempted, spawnFaults>>
    /\ WorkerFrame

\* The files a process may have left behind at the moment it is killed.
Kill(S, written) ==
    /\ proc' = [s \in Suites |-> IF s \in S THEN "dead" ELSE proc[s]]
    /\ exit' = [s \in Suites |->
                  IF s \in S /\ proc[s] = "alive"
                  THEN [file |-> written, code |-> Killed] ELSE exit[s]]

KilledWith == {"none"} \cup {e.file : e \in Exits}

\* Mutant: the abort check after registration is dropped.
CheckAbortNever(s) ==
    /\ Move(s, "registered", "running")
    /\ UNCHANGED <<proc, exit, registry, attempted, spawnFaults>>
    /\ WorkerFrame

\* The abort check of _spawn_process kills a latecomer before it is awaited.
CheckAbort(s) ==
    /\ Move(s, "registered", "running")
    /\ IF abortEvent
       THEN /\ \E written \in KilledWith : Kill({s}, written)
            /\ registry' = registry \ {s}
       ELSE UNCHANGED <<proc, exit, registry>>
    /\ UNCHANGED <<attempted, spawnFaults>>
    /\ WorkerFrame

\* Mutant: the timed-out process is reported but not killed.
TimeOutWithoutKill(s) ==
    /\ proc[s] = "alive"
    /\ Move(s, "running", "done")
    /\ registry' = registry \ {s}
    /\ UNCHANGED <<proc, exit, attempted, spawnFaults>>
    /\ WorkerFrame

\* Mutant: communicate() is called without its timeout.
TimeOutNever(s) == FALSE

\* communicate(timeout=...) gives up: kill the tree, reap it, error outcome.
TimeOut(s) ==
    /\ proc[s] = "alive"
    /\ Move(s, "running", "done")
    /\ \E written \in KilledWith : Kill({s}, written)
    /\ registry' = registry \ {s}
    /\ UNCHANGED <<attempted, spawnFaults>>
    /\ WorkerFrame

\* communicate() returns: the process has ended; classify what it left.
Collect(s) ==
    /\ proc[s] = "dead"
    /\ Move(s, "running", "done")
    /\ registry' = registry \ {s}
    /\ UNCHANGED <<proc, exit, attempted, spawnFaults>>
    /\ WorkerFrame

\* The environment: a live Godot process ends by itself.
ProcessExits(s) ==
    /\ proc[s] = "alive"
    /\ proc' = [proc EXCEPT ![s] = "dead"]
    /\ \E e \in Exits : exit' = [exit EXCEPT ![s] = e]
    /\ UNCHANGED <<task, registry, attempted, spawnFaults>>
    /\ WorkerFrame

WorkerStep(s) ==
    \/ Pick(s) \/ Begin(s) \/ Spawn(s) \/ SpawnRaises(s) \/ Register(s)
    \/ CheckAbort(s) \/ TimeOut(s) \/ Collect(s)

-----------------------------------------------------------------------------
(* The main thread: dispatch and collection. *)

DispatchFrame ==
    UNCHANGED <<runVars, proc, exit, registry, attempted, spawnFaults,
                abortVars, indexVars>>

Enqueue == task' = [task EXCEPT ![next] = "queued"] /\ next' = next + 1

\* Mutant: the submission loop runs one past the plan.
SubmitOnePastThePlan ==
    /\ main = "submit"
    /\ IF next <= N + 1
       THEN Enqueue /\ UNCHANGED main
       ELSE main' = "await" /\ UNCHANGED <<task, next>>
    /\ UNCHANGED <<fate, abortEvent, pending, batch, collected, trigger>>
    /\ DispatchFrame

\* Submit-all-upfront dispatch, then results awaited in submission order.
Submit ==
    /\ main = "submit"
    /\ IF next <= N
       THEN Enqueue /\ UNCHANGED main
       ELSE main' = "await" /\ UNCHANGED <<task, next>>
    /\ UNCHANGED <<fate, abortEvent, pending, batch, collected, trigger>>
    /\ DispatchFrame

\* future.result(): the outcome, or the exception the worker raised.
TakeResult(s) ==
    /\ s \in Finished
    /\ IF task[s] = "raised"
       THEN fate' = "crashed" /\ main' = "join" /\ UNCHANGED collected
       ELSE collected' = collected \cup {s} /\ UNCHANGED <<fate, main>>

Await ==
    /\ main = "await"
    /\ IF collected = Suites
       THEN main' = "join" /\ UNCHANGED <<fate, collected>>
       ELSE \E s \in Suites \ collected :
              /\ \A t \in Suites \ collected : s <= t
              /\ TakeResult(s)
    /\ UNCHANGED <<task, abortEvent, next, pending, batch, trigger>>
    /\ DispatchFrame

\* _fill: keep Parallel suites in flight.
Fill ==
    /\ main = "fill"
    /\ IF Cardinality(pending) < Parallel /\ next <= N
       THEN Enqueue /\ pending' = pending \cup {next} /\ UNCHANGED main
       ELSE /\ main' = IF pending = {} THEN "join" ELSE "wait"
            /\ UNCHANGED <<task, next, pending>>
    /\ UNCHANGED <<fate, abortEvent, batch, collected, trigger>>
    /\ DispatchFrame

\* wait(pending, FIRST_COMPLETED) returns every future done at that moment.
Wait ==
    /\ main = "wait"
    /\ pending \cap Finished # {}
    /\ batch' = pending \cap Finished
    /\ main' = "batch"
    /\ UNCHANGED <<fate, task, abortEvent, next, pending, collected, trigger>>
    /\ DispatchFrame

\* Consume the batch in set order; the first failing suite sets the trigger
\* and the run-level stop event.
Batch(s) ==
    /\ main = "batch" /\ s \in batch
    /\ batch' = batch \ {s}
    /\ pending' = pending \ {s}
    /\ TakeResult(s)
    /\ IF trigger = NoSuite /\ task[s] = "done" /\ Failing(s)
       THEN trigger' = s /\ abortEvent' = TRUE
       ELSE UNCHANGED <<trigger, abortEvent>>
    /\ UNCHANGED <<task, next>>
    /\ DispatchFrame

BatchDone ==
    /\ main = "batch" /\ batch = {}
    /\ main' = IF trigger # NoSuite THEN "drain" ELSE "fill"
    /\ UNCHANGED <<fate, task, abortEvent, loopVars>>
    /\ DispatchFrame

\* Mutant: the pool is joined without collecting the in-flight suites.
DrainNothing ==
    /\ main = "drain"
    /\ main' = "join"
    /\ UNCHANGED <<fate, task, abortEvent, loopVars>>
    /\ DispatchFrame

\* Collect the in-flight suites of a fail-fast run, in dispatch order.
Drain ==
    /\ main = "drain"
    /\ IF pending = {}
       THEN main' = "join" /\ UNCHANGED <<fate, collected, pending>>
       ELSE \E s \in pending :
              /\ \A t \in pending : s <= t
              /\ TakeResult(s)
              /\ pending' = pending \ {s}
    /\ UNCHANGED <<task, abortEvent, next, batch, trigger>>
    /\ DispatchFrame

\* The sequential loop: take the finished suite's outcome, go on or stop.
SeqNext ==
    /\ main = "seq"
    /\ IF next > N
       THEN main' = "aggregate" /\ UNCHANGED <<fate, next, collected, trigger>>
       ELSE \/ /\ task[next] = "raised"
               /\ fate' = "crashed" /\ main' = "ended"
               /\ UNCHANGED <<next, collected, trigger>>
            \/ /\ task[next] = "done"
               /\ collected' = collected \cup {next}
               /\ IF exitfirst /\ Failing(next)
                  THEN trigger' = next /\ main' = "aggregate" /\ UNCHANGED next
                  ELSE next' = next + 1 /\ UNCHANGED <<trigger, main>>
               /\ UNCHANGED fate
    /\ UNCHANGED <<task, abortEvent, pending, batch>>
    /\ DispatchFrame

\* ThreadPoolExecutor.__exit__: wait for every submitted suite.
Join ==
    /\ main = "join"
    /\ \A s \in Suites : task[s] \in {"idle", "done", "raised", "cancelled"}
    /\ main' = IF fate = "running" THEN "aggregate" ELSE "ended"
    /\ UNCHANGED <<fate, task, abortEvent, loopVars>>
    /\ DispatchFrame

-----------------------------------------------------------------------------
(* Interrupts and _abort_run. *)

Interruptible == {"submit", "await", "fill", "wait", "batch", "drain", "seq"}
Aborting == {"cancel", "signal", "snapshot", "kill", "paths"}

AbortFrame == UNCHANGED <<runVars, attempted, spawnFaults, loopVars, publishFaults>>

\* The first interrupt, as KeyboardInterrupt, anywhere inside the try blocks.
Interrupt ==
    /\ main \in Interruptible
    /\ interrupts < MaxInterrupts
    /\ interrupts' = interrupts + 1
    /\ fate' = "interrupted"
    /\ main' = IF pool THEN "cancel" ELSE "signal"
    /\ UNCHANGED <<task, proc, exit, registry, abortEvent, toKill, listed, index>>
    /\ AbortFrame

\* A further Ctrl+C while the abort runs (SIGTERM is ignored by then): the
\* rest of the abort is skipped, and the pool is joined on the way out.
InterruptAgain ==
    /\ main \in Aborting
    /\ interrupts < MaxInterrupts
    /\ interrupts' = interrupts + 1
    /\ main' = IF pool THEN "join" ELSE "ended"
    /\ UNCHANGED <<fate, task, proc, exit, registry, abortEvent, toKill, listed, index>>
    /\ AbortFrame

\* executor.shutdown(wait=False, cancel_futures=True)
CancelQueued ==
    /\ main = "cancel"
    /\ task' = [s \in Suites |-> IF task[s] = "queued" THEN "cancelled" ELSE task[s]]
    /\ main' = "signal"
    /\ UNCHANGED <<fate, proc, exit, registry, abortEvent, abortVars, index>>
    /\ AbortFrame

SignalAbort ==
    /\ main = "signal"
    /\ abortEvent' = TRUE
    /\ main' = "snapshot"
    /\ UNCHANGED <<fate, task, proc, exit, registry, abortVars, index>>
    /\ AbortFrame

Snapshot ==
    /\ main = "snapshot"
    /\ toKill' = registry
    /\ main' = "kill"
    /\ UNCHANGED <<fate, task, proc, exit, registry, abortEvent, listed, interrupts, index>>
    /\ AbortFrame

\* Visit one process of the snapshot; one that has ended is left registered.
KillOne(s) ==
    /\ main = "kill" /\ s \in toKill
    /\ toKill' = toKill \ {s}
    /\ IF proc[s] = "alive"
       THEN /\ \E written \in KilledWith : Kill({s}, written)
            /\ registry' = registry \ {s}
       ELSE UNCHANGED <<proc, exit, registry>>
    /\ UNCHANGED <<fate, main, task, abortEvent, listed, interrupts, index>>
    /\ AbortFrame

\* suite_names=list(context.attempted)
ReadNames ==
    /\ main = "kill" /\ toKill = {}
    /\ main' = "paths"
    /\ listed' = attempted
    /\ UNCHANGED <<fate, task, proc, exit, registry, abortEvent, toKill, interrupts, index>>
    /\ AbortFrame

\* suite_paths=[{} for _ in context.attempted], then publish "incomplete".  A
\* length that moved in between is a ValueError, which nothing catches; a
\* failing index write is swallowed.
PublishIncomplete ==
    /\ main = "paths"
    /\ main' = IF pool THEN "join" ELSE "ended"
    /\ IF listed # attempted
       THEN fate' = "crashed" /\ UNCHANGED index
       ELSE index' \in {index, "incomplete"} /\ UNCHANGED fate
    /\ UNCHANGED <<task, proc, exit, registry, abortEvent, abortVars>>
    /\ AbortFrame

-----------------------------------------------------------------------------
(* Aggregation and the artifact index. *)

IndexFrame == UNCHANGED <<runVars, taskVars, abortEvent, loopVars, abortVars>>

\* has_error > has_failure > passed; a coverage merge that fails is an error.
Aggregate ==
    /\ main = "aggregate"
    /\ \E merged \in BOOLEAN : fate' = RunStatus(collected, merged)
    /\ main' = "publish"
    /\ UNCHANGED indexVars
    /\ IndexFrame

\* publish_artifact_index raises before (absent index) or after (failed
\* retention) the atomic write.
PublishRaises(status) ==
    /\ publishFaults' = publishFaults + 1
    /\ index' \in {index, status}

Publish ==
    /\ main = "publish"
    /\ \/ /\ index' = fate
          /\ main' = "ended"
          /\ UNCHANGED <<fate, publishFaults>>
       \/ /\ PublishRaises(fate)
          /\ fate' = "error"
          /\ main' = "republish"
    /\ IndexFrame

Republish ==
    /\ main = "republish"
    /\ \/ index' = "error" /\ UNCHANGED publishFaults
       \/ PublishRaises("error")
    /\ main' = "ended"
    /\ UNCHANGED fate
    /\ IndexFrame

-----------------------------------------------------------------------------
MainStep ==
    \/ Submit \/ Await \/ Fill \/ Wait \/ (\E s \in Suites : Batch(s))
    \/ BatchDone \/ Drain \/ SeqNext \/ Join
    \/ CancelQueued \/ SignalAbort \/ Snapshot \/ (\E s \in Suites : KillOne(s))
    \/ ReadNames \/ PublishIncomplete \/ Aggregate \/ Publish \/ Republish

Terminated == main = "ended" /\ UNCHANGED vars

Next ==
    \/ MainStep \/ Interrupt \/ InterruptAgain
    \/ \E s \in Suites : WorkerStep(s) \/ ProcessExits(s)
    \/ Terminated

\* Threads that can run do run; nothing obliges a Godot process to end, and
\* nobody has to press Ctrl+C.
Fairness == WF_vars(MainStep) /\ \A s \in Suites : WF_vars(WorkerStep(s))

Spec == Init /\ [][Next]_vars
FairSpec == Spec /\ Fairness

-----------------------------------------------------------------------------
(* Properties. *)

MainStates == Interruptible \cup Aborting
                \cup {"join", "aggregate", "publish", "republish", "ended"}
TaskStates == {"idle", "queued", "picked", "begun", "spawned", "registered",
               "running", "done", "raised", "cancelled"}

\* Every variable has the values run_native_tests can give it.
TypeOK ==
    /\ pool \in BOOLEAN /\ exitfirst \in BOOLEAN
    /\ main \in MainStates
    /\ fate \in Verdicts \cup {"running", "interrupted", "crashed"}
    /\ task \in [Suites -> TaskStates]
    /\ proc \in [Suites -> {"none", "alive", "dead"}]
    /\ exit \in [Suites -> [file : Files, code : Codes]]
    /\ registry \subseteq Suites /\ attempted \subseteq Suites
    /\ abortEvent \in BOOLEAN
    /\ next \in 1..(N + 1)
    /\ pending \subseteq Suites /\ batch \subseteq Suites /\ collected \subseteq Suites
    /\ trigger \in Suites \cup {NoSuite}
    /\ toKill \subseteq Suites /\ listed \subseteq Suites
    /\ interrupts \in 0..MaxInterrupts
    /\ spawnFaults \in 0..MaxSpawnFaults
    /\ publishFaults \in 0..2
    /\ index \in Verdicts \cup {"absent", "incomplete"}

\* The main thread is past the kill loop of an abort nothing cut short.
AfterAbort == interrupts = 1 /\ main \in {"paths", "join", "ended"}

\* Once _abort_run has visited its snapshot, no thread waits on a live Godot
\* process: a spawn that raced the snapshot is killed by its own worker, so
\* the join that follows returns at once instead of after the suite timeout.
AbortReachesEverySpawn ==
    AfterAbort => \A s \in Suites : ~(task[s] = "running" /\ proc[s] = "alive")

\* When a fail-fast run aggregates, a suite it reports as `not_run` was never
\* started, and every suite it started has its outcome collected; a run
\* without a trigger has collected the whole plan.
NotRunMeansNeverStarted ==
    main \in {"aggregate", "publish", "republish"} =>
        /\ collected = attempted
        /\ trigger = NoSuite => collected = Suites

\* A run is reported as passed only if every planned suite's own process
\* ended by itself with a status and the exit code that goes with it.
PassedIsEarned ==
    fate = "passed" =>
        \A s \in Suites : /\ exit[s].code # Killed
                          /\ exit[s].file \in {"passed", "cancelled"}
                          /\ exit[s].code = ExpectedCode(exit[s].file)

\* The status on disk is the one the run reports (and exits with), also when
\* retention fails after the index was written; only a second failure in a row
\* may leave them apart.
IndexAgrees == fate \in Verdicts /\ publishFaults < 2 => index = fate

\* The verdict of a run that has ended is earned, and is what the index says.
HonestVerdict == main = "ended" => PassedIsEarned /\ IndexAgrees

\* The run never has more live Godot processes than workers: a worker does
\* not leave a suite, by result or by timeout, while its process lives.
BoundedProcesses ==
    Cardinality({s \in Suites : proc[s] = "alive"}) <= IF pool THEN Parallel ELSE 1

\* Whatever Godot does, also hang, every run comes to an end.
RunEnds == <>(main = "ended")

-----------------------------------------------------------------------------
(* Statements of the documentation that the code does not keep. *)

\* README: with --exitfirst "the pool drains instead of killing workers": a
\* process is killed only at its timeout.  Its suite is then done, not running.
FailFastDrains ==
    interrupts = 0 => \A s \in Suites : exit[s].code = Killed => task[s] = "done"
=============================================================================
