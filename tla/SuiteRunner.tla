------------------------------ MODULE SuiteRunner ------------------------------
(***************************************************************************)
(* gd_tools_test_runner.gd inside one Godot process: the coroutine that    *)
(* runs a suite's hooks and tests, the calls it makes into user code, and  *)
(* the token / timer / signal protocol that bounds each of them.           *)
(*                                                                         *)
(* Everything runs on one thread.  The runner keeps control (at = "run")   *)
(* until it awaits the signal test_call_completed, a process frame or the  *)
(* end of a drawn frame; only then do timers fire and user code run.       *)
(* Emitting the signal resumes a runner that awaits it at once, and is     *)
(* lost otherwise.                                                         *)
(***************************************************************************)
EXTENDS Integers, FiniteSets

CONSTANTS
    Tests,     \* number of test cases of the suite
    Retries,   \* retry_count of every test
    HookSets,  \* the sets of hook methods a suite may define
    Faults     \* failures, script errors and skips of user code (bound)

SuiteHooks == {"prerun_setup", "before_all", "after_all", "postrun_teardown"}
TestHooks == {"before_each", "after_each"}
Methods == SuiteHooks \cup TestHooks \cup {"body"}

ASSUME RunnerAssumption ==
    /\ Tests \in Nat \ {0} /\ Retries \in Nat /\ Faults \in Nat
    /\ HookSets \subseteq SUBSET (SuiteHooks \cup TestHooks)

VARIABLES
    hooks, windowed,           \* the suite: its hook methods, its mode
    pc, at,                    \* the runner: next statement, what it awaits
    test, attempt,             \* the current test and attempt
    suiteSkip,                 \* suite_skip_reason is set
    token, reached, completed, \* _active_test_token, _test_timeout_reached, _test_completed
    timers,                    \* armed one-shot timers, by the token bound to them
    calls,                     \* live _invoke_test coroutines
    trap, hits,                \* the script error trap: armed, contexts it heard
    failures,                  \* contexts with recorded failures
    window,                    \* contexts with failures since the window was opened
    skipped,                   \* contexts that called skip_test
    timedOut, cleanupTimedOut, \* locals of _run_test_attempt
    status,                    \* verdict of the attempt
    result,                    \* per test: its recorded status
    runStatus,                 \* _run_status
    engineError,               \* the log holds an engine error
    faults,                    \* spent part of the bound
    woke,                      \* history: who emitted the signal last
    finished                   \* history: contexts whose body ran to its end

clock == <<token, reached, completed, timers>>
user == <<calls, hits, failures, window, skipped, engineError, faults, finished>>
locals == <<timedOut, cleanupTimedOut, status>>
book == <<result, runStatus>>
place == <<test, attempt, suiteSkip>>
vars == <<hooks, windowed, pc, at, place, clock, user, trap, locals, book, woke>>

\* The instance a call runs on: the suite's own, or one per attempt.
SuiteContext == <<0, 0>>
Context == <<test, attempt>>
Contexts == {SuiteContext} \cup ((1..Tests) \X (1..(Retries + 1)))

\* The token of a call that nobody made and of a timer that was never armed.
Nobody == [token |-> 0, context |-> SuiteContext, method |-> "none"]

-----------------------------------------------------------------------------
Init ==
    /\ hooks \in HookSets /\ windowed \in BOOLEAN
    /\ pc = "load" /\ at = "run"
    /\ test = 1 /\ attempt = 1 /\ suiteSkip = FALSE
    /\ token = 0 /\ reached = FALSE /\ completed = FALSE /\ timers = {}
    /\ calls = {} /\ trap = FALSE /\ hits = {}
    /\ failures = {} /\ window = {} /\ skipped = {}
    /\ timedOut = FALSE /\ cleanupTimedOut = FALSE /\ status = "none"
    /\ result = [t \in 1..Tests |-> "none"] /\ runStatus = "passed"
    /\ engineError = FALSE /\ faults = 0
    /\ woke = Nobody /\ finished = {}

-----------------------------------------------------------------------------
(* The token protocol. *)

\* Mutant: arming a timer does not advance the token.
BeginTimeoutSameToken ==
    /\ token' = IF token = 0 THEN 1 ELSE token
    /\ reached' = FALSE /\ completed' = FALSE
    /\ timers' = timers \cup {token'}

\* _begin_test_timeout: arming a timer makes it the only live one.
BeginTimeout ==
    /\ token' = token + 1
    /\ reached' = FALSE /\ completed' = FALSE
    /\ timers' = timers \cup {token + 1}

\* _cancel_timeout
CancelTimeout == token' = token + 1 /\ UNCHANGED <<reached, completed, timers>>

NewCall(k, c, m) == [token |-> k, context |-> c, method |-> m, started |-> FALSE]

\* Mutant: the call is made without waiting for a process frame first, so one
\* that returns at once emits before the runner awaits.
CallBeforeAwaiting(c, m) ==
    /\ UNCHANGED <<token, reached, timers>>
    /\ at' = "signal"
    /\ \/ completed' = FALSE /\ calls' = calls \cup {NewCall(token, c, m)}
       \/ completed' = TRUE /\ UNCHANGED calls

\* _run_optional_call: a fresh budget, then invoke and await the signal.
CallWithOwnBudget(c, m) ==
    /\ BeginTimeout
    /\ calls' = calls \cup {NewCall(token', c, m)}
    /\ at' = "signal"

\* _await_test_call: the budget armed for the attempt, invoke, await.
CallWithinBudget(c, m) ==
    /\ completed' = FALSE /\ UNCHANGED <<token, reached, timers>>
    /\ calls' = calls \cup {NewCall(token, c, m)}
    /\ at' = "signal"

-----------------------------------------------------------------------------
(* The runner's statements. *)

Running(p) == pc = p /\ at = "run"
Resumed == UNCHANGED <<hooks, windowed, engineError, faults, finished, hits, skipped, failures>>
Untouched == Resumed /\ UNCHANGED woke

\* Mutant: the run takes over the status of the test as it is.
RecordVerbatim(s) == runStatus' = IF s \in {"passed", "skipped"} THEN runStatus ELSE s

\* _record_test_result: a failure outranks an earlier error.
Record(s) ==
    runStatus' = IF s \in {"failed", "timeout"} THEN "failed"
                 ELSE IF s = "error" /\ runStatus # "failed" THEN "error" ELSE runStatus

AfterHook(h) ==
    CASE h = "prerun_setup" -> "before_all"
      [] h = "before_all" -> "test"
      [] h = "after_all" -> "postrun_teardown"
      [] h = "postrun_teardown" -> "suite_end"

HookDone == [prerun_setup |-> "prerun_done", before_all |-> "before_all_done",
             after_all |-> "after_all_done", postrun_teardown |-> "postrun_done"]

\* A suite that cannot be loaded (or shown) is an error of the run.
LoadSuite ==
    /\ Running("load")
    /\ \/ pc' = "prerun_setup" /\ UNCHANGED runStatus
       \/ pc' = "finish" /\ runStatus' = "error"
    /\ UNCHANGED <<at, place, clock, calls, window, trap, locals, result>> /\ Untouched

\* The suite's skip flag is read once, after before_all.
ReadSuiteSkip(h) ==
    suiteSkip' = IF h = "before_all" THEN SuiteContext \in skipped ELSE suiteSkip

SuiteHook(h) ==
    /\ Running(h)
    /\ IF h \in hooks
       THEN /\ CallWithOwnBudget(SuiteContext, h)
            /\ pc' = HookDone[h]
            /\ window' = window \ {SuiteContext}
            /\ UNCHANGED suiteSkip
       ELSE pc' = AfterHook(h) /\ ReadSuiteSkip(h) /\ UNCHANGED <<clock, calls, at, window>>
    /\ UNCHANGED <<test, attempt, trap, locals, book>> /\ Untouched

\* _record_hook_result
SuiteHookDone(h) ==
    /\ Running(HookDone[h])
    /\ Record(IF reached THEN "timeout" ELSE IF SuiteContext \in window THEN "failed" ELSE "passed")
    /\ pc' = AfterHook(h) /\ ReadSuiteSkip(h)
    /\ UNCHANGED <<at, test, attempt, clock, calls, window, trap, locals, result>>
    /\ Resumed /\ woke' = Nobody

\* suite_context.queue_free() and one more frame.
SuiteEnd ==
    /\ Running("suite_end")
    /\ at' = "frame" /\ pc' = "finish"
    /\ UNCHANGED <<place, clock, calls, window, trap, locals, book>> /\ Untouched

\* _run_test, its entry: a skip of the suite or of the manifest, or the first
\* attempt.
RunTest ==
    /\ Running("test")
    /\ \/ /\ test > Tests
          /\ pc' = "after_all" /\ UNCHANGED <<test, result>>
       \/ /\ test <= Tests
          /\ result' = [result EXCEPT ![test] = "skipped"]
          /\ test' = test + 1 /\ UNCHANGED pc
       \/ /\ test <= Tests /\ ~suiteSkip
          /\ pc' = "attempt" /\ UNCHANGED <<test, result>>
    /\ UNCHANGED <<at, attempt, suiteSkip, clock, calls, window, trap, locals, runStatus>>
    /\ Untouched

\* A new context; an integration that cannot be prepared ends the attempt.
StartAttempt ==
    /\ Running("attempt")
    /\ timedOut' = FALSE /\ cleanupTimedOut' = FALSE
    /\ \/ /\ status' = "error" /\ pc' = "teardown" /\ UNCHANGED clock
       \/ /\ status' = "none" /\ BeginTimeout /\ pc' = "before_each"
    /\ UNCHANGED <<at, place, calls, window, trap, book>> /\ Untouched

BeforeEach ==
    /\ Running("before_each")
    /\ IF "before_each" \in hooks
       THEN CallWithinBudget(Context, "before_each") /\ pc' = "before_each_done"
       ELSE pc' = "body" /\ UNCHANGED <<clock, calls, at>>
    /\ UNCHANGED <<place, window, trap, locals, book>> /\ Untouched

BeforeEachDone ==
    /\ Running("before_each_done")
    /\ timedOut' = reached
    /\ pc' = IF reached THEN "after_each" ELSE "body"
    /\ UNCHANGED <<at, place, clock, calls, window, trap, cleanupTimedOut, status, book>>
    /\ Resumed /\ woke' = Nobody

\* The trap is cleared and armed around the body; a missing method is an error.
Body ==
    /\ Running("body")
    /\ \/ /\ CallWithinBudget(Context, "body")
          /\ trap' = TRUE /\ hits' = {}
          /\ pc' = "body_done" /\ UNCHANGED status
       \/ /\ status' = "error" /\ CancelTimeout /\ pc' = "teardown"
          /\ UNCHANGED <<at, calls, trap, hits>>
    /\ UNCHANGED <<hooks, windowed, place, window, timedOut, cleanupTimedOut, book,
                   engineError, faults, finished, skipped, failures, woke>>

BodyDone ==
    /\ Running("body_done")
    /\ trap' = FALSE
    /\ timedOut' = reached
    /\ pc' = "after_each"
    /\ UNCHANGED <<at, place, clock, calls, window, cleanupTimedOut, status, book>>
    /\ Resumed /\ woke' = Nobody

\* Cleanup of a timed-out attempt gets a fresh budget, else what is left of it.
AfterEach ==
    /\ Running("after_each")
    /\ window' = window \ {Context}
    /\ IF "after_each" \in hooks
       THEN /\ IF timedOut THEN CallWithOwnBudget(Context, "after_each")
                           ELSE CallWithinBudget(Context, "after_each")
            /\ pc' = "after_each_done"
       ELSE pc' = "verdict" /\ UNCHANGED <<clock, calls, at>>
    /\ UNCHANGED <<place, trap, locals, book>> /\ Untouched

AfterEachDone ==
    /\ Running("after_each_done")
    /\ cleanupTimedOut' = reached
    /\ timedOut' = (timedOut \/ reached)
    /\ pc' = "verdict"
    /\ UNCHANGED <<at, place, clock, calls, window, trap, status, book>>
    /\ Resumed /\ woke' = Nobody

\* Mutant: script errors heard by the trap do not reach the verdict.
AttemptStatusWithoutTrap ==
    IF cleanupTimedOut \/ ("after_each" \in hooks /\ Context \in window) THEN "error"
    ELSE IF timedOut THEN "timeout"
    ELSE IF Context \in failures THEN "failed"
    ELSE IF Context \in skipped THEN "skipped" ELSE "passed"

\* The order in which the attempt's evidence outranks itself.
AttemptStatus ==
    IF cleanupTimedOut \/ ("after_each" \in hooks /\ Context \in window) THEN "error"
    ELSE IF timedOut THEN "timeout"
    ELSE IF hits # {} THEN "error"
    ELSE IF Context \in failures THEN "failed"
    ELSE IF Context \in skipped THEN "skipped" ELSE "passed"

Verdict ==
    /\ Running("verdict")
    /\ status' = AttemptStatus
    /\ IF windowed /\ AttemptStatus \in {"failed", "timeout", "error"}
       THEN at' = "draw" /\ pc' = "capture"
       ELSE pc' = "cancel" /\ UNCHANGED at
    /\ UNCHANGED <<place, clock, calls, window, trap, timedOut, cleanupTimedOut, book>> /\ Untouched

\* _capture_failure_screenshot: a capture that fails turns the verdict.
Capture ==
    /\ Running("capture")
    /\ status' \in {status, "error"}
    /\ pc' = "cancel"
    /\ UNCHANGED <<at, place, clock, calls, window, trap, timedOut, cleanupTimedOut, book>>
    /\ Untouched

Cancel ==
    /\ Running("cancel")
    /\ CancelTimeout
    /\ pc' = "teardown"
    /\ UNCHANGED <<at, place, calls, window, trap, locals, book>> /\ Untouched

\* _teardown_integration and queue_free, a frame each.
Teardown ==
    /\ \/ Running("teardown") /\ pc' = "free"
       \/ Running("free") /\ pc' = "freed"
    /\ at' = "frame"
    /\ UNCHANGED <<place, clock, calls, window, trap, locals, book>> /\ Untouched

Retryable == status \in {"failed", "timeout"} /\ attempt <= Retries

\* The context is gone, and its coroutines with it; retry or record.
EndAttempt ==
    /\ Running("freed")
    /\ calls' = {c \in calls : c.context # Context}
    /\ IF Retryable
       THEN attempt' = attempt + 1 /\ pc' = "attempt" /\ UNCHANGED <<test, book>>
       ELSE /\ result' = [result EXCEPT ![test] = status]
            /\ Record(status)
            /\ test' = test + 1 /\ attempt' = 1
            /\ pc' = "test"
    /\ hits' = {}
    /\ UNCHANGED <<hooks, windowed, suiteSkip, at, clock, window, trap, locals, engineError, faults,
                   finished, skipped, failures, woke>>

\* Mutant: the log is not scanned for engine errors.
FinishWithoutLog ==
    /\ Running("finish")
    /\ runStatus' \in {runStatus, "error"}
    /\ pc' = "ended" /\ at' = "ended"
    /\ UNCHANGED <<place, clock, calls, window, trap, locals, result>> /\ Untouched

\* _finish_with_status: a coverage write that fails or an engine error in the
\* log makes the run an error.
Finish ==
    /\ Running("finish")
    /\ runStatus' \in IF engineError THEN {"error"} ELSE {runStatus, "error"}
    /\ pc' = "ended" /\ at' = "ended"
    /\ UNCHANGED <<place, clock, calls, window, trap, locals, result>> /\ Untouched

Runner ==
    \/ LoadSuite \/ SuiteEnd
    \/ \E h \in SuiteHooks : SuiteHook(h) \/ SuiteHookDone(h)
    \/ RunTest \/ StartAttempt \/ BeforeEach \/ BeforeEachDone \/ Body \/ BodyDone
    \/ AfterEach \/ AfterEachDone \/ Verdict \/ Capture \/ Cancel \/ Teardown
    \/ EndAttempt \/ Finish

-----------------------------------------------------------------------------
(* Timers, frames and user code: only while the runner awaits something. *)

Awaits == at \in {"signal", "frame", "draw"}
RunnerStill == UNCHANGED <<hooks, windowed, pc, place, trap, locals, book>>

\* test_call_completed.emit()
Emit(who) ==
    /\ woke' = who
    /\ at' = IF at = "signal" THEN "run" ELSE at

Frame ==
    /\ at \in {"frame", "draw"}
    /\ at' = "run"
    /\ UNCHANGED <<clock, user, woke>> /\ RunnerStill

\* _on_test_timeout
TimerFires(k) ==
    /\ Awaits /\ k \in timers
    /\ timers' = timers \ {k}
    /\ IF k = token /\ ~completed
       THEN reached' = TRUE /\ Emit([Nobody EXCEPT !.token = k])
       ELSE UNCHANGED <<reached, at, woke>>
    /\ UNCHANGED <<token, completed, user>> /\ RunnerStill

\* Mutant: user code is called without looking at the token again.
StartStaleCall(c) ==
    /\ at \in {"signal", "frame"} /\ c \in calls /\ ~c.started
    /\ calls' = (calls \ {c}) \cup {[c EXCEPT !.started = TRUE]}
    /\ UNCHANGED <<at, woke, clock, hits, failures, window, skipped, engineError, faults, finished>>
    /\ RunnerStill

\* _invoke_test after its process frame: a stale call is dropped.
StartCall(c) ==
    /\ at \in {"signal", "frame"} /\ c \in calls /\ ~c.started
    /\ calls' = (calls \ {c}) \cup
                  (IF c.token = token THEN {[c EXCEPT !.started = TRUE]} ELSE {})
    /\ UNCHANGED <<at, woke, clock, hits, failures, window, skipped, engineError, faults, finished>>
    /\ RunnerStill

\* What follows `await context.call(...)`: only the current call of a budget
\* that has not run out completes.
Complete(c) ==
    IF c.token = token /\ ~reached
    THEN completed' = TRUE
         /\ Emit([token |-> c.token, context |-> c.context, method |-> c.method])
    ELSE UNCHANGED <<completed, at, woke>>

Live(c) == Awaits /\ c \in calls /\ c.started

\* User code records a failure, or skips, on its own instance; failures after a
\* skip are discarded.
RecordFailure(c) ==
    /\ Live(c) /\ faults < Faults /\ c.context \notin skipped
    /\ faults' = faults + 1
    /\ failures' = failures \cup {c.context} /\ window' = window \cup {c.context}
    /\ UNCHANGED <<at, woke, clock, calls, hits, skipped, engineError, finished>> /\ RunnerStill

SkipTest(c) ==
    /\ Live(c) /\ faults < Faults
    /\ faults' = faults + 1
    /\ skipped' = skipped \cup {c.context}
    /\ UNCHANGED <<at, woke, clock, calls, hits, failures, window, engineError, finished>>
    /\ RunnerStill

\* A script runtime error aborts the call, goes to the log and, while the trap
\* is armed, to the trap.
ScriptError(c) ==
    /\ Live(c) /\ faults < Faults
    /\ faults' = faults + 1
    /\ engineError' = TRUE
    /\ hits' = IF trap THEN hits \cup {c.context} ELSE hits
    /\ calls' = calls \ {c}
    /\ Complete(c)
    /\ UNCHANGED <<token, reached, timers, failures, window, skipped, finished>> /\ RunnerStill

Return(c) ==
    /\ Live(c)
    /\ calls' = calls \ {c}
    /\ Complete(c)
    /\ finished' = IF c.method = "body" THEN finished \cup {c.context} ELSE finished
    /\ UNCHANGED <<token, reached, timers, hits, failures, window, skipped, engineError, faults>>
    /\ RunnerStill

Ended == at = "ended" /\ UNCHANGED vars

Next ==
    \/ Runner \/ Frame \/ Ended
    \/ \E k \in timers : TimerFires(k)
    \/ \E c \in calls : \/ StartCall(c) \/ RecordFailure(c) \/ SkipTest(c)
                        \/ ScriptError(c) \/ Return(c)

\* The engine keeps drawing frames and firing timers; user code may hang.
Fairness ==
    /\ WF_vars(Runner) /\ WF_vars(Frame)
    /\ WF_vars(\E k \in timers : TimerFires(k))

Spec == Init /\ [][Next]_vars
FairSpec == Spec /\ Fairness

-----------------------------------------------------------------------------
(* Properties. *)

Statuses == {"passed", "failed", "timeout", "error", "skipped"}
DoneMethod == [prerun_done |-> "prerun_setup", before_all_done |-> "before_all",
               after_all_done |-> "after_all", postrun_done |-> "postrun_teardown",
               before_each_done |-> "before_each", body_done |-> "body",
               after_each_done |-> "after_each"]
CallSites == DOMAIN DoneMethod
CalledContext == IF DoneMethod[pc] \in SuiteHooks THEN SuiteContext ELSE Context

\* Every variable has the values the runner can give it; the status reported
\* for the run is one of the protocol.
TypeOK ==
    /\ pc \in SuiteHooks \cup CallSites \cup
               {"load", "test", "attempt", "before_each", "body", "after_each", "verdict",
                "capture", "cancel", "teardown", "free", "freed", "suite_end", "finish", "ended"}
    /\ at \in {"run", "signal", "frame", "draw", "ended"}
    /\ test \in 1..(Tests + 1) /\ attempt \in 1..(Retries + 1)
    /\ token \in Nat /\ timers \subseteq 1..token
    /\ {reached, completed, trap, timedOut, cleanupTimedOut, engineError} \subseteq BOOLEAN
    /\ \A c \in calls : /\ c.token \in 1..token /\ c.context \in Contexts
                        /\ c.method \in Methods /\ c.started \in BOOLEAN
    /\ hits \cup failures \cup window \cup skipped \cup finished \subseteq Contexts
    /\ status \in Statuses \cup {"none"}
    /\ result \in [1..Tests -> Statuses \cup {"none"}]
    /\ runStatus \in {"passed", "failed", "error"}

\* The runner resumes from a call only because that very call returned, or
\* because the timer that bounds it fired: a timer or a coroutine left over
\* from an earlier hook or attempt never resolves a later call.
OwnWakeup ==
    at = "run" /\ pc \in CallSites =>
        woke = IF reached THEN [Nobody EXCEPT !.token = token]
               ELSE [token |-> token, context |-> CalledContext, method |-> DoneMethod[pc]]

\* A test is recorded as passed only if the body of one of its attempts ran to
\* its end (no abort, no timeout) on an instance without recorded failures.
PassedMeansBodyRan ==
    \A t \in 1..Tests : result[t] = "passed" =>
        \E a \in 1..(Retries + 1) : <<t, a>> \in finished \ failures

\* A process that reports "passed" (exit 0) has run every test to a pass or a
\* skip, and no script error was raised anywhere, hooks and leftovers included.
PassedRunIsClean ==
    pc = "ended" /\ runStatus = "passed" =>
        /\ ~engineError
        /\ \A t \in 1..Tests : result[t] \in {"passed", "skipped"}

\* User code of an attempt is entered only while the runner awaits that call: a
\* body that was still queued when its budget ran out never starts.
NoLateStart ==
    [][\A c \in calls : c.context # SuiteContext /\ ~c.started
                        /\ [c EXCEPT !.started = TRUE] \in calls' =>
          at = "signal" /\ pc \in CallSites
          /\ DoneMethod[pc] = c.method /\ c.context = Context]_vars

\* Whatever the hooks and tests do, hang included, the suite runs to its end.
SuiteEnds == <>(pc = "ended")
=============================================================================
