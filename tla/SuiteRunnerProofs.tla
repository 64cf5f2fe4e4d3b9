--------------------------- MODULE SuiteRunnerProofs ---------------------------
(***************************************************************************)
(* For any number of tests and retries, any hooks and faults: a call is    *)
(* resumed by itself or by its own timer, user code of an attempt starts   *)
(* only while the runner awaits it, and what is recorded and reported as   *)
(* passed has run.                                                         *)
(***************************************************************************)
EXTENDS SuiteRunner, TLAPS

SuiteSites == {"prerun_done", "before_all_done", "after_all_done", "postrun_done"}
AttemptSites == {"before_each", "before_each_done", "body", "body_done", "after_each", "after_each_done",
                 "verdict", "capture", "cancel", "teardown", "free", "freed"}
Ending == {"after_all", "after_all_done", "postrun_teardown", "postrun_done", "suite_end", "finish", "ended"}
Call == [token : Nat, context : Contexts, method : Methods, started : BOOLEAN]

\* TypeOK in parts, and every call is a record of one kind.
Flags == {reached, completed, trap, timedOut, cleanupTimedOut, engineError} \subseteq BOOLEAN
Clock ==
    /\ token \in Nat /\ timers \subseteq 1..token
    /\ calls \subseteq Call /\ \A c \in calls : c.token \in 1..token
Heard == hits \cup failures \cup window \cup skipped \cup finished \subseteq Contexts
Book ==
    /\ status \in Statuses \cup {"none"} /\ result \in [1..Tests -> Statuses \cup {"none"}]
    /\ runStatus \in {"passed", "failed", "error"}
Place ==
    /\ pc \in SuiteHooks \cup CallSites \cup
               {"load", "test", "attempt", "before_each", "body", "after_each", "verdict",
                "capture", "cancel", "teardown", "free", "freed", "suite_end", "finish", "ended"}
    /\ at \in {"run", "signal", "frame", "draw", "ended"}
    /\ test \in 1..(Tests + 1) /\ attempt \in 1..(Retries + 1)
Typed == Flags /\ Clock /\ Heard /\ Book /\ Place

\* What the runner awaits where, and which tests it can be at.
Places ==
    /\ at = "signal" => pc \in CallSites
    /\ at = "frame" => pc \in {"free", "freed", "finish"}
    /\ at = "draw" => pc = "capture"
    /\ at = "ended" <=> pc = "ended"
    /\ pc \in AttemptSites \cup {"attempt"} => test <= Tests
    /\ pc \in {"before_each", "before_each_done", "body", "body_done", "after_each",
               "after_each_done", "verdict", "capture", "cancel"} => token > 0

\* Live calls have tokens of their own, and an attempt's instance has calls only while the attempt
\* lasts; from its teardown on they are all stale.
Queue ==
    /\ \A c, d \in calls : c.token = d.token => c = d
    /\ \A c \in calls : c.context = SuiteContext \/ (c.context = Context /\ pc \in AttemptSites)
    /\ pc \in {"teardown", "free", "freed"} => \A c \in calls : c.context = Context => c.token < token

\* The only current call is the one the runner awaits.
Expecting ==
    at = "signal" => /\ ~reached /\ ~completed
                     /\ \A c \in calls : c.token = token =>
                           c.context = CalledContext /\ c.method = DoneMethod[pc]

\* What the attempt knows of its budget, and that a budget that still runs has no call left.
Budget ==
    /\ pc \in {"before_each", "body"} => ~reached
    /\ pc = "after_each" => timedOut \/ ~reached
    /\ pc \in {"before_each", "before_each_done", "body", "body_done"} => ~timedOut
Idle ==
    at = "run" /\ ~reached
    /\ pc \in {"before_each", "before_each_done", "body", "body_done", "after_each"} =>
        \A c \in calls : c.token < token

\* A call of the attempt's instance is the awaited one, or one the attempt was timed out for.
Overrun ==
    \A c \in calls : c.context = Context =>
        \/ c.token = token /\ at = "signal"
        \/ timedOut
        \/ at = "run" /\ reached /\ pc \in {"before_each_done", "body_done", "after_each_done"}

Protocol == Queue /\ Expecting /\ Budget /\ Idle /\ Overrun

\* The sites of the calls and what follows them, spelled out.
LEMMA Sites ==
    /\ CallSites = SuiteSites \cup {"before_each_done", "body_done", "after_each_done"}
    /\ \A h \in SuiteHooks : /\ HookDone[h] \in SuiteSites /\ DoneMethod[HookDone[h]] = h
                             /\ AfterHook(h) \in SuiteHooks \cup {"test", "suite_end"}
                             /\ h \in {"prerun_setup", "before_all"} =>
                                    AfterHook(h) \in {"before_all", "test"}
                                    /\ HookDone[h] \in {"prerun_done", "before_all_done"}
                             /\ h \in {"after_all", "postrun_teardown"} =>
                                    AfterHook(h) \in {"postrun_teardown", "suite_end"}
                                    /\ HookDone[h] \in {"after_all_done", "postrun_done"}
    /\ \A p \in SuiteSites : DoneMethod[p] \in SuiteHooks
    /\ DoneMethod["before_each_done"] = "before_each" /\ DoneMethod["body_done"] = "body"
    /\ DoneMethod["after_each_done"] = "after_each"
<1>1. CallSites = SuiteSites \cup {"before_each_done", "body_done", "after_each_done"}
  BY DEF CallSites, DoneMethod, SuiteSites
<1>2. ASSUME NEW h \in SuiteHooks
      PROVE  /\ HookDone[h] \in SuiteSites /\ DoneMethod[HookDone[h]] = h
             /\ AfterHook(h) \in SuiteHooks \cup {"test", "suite_end"}
             /\ h \in {"prerun_setup", "before_all"} =>
                    AfterHook(h) \in {"before_all", "test"}
                    /\ HookDone[h] \in {"prerun_done", "before_all_done"}
             /\ h \in {"after_all", "postrun_teardown"} =>
                    AfterHook(h) \in {"postrun_teardown", "suite_end"}
                    /\ HookDone[h] \in {"after_all_done", "postrun_done"}
  BY DEF SuiteHooks, HookDone, DoneMethod, AfterHook, SuiteSites
<1>3. \A p \in SuiteSites : DoneMethod[p] \in SuiteHooks
  BY DEF SuiteSites, DoneMethod, SuiteHooks
<1>4. /\ DoneMethod["before_each_done"] = "before_each" /\ DoneMethod["body_done"] = "body"
      /\ DoneMethod["after_each_done"] = "after_each"
  BY DEF DoneMethod
<1>5. QED
  BY <1>1, <1>2, <1>3, <1>4

LEMMA Assumed == Tests \in Nat \ {0} /\ Retries \in Nat /\ Faults \in Nat
BY RunnerAssumption

LEMMA TypedIsTypeOK == Typed => TypeOK
BY DEF Typed, Flags, Clock, Heard, Book, Place, TypeOK, Call

\* A process starts typed.
LEMMA InitTyped == Init => Typed /\ Places
<1> SUFFICES ASSUME Init PROVE Typed /\ Places
  OBVIOUS
<1>1. Flags
  BY DEF Init, Flags
<1>2. Clock /\ Heard
  BY DEF Init, Clock, Heard
<1>3. Book
  BY Assumed DEF Init, Book, Statuses
<1>4. Place
  BY Assumed DEF Init, Place
<1>5. QED
  BY <1>1, <1>2, <1>3, <1>4, Sites DEF Init, Typed, Places, SuiteSites, AttemptSites

\* What the statements that make calls do to the token and to the calls.
LEMMA Called ==
    ASSUME Typed, NEW c \in Contexts, NEW m \in Methods,
           CallWithOwnBudget(c, m) \/ (token > 0 /\ CallWithinBudget(c, m))
    PROVE  /\ token' \in Nat /\ token' >= token /\ token' > 0 /\ timers' \subseteq 1..token'
           /\ reached' \in BOOLEAN /\ completed' \in BOOLEAN
           /\ calls' \subseteq Call /\ \A d \in calls' : d.token \in 1..token'
           /\ calls' = calls \cup {NewCall(token', c, m)} /\ at' = "signal"
<1>1. token \in Nat /\ timers \subseteq 1..token /\ calls \subseteq Call /\ reached \in BOOLEAN
      /\ \A d \in calls : d.token \in 1..token
  BY DEF Typed, Flags, Clock
<1>2. /\ token' \in Nat /\ token' >= token /\ token' > 0 /\ timers' \subseteq 1..token'
      /\ reached' \in BOOLEAN /\ completed' \in BOOLEAN
      /\ calls' = calls \cup {NewCall(token', c, m)} /\ at' = "signal"
  <2>1. CASE CallWithOwnBudget(c, m)
    <3>1. token' = token + 1 /\ timers' = timers \cup {token'} /\ reached' = FALSE /\ completed' = FALSE
          /\ calls' = calls \cup {NewCall(token', c, m)} /\ at' = "signal"
      BY <2>1 DEF CallWithOwnBudget, BeginTimeout
    <3>2. token' \in Nat /\ token' >= token /\ token' > 0 /\ timers' \subseteq 1..token'
      BY <1>1, <3>1
    <3>3. reached' \in BOOLEAN /\ completed' \in BOOLEAN
      BY <3>1
    <3>4. QED
      BY <3>1, <3>2, <3>3
  <2>2. CASE token > 0 /\ CallWithinBudget(c, m)
    <3>1. token' = token /\ timers' = timers /\ reached' = reached /\ completed' = FALSE
          /\ calls' = calls \cup {NewCall(token, c, m)} /\ at' = "signal"
      BY <2>2 DEF CallWithinBudget
    <3>2. token' \in Nat /\ token' >= token /\ token' > 0 /\ timers' \subseteq 1..token'
      BY <1>1, <2>2, <3>1
    <3>3. reached' \in BOOLEAN /\ completed' \in BOOLEAN
      BY <1>1, <3>1
    <3>4. calls' = calls \cup {NewCall(token', c, m)}
      BY <3>1 DEF NewCall
    <3>5. QED
      BY <3>1, <3>2, <3>3, <3>4
  <2>3. QED
    BY <2>1, <2>2
<1>3. NewCall(token', c, m) \in Call /\ NewCall(token', c, m).token = token'
  BY <1>2 DEF NewCall, Call
<1>4. QED
  BY <1>1, <1>2, <1>3

\* The statements between calls, the calls, and what happens while the runner awaits.
Between ==
    \/ LoadSuite \/ SuiteEnd \/ RunTest \/ StartAttempt \/ BeforeEachDone \/ BodyDone
    \/ AfterEachDone \/ Verdict \/ Capture \/ Cancel \/ Teardown \/ EndAttempt \/ Finish
    \/ \E h \in SuiteHooks : SuiteHookDone(h)
Calling == BeforeEach \/ Body \/ AfterEach \/ \E h \in SuiteHooks : SuiteHook(h)
Meanwhile ==
    \/ Frame \/ \E k \in timers : TimerFires(k)
    \/ \E c \in calls : \/ StartCall(c) \/ RecordFailure(c) \/ SkipTest(c)
                        \/ ScriptError(c) \/ Return(c)

LEMMA Steps == Next => Between \/ Calling \/ Meanwhile \/ UNCHANGED vars
BY DEF Next, Runner, Between, Calling, Meanwhile, Ended

LEMMA StepFlags ==
    ASSUME Typed, Next
    PROVE  Flags'
<1>1. Flags
  BY DEF Typed
<1> USE <1>1 DEF Flags, clock, user, locals, Untouched, Resumed, RunnerStill, BeginTimeout, CancelTimeout
<1>2. CASE UNCHANGED vars
  BY <1>2 DEF vars
<1>3. CASE LoadSuite \/ SuiteEnd \/ RunTest \/ Teardown \/ EndAttempt \/ Finish \/ Cancel
             \/ \E h \in SuiteHooks : SuiteHookDone(h)
  BY <1>3 DEF LoadSuite, SuiteEnd, RunTest, Teardown, EndAttempt, Finish, Cancel, SuiteHookDone
<1>4. CASE StartAttempt \/ BeforeEachDone \/ BodyDone \/ AfterEachDone \/ Verdict \/ Capture
  BY <1>4 DEF StartAttempt, BeforeEachDone, BodyDone, AfterEachDone, Verdict, Capture
<1>5. CASE Calling
  BY <1>5 DEF Calling, BeforeEach, Body, AfterEach, SuiteHook, CallWithOwnBudget, CallWithinBudget
<1>6. CASE Meanwhile
  BY <1>6 DEF Meanwhile, Frame, TimerFires, StartCall, RecordFailure, SkipTest, ScriptError, Return, Complete
<1>7. QED
  BY <1>2, <1>3, <1>4, <1>5, <1>6, Steps DEF Between

LEMMA StepBook ==
    ASSUME Typed, Next
    PROVE  Book'
<1>1. Book /\ Place /\ Tests \in Nat /\ Retries \in Nat
  BY Assumed DEF Typed
<1> USE <1>1 DEF Book, book, locals, Untouched, Resumed, RunnerStill, Record, Statuses
<1>2. CASE UNCHANGED vars
  BY <1>2 DEF vars
<1>3. CASE LoadSuite \/ SuiteEnd \/ Teardown \/ Finish \/ Cancel \/ BeforeEachDone \/ BodyDone
             \/ AfterEachDone \/ StartAttempt \/ Capture
  BY <1>3 DEF LoadSuite, SuiteEnd, Teardown, Finish, Cancel, BeforeEachDone, BodyDone, AfterEachDone,
              StartAttempt, Capture
<1>4. CASE \E h \in SuiteHooks : SuiteHookDone(h)
  BY <1>4 DEF SuiteHookDone
<1>5. CASE RunTest
  BY <1>5 DEF RunTest, Place
<1>6. CASE EndAttempt
  BY <1>6 DEF EndAttempt, Place
<1>7. CASE Verdict
  BY <1>7 DEF Verdict, AttemptStatus
<1>8. CASE Calling
  BY <1>8 DEF Calling, BeforeEach, Body, AfterEach, SuiteHook
<1>9. CASE Meanwhile
  BY <1>9 DEF Meanwhile, Frame, TimerFires, StartCall, RecordFailure, SkipTest, ScriptError, Return
<1>10. QED
  BY <1>2, <1>3, <1>4, <1>5, <1>6, <1>7, <1>8, <1>9, Steps DEF Between

LEMMA StepHeard ==
    ASSUME Typed, Places, Next
    PROVE  Heard'
<1>1. Heard /\ Clock
  BY DEF Typed
<1> USE <1>1 DEF Heard, user, Untouched, Resumed, RunnerStill
<1>2. CASE UNCHANGED vars
  BY <1>2 DEF vars
<1>3. CASE Between
  BY <1>3 DEF Between, LoadSuite, SuiteEnd, Teardown, Finish, Cancel, BeforeEachDone, BodyDone,
              AfterEachDone, StartAttempt, Capture, SuiteHookDone, RunTest, EndAttempt, Verdict
<1>4. CASE Calling
  BY <1>4 DEF Calling, BeforeEach, Body, AfterEach, SuiteHook
<1>5. CASE Meanwhile
  <2>1. CASE Frame \/ \E k \in timers : TimerFires(k)
    BY <2>1 DEF Frame, TimerFires
  <2>2. ASSUME NEW c \in calls, StartCall(c) \/ RecordFailure(c) \/ SkipTest(c)
                                 \/ ScriptError(c) \/ Return(c)
        PROVE  Heard'
    <3>1. c.context \in Contexts
      BY <1>1 DEF Clock, Call
    <3>2. CASE StartCall(c)
      BY <3>2 DEF StartCall
    <3>3. CASE RecordFailure(c)
      BY <3>1, <3>3 DEF RecordFailure
    <3>4. CASE SkipTest(c)
      BY <3>1, <3>4 DEF SkipTest
    <3>5. CASE ScriptError(c)
      BY <3>1, <3>5 DEF ScriptError
    <3>6. CASE Return(c)
      BY <3>1, <3>6 DEF Return
    <3>7. QED
      BY <2>2, <3>2, <3>3, <3>4, <3>5, <3>6
  <2>3. QED
    BY <1>5, <2>1, <2>2 DEF Meanwhile
<1>6. QED
  BY <1>2, <1>3, <1>4, <1>5, Steps

\* A call is made on a context that exists, where the token has been advanced.
LEMMA Contexted ==
    ASSUME Typed, Places
    PROVE  SuiteContext \in Contexts /\ (pc \in AttemptSites => Context \in Contexts)
<1>1. SuiteContext \in Contexts
  BY DEF Contexts
<1>2. ASSUME pc \in AttemptSites PROVE Context \in Contexts
  <2>1. test \in 1..(Tests + 1) /\ test <= Tests /\ attempt \in 1..(Retries + 1)
    BY <1>2 DEF Typed, Place, Places
  <2>2. test \in 1..Tests
    BY <2>1, Assumed
  <2>3. QED
    BY <2>1, <2>2 DEF Context, Contexts
<1>3. QED
  BY <1>1, <1>2

\* Every statement that makes a call makes it with the token it leaves.
CallMade(c, m) ==
    /\ CallWithOwnBudget(c, m) \/ (token > 0 /\ CallWithinBudget(c, m))
    /\ c \in Contexts /\ m \in Methods

\* A statement that may make a call makes one, or leaves the calls alone.
LEMMA CallingCalls ==
    ASSUME Typed, Places, Calling
    PROVE  \/ \E c \in Contexts, m \in Methods : CallMade(c, m)
           \/ UNCHANGED <<clock, calls, at>>
           \/ pc = "body" /\ CancelTimeout /\ UNCHANGED <<calls, at>>
<1>1. SuiteContext \in Contexts /\ (pc \in AttemptSites => Context \in Contexts)
  BY Contexted
<1>2. ASSUME NEW h \in SuiteHooks, SuiteHook(h)
      PROVE  CallMade(SuiteContext, h) \/ UNCHANGED <<clock, calls, at>>
  BY <1>1, <1>2 DEF SuiteHook, CallMade, Methods
<1>3. CASE BeforeEach
  <2>1. pc = "before_each" /\ Context \in Contexts /\ token > 0
    BY <1>1, <1>3 DEF BeforeEach, Running, Places, AttemptSites
  <2>2. CallMade(Context, "before_each") \/ UNCHANGED <<clock, calls, at>>
    BY <1>3, <2>1 DEF BeforeEach, CallMade, Methods, TestHooks
  <2>3. QED
    BY <2>1, <2>2 DEF Methods, TestHooks
<1>4. CASE Body
  <2>1. pc = "body" /\ Context \in Contexts /\ token > 0
    BY <1>1, <1>4 DEF Body, Running, Places, AttemptSites
  <2>2. CallMade(Context, "body") \/ (CancelTimeout /\ UNCHANGED <<calls, at>>)
    BY <1>4, <2>1 DEF Body, CallMade, Methods
  <2>3. QED
    BY <2>1, <2>2 DEF Methods
<1>5. CASE AfterEach
  <2>1. pc = "after_each" /\ Context \in Contexts /\ token > 0
    BY <1>1, <1>5 DEF AfterEach, Running, Places, AttemptSites
  <2>2. CallMade(Context, "after_each") \/ UNCHANGED <<clock, calls, at>>
    BY <1>5, <2>1 DEF AfterEach, CallMade, Methods, TestHooks
  <2>3. QED
    BY <2>1, <2>2 DEF Methods, TestHooks
<1>6. QED
  BY <1>1, <1>2, <1>3, <1>4, <1>5 DEF Calling, Methods

LEMMA StepClock ==
    ASSUME Typed, Places, Next
    PROVE  Clock'
<1>1. /\ Clock /\ token \in Nat /\ timers \subseteq 1..token /\ calls \subseteq Call
      /\ \A c \in calls : c.token \in 1..token
  BY DEF Typed, Clock
<1>2. ASSUME UNCHANGED <<token, timers>>, calls' \subseteq calls PROVE Clock'
  BY <1>1, <1>2 DEF Clock
<1>3. ASSUME token' = token + 1, UNCHANGED calls, timers' \in {timers, timers \cup {token + 1}} PROVE Clock'
  <2>1. token' \in Nat /\ 1..token \subseteq 1..token' /\ token + 1 \in 1..token'
    BY <1>1, <1>3
  <2>2. QED
    BY <1>1, <1>3, <2>1 DEF Clock
<1>4. CASE UNCHANGED vars
  BY <1>2, <1>4 DEF vars, clock, user
<1>5. CASE StartAttempt
  <2>1. UNCHANGED calls /\ (UNCHANGED <<token, timers>> \/ BeginTimeout)
    BY <1>5 DEF StartAttempt, clock
  <2>2. QED
    BY <1>2, <1>3, <2>1 DEF BeginTimeout
<1>6. CASE Cancel
  BY <1>3, <1>6 DEF Cancel, CancelTimeout
<1>7. CASE EndAttempt
  BY <1>2, <1>7 DEF EndAttempt, clock
<1>8. CASE LoadSuite \/ SuiteEnd \/ RunTest \/ BeforeEachDone \/ BodyDone \/ AfterEachDone \/ Verdict
             \/ Capture \/ Teardown \/ Finish \/ \E h \in SuiteHooks : SuiteHookDone(h)
  <2>1. UNCHANGED <<token, timers, calls>>
    BY <1>8 DEF LoadSuite, SuiteEnd, RunTest, BeforeEachDone, BodyDone, AfterEachDone, Verdict, Capture,
                Teardown, Finish, SuiteHookDone, clock
  <2>2. QED
    BY <1>2, <2>1
<1>9. CASE Calling
  <2>1. ASSUME NEW c \in Contexts, NEW m \in Methods, CallMade(c, m) PROVE Clock'
    BY <2>1, Called DEF CallMade, Clock
  <2>2. CASE UNCHANGED <<clock, calls, at>>
    BY <1>2, <2>2 DEF clock
  <2>3. CASE CancelTimeout /\ UNCHANGED <<calls, at>>
    BY <1>3, <2>3 DEF CancelTimeout
  <2>4. QED
    BY <1>9, <2>1, <2>2, <2>3, CallingCalls
<1>10. CASE Meanwhile
  <2>1. CASE Frame
    BY <1>2, <2>1 DEF Frame, clock, user
  <2>2. ASSUME NEW k \in timers, TimerFires(k) PROVE Clock'
    BY <1>1, <2>2 DEF TimerFires, user, Clock
  <2>3. ASSUME NEW c \in calls, StartCall(c) PROVE Clock'
    <3>1. c \in Call /\ [c EXCEPT !.started = TRUE] \in Call
          /\ [c EXCEPT !.started = TRUE].token = c.token
      BY <1>1 DEF Call
    <3>2. UNCHANGED <<token, timers>> /\ calls' \subseteq calls \cup {[c EXCEPT !.started = TRUE]}
      BY <2>3 DEF StartCall, clock
    <3>3. QED
      BY <1>1, <3>1, <3>2 DEF Clock
  <2>4. ASSUME NEW c \in calls, RecordFailure(c) \/ SkipTest(c) \/ ScriptError(c) \/ Return(c) PROVE Clock'
    <3>1. UNCHANGED <<token, timers>> /\ calls' \subseteq calls
      BY <2>4 DEF RecordFailure, SkipTest, ScriptError, Return, clock
    <3>2. QED
      BY <1>2, <3>1
  <2>5. QED
    BY <1>10, <2>1, <2>2, <2>3, <2>4 DEF Meanwhile
<1>11. QED
  BY <1>4, <1>5, <1>6, <1>7, <1>8, <1>9, <1>10, Steps DEF Between

LEMMA StepPlace ==
    ASSUME Typed, Places, Next
    PROVE  Place' /\ Places'
<1>1. Place /\ Tests \in Nat /\ Retries \in Nat /\ token \in Nat
  BY Assumed DEF Typed, Clock
<1>2. /\ CallSites = SuiteSites \cup {"before_each_done", "body_done", "after_each_done"}
      /\ \A h \in SuiteHooks : HookDone[h] \in SuiteSites
                               /\ AfterHook(h) \in SuiteHooks \cup {"test", "suite_end"}
  BY Sites
<1> USE DEF Place, Places, place, clock, SuiteHooks, SuiteSites, AttemptSites
<1>3. CASE UNCHANGED vars
  BY <1>1, <1>3 DEF vars
<1>4. CASE LoadSuite \/ SuiteEnd \/ BeforeEachDone \/ BodyDone \/ AfterEachDone \/ Verdict \/ Capture
             \/ Teardown \/ Finish
  BY <1>1, <1>2, <1>4 DEF LoadSuite, SuiteEnd, BeforeEachDone, BodyDone, AfterEachDone, Verdict, Capture,
                          Teardown, Finish, Running
<1>5. CASE Cancel
  BY <1>1, <1>2, <1>5 DEF Cancel, CancelTimeout, Running
<1>6. CASE StartAttempt
  BY <1>1, <1>2, <1>6 DEF StartAttempt, BeginTimeout, Running
<1>7. CASE RunTest
  BY <1>1, <1>2, <1>7 DEF RunTest, Running
<1>8. CASE EndAttempt
  BY <1>1, <1>2, <1>8 DEF EndAttempt, Running, Retryable
<1>9. ASSUME NEW h \in SuiteHooks, SuiteHookDone(h) PROVE Place' /\ Places'
  BY <1>1, <1>2, <1>9 DEF SuiteHookDone, Running
<1>10. ASSUME NEW h \in SuiteHooks, SuiteHook(h) PROVE Place' /\ Places'
  BY <1>1, <1>2, <1>10 DEF SuiteHook, Running, CallWithOwnBudget
<1>11. CASE BeforeEach
  BY <1>1, <1>2, <1>11 DEF BeforeEach, Running, CallWithinBudget
<1>12. CASE Body
  BY <1>1, <1>2, <1>12 DEF Body, Running, CallWithinBudget, CancelTimeout
<1>13. CASE AfterEach
  BY <1>1, <1>2, <1>13 DEF AfterEach, Running, CallWithinBudget, CallWithOwnBudget, BeginTimeout
<1>14. CASE Meanwhile
  <2>1. UNCHANGED <<pc, test, attempt, token>> /\ (at' = at \/ (at' = "run" /\ at # "ended"))
    BY <1>14 DEF Meanwhile, Frame, TimerFires, StartCall, RecordFailure, SkipTest, ScriptError, Return,
                 Complete, Emit, RunnerStill, Awaits
  <2>2. QED
    BY <1>1, <1>2, <2>1
<1>15. QED
  BY <1>3, <1>4, <1>5, <1>6, <1>7, <1>8, <1>9, <1>10, <1>11, <1>12, <1>13, <1>14, Steps DEF Between, Calling

\* The instance of an attempt is not the suite's.
LEMMA OwnInstance == ASSUME Place PROVE Context # SuiteContext
BY Assumed DEF Place, Context, SuiteContext

\* The statements between calls make none.
LEMMA BetweenCalls ==
    ASSUME Typed, Between
    PROVE  calls' \subseteq calls /\ at = "run" /\ at' # "signal" /\ pc \notin {"before_each", "body", "after_each"}
<1>1. ASSUME NEW h \in SuiteHooks, SuiteHookDone(h)
      PROVE  calls' \subseteq calls /\ at = "run" /\ at' # "signal" /\ pc \notin {"before_each", "body", "after_each"}
  BY <1>1, Sites DEF SuiteHookDone, Running, SuiteSites
<1>2. CASE LoadSuite \/ SuiteEnd \/ RunTest \/ StartAttempt \/ BeforeEachDone \/ BodyDone
           \/ AfterEachDone \/ Verdict \/ Capture \/ Cancel \/ Teardown \/ EndAttempt \/ Finish
  BY <1>2 DEF LoadSuite, SuiteEnd, RunTest, StartAttempt, BeforeEachDone, BodyDone, AfterEachDone, Verdict,
              Capture, Cancel, Teardown, EndAttempt, Finish, Running
<1>3. QED
  BY <1>1, <1>2 DEF Between

\* A statement that makes a call makes the one that its site stands for, with a token that no live
\* call has.
CallHere(c, m) ==
    /\ calls' = calls \cup {NewCall(token', c, m)} /\ at' = "signal"
    /\ ~reached' /\ ~completed'
    /\ \A d \in calls : d.token < token'
    /\ pc' \in CallSites /\ c = CalledContext' /\ m = DoneMethod[pc']
    /\ c = SuiteContext \/ (c = Context /\ {pc, pc'} \subseteq AttemptSites \ {"teardown", "free", "freed"})

LEMMA CallingHere ==
    ASSUME Typed, Places, Budget, Idle, Calling
    PROVE  /\ at = "run" /\ UNCHANGED <<test, attempt, timedOut>>
           /\ \/ calls' = calls /\ at' = "run"
              \/ \E c \in {SuiteContext, Context}, m \in Methods : CallHere(c, m)
<1>1. /\ Place /\ token \in Nat /\ \A d \in calls : d.token \in 1..token
      /\ Context # SuiteContext
  BY OwnInstance DEF Typed, Clock
<1>2. ASSUME NEW c, NEW m, CallWithOwnBudget(c, m)
      PROVE  /\ calls' = calls \cup {NewCall(token', c, m)} /\ at' = "signal" /\ ~reached' /\ ~completed'
             /\ \A d \in calls : d.token < token'
  BY <1>1, <1>2 DEF CallWithOwnBudget, BeginTimeout
<1>3. ASSUME NEW c, NEW m, CallWithinBudget(c, m), ~reached, \A d \in calls : d.token < token
      PROVE  /\ calls' = calls \cup {NewCall(token', c, m)} /\ at' = "signal" /\ ~reached' /\ ~completed'
             /\ \A d \in calls : d.token < token'
  <2>1. token' = token /\ reached' = reached /\ completed' = FALSE /\ at' = "signal"
        /\ calls' = calls \cup {NewCall(token, c, m)}
    BY <1>3 DEF CallWithinBudget
  <2>2. NewCall(token, c, m) = NewCall(token', c, m)
    BY <2>1 DEF NewCall
  <2>3. QED
    BY <1>3, <2>1, <2>2
<1>4. ASSUME NEW h \in SuiteHooks, SuiteHook(h)
      PROVE  /\ at = "run" /\ UNCHANGED <<test, attempt, timedOut>>
             /\ (calls' = calls /\ at' = "run") \/ CallHere(SuiteContext, h)
  <2>1. at = "run" /\ UNCHANGED <<test, attempt, timedOut>>
    BY <1>4 DEF SuiteHook, Running, locals
  <2>2. CASE h \in hooks
    <3>1. CallWithOwnBudget(SuiteContext, h) /\ pc' = HookDone[h]
      BY <1>4, <2>2 DEF SuiteHook
    <3>2. HookDone[h] \in CallSites /\ DoneMethod[HookDone[h]] = h
      BY Sites
    <3>3. CalledContext' = SuiteContext
      BY <3>1, <3>2 DEF CalledContext
    <3>4. QED
      BY <1>2, <2>1, <3>1, <3>2, <3>3 DEF CallHere
  <2>3. CASE h \notin hooks
    BY <1>4, <2>1, <2>3 DEF SuiteHook, Running
  <2>4. QED
    BY <2>2, <2>3
<1>5. CallSites = SuiteSites \cup {"before_each_done", "body_done", "after_each_done"}
      /\ DoneMethod["before_each_done"] = "before_each" /\ DoneMethod["body_done"] = "body"
      /\ DoneMethod["after_each_done"] = "after_each"
  BY Sites
<1>6. ASSUME NEW m, NEW p \in {"before_each_done", "body_done", "after_each_done"}, pc' = p, UNCHANGED <<test, attempt>>,
             pc \in {"before_each", "body", "after_each"}, m = DoneMethod[p],
             calls' = calls \cup {NewCall(token', Context, m)}, at' = "signal", ~reached', ~completed',
             \A d \in calls : d.token < token'
      PROVE  CallHere(Context, m)
  <2>1. DoneMethod[p] \notin SuiteHooks /\ p \in CallSites
    BY <1>5, <1>6 DEF SuiteHooks
  <2>2. CalledContext' = Context
    BY <1>6, <2>1 DEF CalledContext, Context
  <2>3. QED
    BY <1>6, <2>1, <2>2 DEF CallHere, AttemptSites
<1>7. CASE BeforeEach
  <2>1. pc = "before_each" /\ at = "run" /\ UNCHANGED <<test, attempt, timedOut>>
    BY <1>7 DEF BeforeEach, Running, locals, place
  <2>2. ~reached /\ \A d \in calls : d.token < token
    BY <2>1 DEF Budget, Idle
  <2>3. CASE "before_each" \in hooks
    <3>1. CallWithinBudget(Context, "before_each") /\ pc' = "before_each_done"
      BY <1>7, <2>3 DEF BeforeEach
    <3>2. CallHere(Context, "before_each")
      BY <1>3, <1>5, <1>6, <2>1, <2>2, <3>1
    <3>3. QED
      BY <2>1, <3>2 DEF Methods, TestHooks
  <2>4. CASE "before_each" \notin hooks
    BY <1>7, <2>1, <2>4 DEF BeforeEach
  <2>5. QED
    BY <2>3, <2>4
<1>8. CASE Body
  <2>1. pc = "body" /\ at = "run" /\ UNCHANGED <<test, attempt, timedOut>>
    BY <1>8 DEF Body, Running, place
  <2>2. ~reached /\ \A d \in calls : d.token < token
    BY <2>1 DEF Budget, Idle
  <2>3. CASE CallWithinBudget(Context, "body") /\ pc' = "body_done"
    <3>1. CallHere(Context, "body")
      BY <1>3, <1>5, <1>6, <2>1, <2>2, <2>3
    <3>2. QED
      BY <2>1, <3>1 DEF Methods
  <2>4. CASE UNCHANGED <<at, calls>>
    BY <2>1, <2>4
  <2>5. QED
    BY <1>8, <2>3, <2>4 DEF Body
<1>9. CASE AfterEach
  <2>1. pc = "after_each" /\ at = "run" /\ UNCHANGED <<test, attempt, timedOut>>
    BY <1>9 DEF AfterEach, Running, locals, place
  <2>2. CASE "after_each" \in hooks
    <3>1. /\ pc' = "after_each_done"
          /\ \/ CallWithOwnBudget(Context, "after_each")
             \/ ~timedOut /\ CallWithinBudget(Context, "after_each")
      BY <1>9, <2>2 DEF AfterEach
    <3>2. ~timedOut => ~reached /\ \A d \in calls : d.token < token
      BY <2>1 DEF Budget, Idle
    <3>3. CallHere(Context, "after_each")
      BY <1>2, <1>3, <1>5, <1>6, <2>1, <3>1, <3>2
    <3>4. QED
      BY <2>1, <3>3 DEF Methods, TestHooks
  <2>3. CASE "after_each" \notin hooks
    BY <1>9, <2>1, <2>3 DEF AfterEach
  <2>4. QED
    BY <2>2, <2>3
<1>10. QED
  BY <1>4, <1>7, <1>8, <1>9 DEF Calling, Methods

\* What happens meanwhile leaves the runner's locals alone and makes no call; a call that is let go
\* is only marked as started.
LEMMA MeanwhileStill ==
    ASSUME Typed, Queue, Meanwhile
    PROVE  /\ Awaits /\ UNCHANGED <<hooks, pc, test, attempt, token, timedOut, trap, status, result, runStatus>>
           /\ \A c \in calls' : \E d \in calls :
                 c.token = d.token /\ c.context = d.context /\ c.method = d.method
           /\ \A c, d \in calls' : c.token = d.token => c = d
<1>1. calls \subseteq Call /\ \A c, d \in calls : c.token = d.token => c = d
  BY DEF Typed, Clock, Queue
<1>2. Awaits /\ UNCHANGED <<hooks, pc, test, attempt, token, timedOut, trap, status, result, runStatus>>
  BY DEF Meanwhile, Frame, TimerFires, StartCall, RecordFailure, SkipTest, ScriptError, Return, Live, Awaits,
         RunnerStill, clock, place, locals, book
<1>3. ASSUME calls' \subseteq calls
      PROVE  /\ \A c \in calls' : \E d \in calls :
                   c.token = d.token /\ c.context = d.context /\ c.method = d.method
             /\ \A c, d \in calls' : c.token = d.token => c = d
  BY <1>1, <1>3
<1>4. CASE Frame \/ \E k \in timers : TimerFires(k)
  <2>1. calls' \subseteq calls
    BY <1>4 DEF Frame, TimerFires, user
  <2>2. QED
    BY <1>2, <1>3, <2>1
<1>5. ASSUME NEW c \in calls, RecordFailure(c) \/ SkipTest(c) \/ ScriptError(c) \/ Return(c)
      PROVE  calls' \subseteq calls
  BY <1>5 DEF RecordFailure, SkipTest, ScriptError, Return
<1>6. ASSUME NEW c \in calls, StartCall(c)
      PROVE  /\ \A e \in calls' : \E d \in calls :
                   e.token = d.token /\ e.context = d.context /\ e.method = d.method
             /\ \A e, d \in calls' : e.token = d.token => e = d
  <2> DEFINE s == [c EXCEPT !.started = TRUE]
  <2>1. s.token = c.token /\ s.context = c.context /\ s.method = c.method
    BY <1>1 DEF Call
  <2>2. calls' \subseteq (calls \ {c}) \cup {s}
    BY <1>6 DEF StartCall
  <2> HIDE DEF s
  <2>3. \A e \in calls' : \E d \in calls : e.token = d.token /\ e.context = d.context /\ e.method = d.method
    BY <2>1, <2>2
  <2>4. \A e, d \in calls' : e.token = d.token => e = d
    BY <1>1, <2>1, <2>2
  <2>5. QED
    BY <2>3, <2>4
<1>7. QED
  BY <1>2, <1>3, <1>4, <1>5, <1>6 DEF Meanwhile

Woken(k, c, m) == [token |-> k, context |-> c, method |-> m]

\* A runner that awaits a call goes on waiting, is resumed by the timer of the current budget, or by
\* the awaited call, the only one with the current token, which is gone then.
LEMMA Wake ==
    ASSUME Typed, Places, Queue, Expecting, Meanwhile, at = "signal"
    PROVE  \/ at' = "signal" /\ UNCHANGED <<reached, completed>>
           \/ at' = "run" /\ reached' /\ woke' = [Nobody EXCEPT !.token = token]
           \/ /\ at' = "run" /\ ~reached' /\ woke' = Woken(token, CalledContext, DoneMethod[pc])
              /\ \E c \in calls : /\ c.token = token /\ calls' = calls \ {c}
                                  /\ Return(c) \/ ScriptError(c)
<1>1. ~reached /\ ~completed
      /\ \A c \in calls : c.token = token => c.context = CalledContext /\ c.method = DoneMethod[pc]
  BY DEF Expecting
<1>2. ASSUME NEW k \in timers, TimerFires(k)
      PROVE  \/ at' = "signal" /\ UNCHANGED <<reached, completed>>
             \/ at' = "run" /\ reached' /\ woke' = [Nobody EXCEPT !.token = token]
  <2>1. CASE k = token
    <3>1. reached' = TRUE /\ Emit([Nobody EXCEPT !.token = k])
      BY <1>1, <1>2, <2>1 DEF TimerFires
    <3>2. at' = "run" /\ woke' = [Nobody EXCEPT !.token = k]
      BY <3>1 DEF Emit
    <3>3. QED
      BY <2>1, <3>1, <3>2
  <2>2. CASE k # token
    <3>1. UNCHANGED <<reached, at, completed>>
      BY <1>2, <2>2 DEF TimerFires
    <3>2. QED
      BY <3>1
  <2>3. QED
    BY <2>1, <2>2
<1>3. ASSUME NEW c \in calls, Return(c) \/ ScriptError(c)
      PROVE  \/ at' = "signal" /\ UNCHANGED <<reached, completed>>
             \/ /\ at' = "run" /\ ~reached' /\ woke' = Woken(token, CalledContext, DoneMethod[pc])
                /\ c.token = token /\ calls' = calls \ {c}
  <2>1. Complete(c) /\ UNCHANGED reached /\ calls' = calls \ {c}
    BY <1>3 DEF Return, ScriptError
  <2>2. CASE c.token = token
    <3>1. Emit(Woken(c.token, c.context, c.method))
      BY <1>1, <2>1, <2>2 DEF Complete, Woken
    <3>2. at' = "run" /\ woke' = Woken(c.token, c.context, c.method)
      BY <3>1 DEF Emit
    <3>3. c.context = CalledContext /\ c.method = DoneMethod[pc]
      BY <1>1, <2>2
    <3>4. QED
      BY <1>1, <2>1, <2>2, <3>2, <3>3
  <2>3. CASE c.token # token
    <3>1. UNCHANGED <<completed, at>>
      BY <2>1, <2>3 DEF Complete
    <3>2. QED
      BY <2>1, <3>1
  <2>4. QED
    BY <2>2, <2>3
<1>4. ASSUME NEW c \in calls, StartCall(c) \/ RecordFailure(c) \/ SkipTest(c)
      PROVE  at' = "signal" /\ UNCHANGED <<reached, completed>>
  BY <1>4 DEF StartCall, RecordFailure, SkipTest, clock
<1>5. ~Frame
  BY DEF Frame
<1>6. QED
  BY <1>2, <1>3, <1>4, <1>5 DEF Meanwhile

LEMMA StepQueue ==
    ASSUME Typed, Places, Protocol, Next
    PROVE  Queue'
<1>1. /\ Queue /\ Place /\ Place' /\ token \in Nat /\ calls \subseteq Call /\ \A d \in calls : d.token \in 1..token
      /\ \A d \in calls' : d.token \in 1..token' /\ token' \in Nat
  BY StepPlace, StepClock DEF Protocol, Typed, Clock
<1>2. Context # SuiteContext
  BY <1>1, OwnInstance
<1>3. CASE UNCHANGED vars
  BY <1>1, <1>3 DEF vars, clock, user, place, Queue, Context
<1>4. CASE Between
  <2>1. calls' \subseteq calls
    BY <1>4, BetweenCalls
  <2>2. CASE EndAttempt
    <3>1. calls' = {c \in calls : c.context # Context} /\ pc' \notin {"teardown", "free", "freed"}
      BY <2>2 DEF EndAttempt
    <3>2. \A c \in calls' : c.context = SuiteContext
      BY <1>1, <3>1 DEF Queue
    <3>3. QED
      BY <1>1, <2>1, <3>1, <3>2 DEF Queue
  <2>3. CASE RunTest \/ LoadSuite \/ SuiteEnd \/ Finish \/ \E h \in SuiteHooks : SuiteHookDone(h)
    <3>1. pc \notin AttemptSites /\ pc' \notin {"teardown", "free", "freed"}
      BY <2>3, Sites DEF RunTest, LoadSuite, SuiteEnd, Finish, SuiteHookDone, Running, AttemptSites, SuiteSites,
                         SuiteHooks
    <3>2. \A c \in calls' : c.context = SuiteContext
      BY <1>1, <2>1, <3>1 DEF Queue
    <3>3. QED
      BY <1>1, <2>1, <3>1, <3>2 DEF Queue
  <2>4. CASE StartAttempt
    <3>1. pc \notin AttemptSites /\ UNCHANGED <<test, attempt>>
      BY <2>4 DEF StartAttempt, Running, AttemptSites, place
    <3>2. \A c \in calls' : c.context = SuiteContext
      BY <1>1, <2>1, <3>1 DEF Queue
    <3>3. Context' = Context
      BY <3>1 DEF Context
    <3>4. QED
      BY <1>1, <1>2, <2>1, <3>2, <3>3 DEF Queue
  <2>5. CASE BeforeEachDone \/ BodyDone \/ AfterEachDone \/ Verdict \/ Capture
    <3>1. pc' \in AttemptSites \ {"teardown", "free", "freed"} /\ UNCHANGED <<test, attempt>>
      BY <2>5 DEF BeforeEachDone, BodyDone, AfterEachDone, Verdict, Capture, AttemptSites, place
    <3>2. Context' = Context
      BY <3>1 DEF Context
    <3>3. QED
      BY <1>1, <2>1, <3>1, <3>2 DEF Queue
  <2>6. CASE Cancel
    <3>1. pc' = "teardown" /\ UNCHANGED <<test, attempt>> /\ token' = token + 1
      BY <2>6 DEF Cancel, CancelTimeout, place
    <3>2. Context' = Context /\ \A c \in calls' : c.token < token'
      BY <1>1, <2>1, <3>1 DEF Context
    <3>3. QED
      BY <1>1, <2>1, <3>1, <3>2 DEF Queue, AttemptSites
  <2>7. CASE Teardown
    <3>1. {pc, pc'} \subseteq {"teardown", "free", "freed"} /\ UNCHANGED <<test, attempt, token>>
      BY <2>7 DEF Teardown, Running, place, clock
    <3>2. Context' = Context
      BY <3>1 DEF Context
    <3>3. QED
      BY <1>1, <2>1, <3>1, <3>2 DEF Queue, AttemptSites
  <2>8. QED
    BY <1>4, <2>2, <2>3, <2>4, <2>5, <2>6, <2>7 DEF Between
<1>5. CASE Calling
  <2>1. Budget /\ Idle
    BY DEF Protocol
  <2>2. UNCHANGED <<test, attempt>> /\ Context' = Context
    BY <1>5, <2>1, CallingHere DEF Context
  <2>3. ASSUME NEW c \in {SuiteContext, Context}, NEW m, CallHere(c, m) PROVE Queue'
    <3> DEFINE n == NewCall(token', c, m)
    <3>1. calls' = calls \cup {n} /\ \A d \in calls : d.token < token'
      BY <2>3 DEF CallHere
    <3>2. n.token = token' /\ n.context = c
      BY DEF NewCall
    <3> HIDE DEF n
    <3>3. \A d \in calls : d.token \in Nat
      BY <1>1 DEF Call
    <3>4. \A d, e \in calls' : d.token = e.token => d = e
      BY <1>1, <3>1, <3>2, <3>3 DEF Queue
    <3>5. CASE c = SuiteContext /\ pc \notin AttemptSites
      <4>1. \A d \in calls' : d.context = SuiteContext
        BY <1>1, <3>1, <3>2, <3>5 DEF Queue
      <4>2. QED
        BY <1>2, <2>2, <3>4, <4>1 DEF Queue
    <3>6. CASE c = Context /\ pc' \in AttemptSites \ {"teardown", "free", "freed"}
      BY <1>1, <2>2, <3>1, <3>2, <3>4, <3>6 DEF Queue
    <3>7. c = SuiteContext => pc \notin AttemptSites
      <4>1. SUFFICES ASSUME c = SuiteContext, pc \in AttemptSites PROVE FALSE
        OBVIOUS
      <4>2. BeforeEach \/ Body \/ AfterEach
        <5>1. ASSUME NEW h \in SuiteHooks, SuiteHook(h) PROVE FALSE
          BY <4>1, <5>1 DEF SuiteHook, Running, SuiteHooks, AttemptSites
        <5>2. QED
          BY <1>5, <5>1 DEF Calling
      <4>3. pc' \in {"body", "before_each_done", "teardown", "body_done", "verdict", "after_each_done"}
        BY <4>2 DEF BeforeEach, Body, AfterEach
      <4>4. pc' \in CallSites /\ CalledContext' = SuiteContext
        BY <2>3, <4>1 DEF CallHere
      <4>5. DoneMethod[pc'] \notin SuiteHooks
        BY <4>3, <4>4, Sites DEF SuiteHooks, SuiteSites
      <4>6. CalledContext' = Context'
        BY <4>5 DEF CalledContext
      <4>7. QED
        BY <1>2, <2>2, <4>4, <4>6
    <3>8. QED
      BY <2>3, <3>5, <3>6, <3>7 DEF CallHere
  <2>4. CASE calls' = calls /\ at' = "run"
    <3>1. ASSUME NEW h \in SuiteHooks, SuiteHook(h) PROVE pc \notin AttemptSites
      BY <3>1 DEF SuiteHook, Running, SuiteHooks, AttemptSites
    <3>2. CASE pc \notin AttemptSites
      <4>1. \A d \in calls' : d.context = SuiteContext
        BY <1>1, <2>4, <3>2 DEF Queue
      <4>2. QED
        BY <1>1, <1>2, <2>2, <2>4, <4>1 DEF Queue
    <3>3. CASE BeforeEach \/ AfterEach
      <4>1. pc' \in AttemptSites \ {"teardown", "free", "freed"}
        BY <3>3 DEF BeforeEach, AfterEach, AttemptSites
      <4>2. QED
        BY <1>1, <2>2, <2>4, <4>1 DEF Queue
    <3>4. CASE Body
      <4>1. pc' = "teardown" /\ token' = token + 1
        BY <2>4, <3>4 DEF Body, CancelTimeout, CallWithinBudget
      <4>2. \A c \in calls' : c.token < token'
        BY <1>1, <2>4, <4>1
      <4>3. pc \in AttemptSites
        BY <3>4 DEF Body, Running, AttemptSites
      <4>4. QED
        BY <1>1, <2>2, <2>4, <4>1, <4>2, <4>3 DEF Queue, AttemptSites
    <3>5. QED
      BY <1>5, <3>1, <3>2, <3>3, <3>4 DEF Calling
  <2>5. QED
    BY <1>5, <2>1, <2>3, <2>4, CallingHere
<1>6. CASE Meanwhile
  <2>1. /\ UNCHANGED <<pc, test, attempt, token>>
        /\ \A c \in calls' : \E d \in calls : c.token = d.token /\ c.context = d.context /\ c.method = d.method
        /\ \A c, d \in calls' : c.token = d.token => c = d
    BY <1>1, <1>6, MeanwhileStill
  <2>2. Context' = Context
    BY <2>1 DEF Context
  <2>3. QED
    BY <1>1, <2>1, <2>2 DEF Queue
<1>7. QED
  BY <1>3, <1>4, <1>5, <1>6, Steps

\* The runner awaits a signal, a frame or a drawn frame only at the statements that do.
LEMMA AwaitsWhere ==
    ASSUME Places, Awaits
    PROVE  \/ at = "signal" /\ pc \in CallSites
           \/ at # "signal" /\ pc \in {"free", "freed", "finish", "capture"}
BY DEF Places, Awaits

LEMMA StepExpecting ==
    ASSUME Typed, Places, Protocol, Next
    PROVE  Expecting'
<1>1. Queue /\ Expecting /\ Budget /\ Idle
  BY DEF Protocol
<1>2. CASE UNCHANGED vars
  BY <1>1, <1>2 DEF vars, clock, user, place, Expecting, CalledContext, Context
<1>3. CASE Between
  BY <1>3, BetweenCalls DEF Expecting
<1>4. CASE Calling
  <2>1. ASSUME NEW c \in {SuiteContext, Context}, NEW m, CallHere(c, m) PROVE Expecting'
    <3> DEFINE n == NewCall(token', c, m)
    <3>1. calls' = calls \cup {n} /\ \A d \in calls : d.token < token'
      BY <2>1 DEF CallHere
    <3>2. n.token = token' /\ n.context = c /\ n.method = m
      BY DEF NewCall
    <3> HIDE DEF n
    <3>3. token' \in Nat /\ \A d \in calls : d.token \in Nat
      BY StepClock DEF Typed, Clock, Call
    <3>4. \A d \in calls' : d.token = token' => d = n
      BY <3>1, <3>3
    <3>5. ~reached' /\ ~completed' /\ c = CalledContext' /\ m = DoneMethod[pc']
      BY <2>1 DEF CallHere
    <3>6. QED
      BY <3>2, <3>4, <3>5 DEF Expecting
  <2>2. QED
    BY <1>1, <1>4, <2>1, CallingHere DEF Expecting
<1>5. CASE Meanwhile
  <2>1. /\ Awaits /\ UNCHANGED <<pc, test, attempt, token>>
        /\ \A c \in calls' : \E d \in calls : c.token = d.token /\ c.context = d.context /\ c.method = d.method
    BY <1>1, <1>5, MeanwhileStill
  <2>2. CalledContext' = CalledContext
    BY <2>1 DEF CalledContext, Context
  <2>3. CASE at = "signal"
    <3>1. at' = "signal" => UNCHANGED <<reached, completed>>
      BY <1>1, <1>5, <2>3, Wake
    <3>2. QED
      BY <1>1, <2>1, <2>2, <2>3, <3>1 DEF Expecting
  <2>4. CASE at # "signal"
    <3>1. at' # "signal"
      BY <1>5, <2>1, <2>4 DEF Meanwhile, Awaits, Frame, TimerFires, StartCall, RecordFailure, SkipTest,
                              ScriptError, Return, Complete, Emit
    <3>2. QED
      BY <3>1 DEF Expecting
  <2>5. QED
    BY <2>3, <2>4
<1>6. QED
  BY <1>2, <1>3, <1>4, <1>5, Steps

LEMMA StepBudget ==
    ASSUME Typed, Places, Protocol, Next
    PROVE  Budget'
<1>1. Queue /\ Expecting /\ Budget /\ Flags
  BY DEF Protocol, Typed
<1>2. CASE UNCHANGED vars
  BY <1>1, <1>2 DEF vars, clock, locals, Budget
<1>3. CASE Between
  <2>1. ASSUME NEW h \in SuiteHooks, SuiteHookDone(h)
        PROVE  pc' \notin {"before_each", "before_each_done", "body", "body_done", "after_each"}
    BY <2>1, Sites DEF SuiteHookDone, SuiteHooks
  <2>2. CASE LoadSuite \/ SuiteEnd \/ RunTest \/ AfterEachDone \/ Verdict \/ Capture \/ Cancel \/ Teardown
             \/ EndAttempt \/ Finish
    <3>1. pc' \notin {"before_each", "before_each_done", "body", "body_done", "after_each"}
      BY <2>2 DEF LoadSuite, SuiteEnd, RunTest, AfterEachDone, Verdict, Capture, Cancel, Teardown,
                  EndAttempt, Finish, Running
    <3>2. QED
      BY <3>1 DEF Budget
  <2>3. CASE StartAttempt
    BY <2>3 DEF StartAttempt, BeginTimeout, Budget
  <2>4. CASE BeforeEachDone
    BY <1>1, <2>4 DEF BeforeEachDone, Budget, Flags, clock
  <2>5. CASE BodyDone
    BY <1>1, <2>5 DEF BodyDone, Budget, Flags, clock
  <2>6. QED
    BY <1>3, <2>1, <2>2, <2>3, <2>4, <2>5 DEF Between, Budget
<1>4. CASE Calling
  <2>1. ASSUME NEW h \in SuiteHooks, SuiteHook(h)
        PROVE  pc' \notin {"before_each", "before_each_done", "body", "body_done", "after_each"}
    BY <2>1, Sites DEF SuiteHook, SuiteHooks, SuiteSites
  <2>2. CASE BeforeEach
    BY <1>1, <2>2 DEF BeforeEach, Running, Budget, clock, locals, CallWithinBudget
  <2>3. CASE Body
    BY <1>1, <2>3 DEF Body, Running, Budget
  <2>4. CASE AfterEach
    BY <2>4 DEF AfterEach, Budget
  <2>5. QED
    BY <1>4, <2>1, <2>2, <2>3, <2>4 DEF Calling, Budget
<1>5. CASE Meanwhile
  <2>1. Awaits /\ UNCHANGED <<pc, timedOut>>
    BY <1>1, <1>5, MeanwhileStill
  <2>2. pc \notin {"before_each", "body", "after_each"}
    BY <2>1, AwaitsWhere, Sites DEF SuiteSites
  <2>3. QED
    BY <1>1, <2>1, <2>2 DEF Budget
<1>6. QED
  BY <1>2, <1>3, <1>4, <1>5, Steps

LEMMA StepIdle ==
    ASSUME Typed, Places, Protocol, Next
    PROVE  Idle'
<1>1. /\ Queue /\ Expecting /\ Budget /\ Idle /\ Flags
      /\ token \in Nat /\ \A d \in calls : d.token \in 1..token
  BY DEF Protocol, Typed, Clock
<1> DEFINE Sites5 == {"before_each", "before_each_done", "body", "body_done", "after_each"}
<1>2. CASE UNCHANGED vars
  BY <1>1, <1>2 DEF vars, clock, user, Idle
<1>3. CASE Between
  <2>1. ASSUME NEW h \in SuiteHooks, SuiteHookDone(h)
        PROVE  pc' \notin Sites5
    BY <2>1, Sites DEF SuiteHookDone, SuiteHooks
  <2>2. CASE LoadSuite \/ SuiteEnd \/ RunTest \/ AfterEachDone \/ Verdict \/ Capture \/ Cancel \/ Teardown
             \/ EndAttempt \/ Finish
    <3>1. pc' \notin Sites5
      BY <2>2 DEF LoadSuite, SuiteEnd, RunTest, AfterEachDone, Verdict, Capture, Cancel, Teardown,
                  EndAttempt, Finish, Running
    <3>2. QED
      BY <3>1 DEF Idle
  <2>3. CASE StartAttempt
    <3>1. pc' \in Sites5 => token' = token + 1 /\ UNCHANGED calls
      BY <2>3 DEF StartAttempt, BeginTimeout
    <3>2. QED
      BY <1>1, <3>1 DEF Idle
  <2>4. CASE BeforeEachDone \/ BodyDone
    <3>1. /\ UNCHANGED <<token, reached, calls>> /\ at = "run"
          /\ pc \in {"before_each_done", "body_done"}
      BY <2>4 DEF BeforeEachDone, BodyDone, Running, clock
    <3>2. QED
      BY <1>1, <3>1 DEF Idle
  <2>5. QED
    BY <1>3, <2>1, <2>2, <2>3, <2>4 DEF Between, Idle
<1>4. CASE Calling
  <2>1. at' = "run" /\ pc' \in Sites5 => UNCHANGED <<token, reached, calls>> /\ at = "run" /\ pc = "before_each"
    <3>1. ASSUME NEW h \in SuiteHooks, SuiteHook(h) PROVE pc' \notin Sites5
      BY <3>1, Sites DEF SuiteHook, SuiteHooks, SuiteSites
    <3>2. CASE BeforeEach
      BY <3>2 DEF BeforeEach, Running, clock, CallWithinBudget
    <3>3. CASE Body
      BY <3>3 DEF Body, CallWithinBudget
    <3>4. CASE AfterEach
      BY <3>4 DEF AfterEach
    <3>5. QED
      BY <1>4, <3>1, <3>2, <3>3, <3>4 DEF Calling
  <2>2. QED
    BY <1>1, <2>1 DEF Idle
<1>5. CASE Meanwhile
  <2>1. Awaits /\ UNCHANGED <<pc, token>>
    BY <1>1, <1>5, MeanwhileStill
  <2>2. CASE at = "signal"
    <3>1. ASSUME at' = "run", ~reached' PROVE \A d \in calls' : d.token < token
      <4>1. PICK c \in calls : c.token = token /\ calls' = calls \ {c}
        BY <1>1, <1>5, <2>2, <3>1, Wake
      <4>2. \A d \in calls' : d.token # token
        BY <1>1, <4>1 DEF Queue
      <4>3. QED
        BY <1>1, <4>1, <4>2
    <3>2. QED
      BY <2>1, <3>1 DEF Idle
  <2>3. CASE at # "signal"
    <3>1. pc' \notin Sites5
      BY <2>1, <2>3, AwaitsWhere
    <3>2. QED
      BY <3>1 DEF Idle
  <2>4. QED
    BY <2>2, <2>3
<1>6. QED
  BY <1>2, <1>3, <1>4, <1>5, Steps

LEMMA StepOverrun ==
    ASSUME Typed, Places, Protocol, Next
    PROVE  Overrun'
<1>1. /\ Queue /\ Expecting /\ Budget /\ Idle /\ Overrun /\ Flags /\ Place /\ Place' /\ Queue'
      /\ token \in Nat /\ \A d \in calls : d.token \in 1..token
  BY StepPlace, StepQueue DEF Protocol, Typed, Clock
<1>2. Context # SuiteContext /\ (Context # SuiteContext)'
  <2>1. Place' => (Context # SuiteContext)'
    BY OwnInstance, Assumed DEF Place, Context, SuiteContext
  <2>2. QED
    BY <1>1, <2>1, OwnInstance
<1>3. ASSUME pc' \notin AttemptSites PROVE Overrun'
  BY <1>1, <1>2, <1>3 DEF Queue, Overrun
<1>4. ASSUME UNCHANGED <<test, attempt>>, calls' \subseteq calls, timedOut', Flags' PROVE Overrun'
  BY <1>4 DEF Overrun
<1>5. CASE UNCHANGED vars
  BY <1>1, <1>5 DEF vars, clock, user, place, locals, Overrun, Context
<1>6. CASE Between
  <2>1. calls' \subseteq calls /\ at = "run"
    BY <1>6, BetweenCalls
  <2>2. CASE RunTest \/ LoadSuite \/ SuiteEnd \/ Finish \/ EndAttempt \/ \E h \in SuiteHooks : SuiteHookDone(h)
    <3>1. pc' \notin AttemptSites
      BY <2>2, Sites DEF RunTest, LoadSuite, SuiteEnd, Finish, EndAttempt, SuiteHookDone, Running, AttemptSites,
                         SuiteHooks
    <3>2. QED
      BY <1>3, <3>1
  <2>3. CASE StartAttempt
    <3>1. pc \notin AttemptSites /\ UNCHANGED <<test, attempt>>
      BY <2>3 DEF StartAttempt, Running, AttemptSites, place
    <3>2. Context' = Context
      BY <3>1 DEF Context
    <3>3. QED
      BY <1>1, <1>2, <2>1, <3>1, <3>2 DEF Queue, Overrun
  <2>4. CASE BeforeEachDone \/ BodyDone \/ AfterEachDone
    <3>1. /\ timedOut' = (reached \/ timedOut) /\ UNCHANGED <<test, attempt>>
      BY <1>1, <2>4 DEF BeforeEachDone, BodyDone, AfterEachDone, Budget, Flags, Running, place
    <3>2. Context' = Context
      BY <3>1 DEF Context
    <3>3. QED
      BY <1>1, <2>1, <3>1, <3>2 DEF Overrun
  <2>5. CASE Verdict \/ Capture \/ Cancel \/ Teardown
    <3>1. UNCHANGED <<timedOut, test, attempt>> /\ pc \notin {"before_each_done", "body_done", "after_each_done"}
      BY <2>5 DEF Verdict, Capture, Cancel, Teardown, Running, locals, place
    <3>2. Context' = Context
      BY <3>1 DEF Context
    <3>3. QED
      BY <1>1, <2>1, <3>1, <3>2 DEF Overrun
  <2>6. QED
    BY <1>6, <2>2, <2>3, <2>4, <2>5 DEF Between
<1>7. CASE Calling
  <2>1. at = "run" /\ UNCHANGED <<test, attempt, timedOut>> /\ Context' = Context
    BY <1>1, <1>7, CallingHere DEF Context
  <2>2. pc \notin {"before_each_done", "body_done", "after_each_done"}
    <3>1. ASSUME NEW h \in SuiteHooks, SuiteHook(h) PROVE pc \in SuiteHooks
      BY <3>1 DEF SuiteHook, Running
    <3>2. QED
      BY <1>7, <3>1 DEF Calling, BeforeEach, Body, AfterEach, Running, SuiteHooks
  <2>3. \A c \in calls : c.context = Context => timedOut
    BY <1>1, <2>1, <2>2 DEF Overrun
  <2>4. CASE calls' = calls
    BY <2>1, <2>3, <2>4 DEF Overrun
  <2>5. ASSUME NEW c \in {SuiteContext, Context}, NEW m, CallHere(c, m) PROVE Overrun'
    <3> DEFINE n == NewCall(token', c, m)
    <3>1. calls' = calls \cup {n} /\ at' = "signal"
      BY <2>5 DEF CallHere
    <3>2. n.token = token'
      BY DEF NewCall
    <3> HIDE DEF n
    <3>3. QED
      BY <2>1, <2>3, <3>1, <3>2 DEF Overrun
  <2>6. QED
    BY <1>1, <1>7, <2>4, <2>5, CallingHere
<1>8. CASE Meanwhile
  <2>1. /\ Awaits /\ UNCHANGED <<pc, test, attempt, token, timedOut>>
        /\ \A c \in calls' : \E d \in calls : c.token = d.token /\ c.context = d.context /\ c.method = d.method
    BY <1>1, <1>8, MeanwhileStill
  <2>2. Context' = Context /\ at # "run"
    BY <2>1 DEF Context, Awaits
  <2>3. CASE at = "signal"
    <3>1. CASE at' = "signal"
      BY <1>1, <2>1, <2>2, <2>3, <3>1 DEF Overrun
    <3>2. CASE at' = "run" /\ reached'
      <4>1. ASSUME NEW c \in calls', c.context = Context, ~timedOut
            PROVE  pc \in {"before_each_done", "body_done", "after_each_done"}
        <5>1. PICK d \in calls : c.token = d.token /\ d.context = Context
          BY <2>1, <4>1
        <5>2. d.token = token
          BY <1>1, <2>2, <4>1, <5>1 DEF Overrun
        <5>3. CalledContext = Context /\ pc \in CallSites
          BY <1>1, <2>3, <5>1, <5>2 DEF Expecting, Places
        <5>4. QED
          BY <1>2, <5>3, Sites DEF CalledContext
      <4>2. QED
        BY <2>1, <2>2, <3>2, <4>1 DEF Overrun
    <3>3. CASE at' = "run" /\ ~reached'
      <4>1. PICK c \in calls : c.token = token /\ calls' = calls \ {c}
        BY <1>1, <1>8, <2>3, <3>3, Wake
      <4>2. \A d \in calls' : d \in calls /\ d.token # token
        BY <1>1, <4>1 DEF Queue
      <4>3. QED
        BY <1>1, <2>1, <2>2, <4>2 DEF Overrun
    <3>4. QED
      BY <1>1, <1>8, <2>3, <3>1, <3>2, <3>3, Wake
  <2>4. CASE at # "signal"
    BY <1>1, <2>1, <2>2, <2>4 DEF Overrun
  <2>5. QED
    BY <2>3, <2>4
<1>9. QED
  BY <1>5, <1>6, <1>7, <1>8, Steps

\* A process starts with no call made, and every step keeps the protocol.
LEMMA StepProtocol ==
    ASSUME Typed, Places, Protocol, Next
    PROVE  Protocol'
BY StepQueue, StepExpecting, StepBudget, StepIdle, StepOverrun DEF Protocol

LEMMA InitProtocol == Init => Protocol
BY DEF Init, Protocol, Queue, Expecting, Budget, Idle, Overrun

LEMMA StepOwnWakeup ==
    ASSUME Typed, Places, Protocol, OwnWakeup, Next
    PROVE  OwnWakeup'
<1>1. Queue /\ Expecting
  BY DEF Protocol
<1>2. CallSites = SuiteSites \cup {"before_each_done", "body_done", "after_each_done"}
  BY Sites
<1>3. CASE UNCHANGED vars
  BY <1>3 DEF vars, clock, place, OwnWakeup, CalledContext, Context
<1>4. CASE Between
  <2>1. ASSUME NEW h \in SuiteHooks, SuiteHookDone(h) PROVE pc' \notin CallSites
    BY <1>2, <2>1, Sites DEF SuiteHookDone, SuiteHooks, SuiteSites
  <2>2. CASE LoadSuite \/ SuiteEnd \/ StartAttempt \/ BeforeEachDone \/ BodyDone \/ AfterEachDone \/ Verdict
             \/ Capture \/ Cancel \/ Teardown \/ EndAttempt \/ Finish \/ RunTest
    <3>1. pc' \notin CallSites
      BY <1>2, <2>2 DEF LoadSuite, SuiteEnd, RunTest, StartAttempt, BeforeEachDone, BodyDone, AfterEachDone,
                        Verdict, Capture, Cancel, Teardown, EndAttempt, Finish, SuiteSites, Running
    <3>2. QED
      BY <3>1 DEF OwnWakeup
  <2>3. QED
    BY <1>4, <2>1, <2>2 DEF Between, OwnWakeup
<1>5. CASE Calling
  <2>1. ASSUME NEW h \in SuiteHooks, SuiteHook(h) PROVE at' = "signal" \/ pc' \notin CallSites
    BY <1>2, <2>1, Sites DEF SuiteHook, CallWithOwnBudget, SuiteHooks, SuiteSites
  <2>2. CASE BeforeEach \/ Body \/ AfterEach
    <3>1. at' = "signal" \/ pc' \notin CallSites
      BY <1>2, <2>2 DEF BeforeEach, Body, AfterEach, CallWithOwnBudget, CallWithinBudget, SuiteSites
    <3>2. QED
      BY <3>1 DEF OwnWakeup
  <2>3. QED
    BY <1>5, <2>1, <2>2 DEF Calling, OwnWakeup
<1>6. CASE Meanwhile
  <2>1. Awaits /\ UNCHANGED <<pc, test, attempt, token>>
    BY <1>1, <1>6, MeanwhileStill
  <2>2. CalledContext' = CalledContext
    BY <2>1 DEF CalledContext, Context
  <2>3. CASE at = "signal"
    <3>1. at' = "run" =>
            \/ reached' /\ woke' = [Nobody EXCEPT !.token = token]
            \/ ~reached' /\ woke' = Woken(token, CalledContext, DoneMethod[pc])
      BY <1>1, <1>6, <2>3, Wake
    <3>2. QED
      BY <2>1, <2>2, <3>1 DEF OwnWakeup, Woken
  <2>4. CASE at # "signal"
    <3>1. pc \notin CallSites
      BY <1>2, <2>1, <2>4, AwaitsWhere DEF SuiteSites
    <3>2. QED
      BY <2>1, <3>1 DEF OwnWakeup
  <2>5. QED
    BY <2>3, <2>4
<1>7. QED
  BY <1>3, <1>4, <1>5, <1>6, Steps

\* The step that NoLateStart speaks of.
LateStart(c) ==
    /\ c.context # SuiteContext /\ ~c.started
    /\ [c EXCEPT !.started = TRUE] \in calls'

LEMMA StepNoLateStart ==
    ASSUME Typed, Places, Protocol, Next, NEW c \in calls, LateStart(c)
    PROVE  at = "signal" /\ pc \in CallSites /\ DoneMethod[pc] = c.method /\ c.context = Context
<1> DEFINE s(d) == [d EXCEPT !.started = TRUE]
<1>1. Queue /\ Expecting /\ Budget /\ Idle /\ calls \subseteq Call
  BY DEF Protocol, Typed, Clock
<1>2. \A d \in calls : s(d).token = d.token /\ s(d).started = TRUE
  BY <1>1 DEF Call
<1>3. s(c) \in calls' /\ s(c) # c /\ s(c) \notin calls
  BY <1>1, <1>2 DEF LateStart, Queue
<1> HIDE DEF s
<1>4. c.context = Context /\ pc \in AttemptSites
  BY <1>1 DEF LateStart, Queue
<1>5. ~(calls' \subseteq calls)
  BY <1>3
<1>6. CASE UNCHANGED vars
  BY <1>5, <1>6 DEF vars, user
<1>7. CASE Between
  BY <1>5, <1>7, BetweenCalls
<1>8. CASE Calling
  <2>1. ASSUME NEW d, NEW m, CallHere(d, m) PROVE FALSE
    <3>1. calls' = calls \cup {NewCall(token', d, m)} /\ NewCall(token', d, m).started = FALSE
      BY <2>1 DEF CallHere, NewCall
    <3>2. QED
      BY <1>2, <1>3, <3>1
  <2>2. QED
    BY <1>1, <1>5, <1>8, <2>1, CallingHere
<1>9. CASE Meanwhile
  <2>1. PICK d \in calls : StartCall(d)
    <3>1. CASE Frame \/ \E k \in timers : TimerFires(k)
      BY <1>5, <3>1 DEF Frame, TimerFires, user
    <3>2. ASSUME NEW d \in calls, RecordFailure(d) \/ SkipTest(d) \/ ScriptError(d) \/ Return(d) PROVE FALSE
      BY <1>5, <3>2 DEF RecordFailure, SkipTest, ScriptError, Return
    <3>3. QED
      BY <1>9, <3>1, <3>2 DEF Meanwhile
  <2>2. at \in {"signal", "frame"} /\ d.token = token /\ s(c) = s(d)
    BY <1>3, <2>1 DEF StartCall, s
  <2>3. c = d /\ c.token = token
    BY <1>1, <1>2, <2>2 DEF Queue
  <2>4. CASE at = "signal"
    BY <1>1, <1>4, <2>3, <2>4 DEF Expecting, Places
  <2>5. CASE at = "frame"
    <3>1. pc \in {"free", "freed"}
      BY <1>4, <2>5 DEF Places, AttemptSites
    <3>2. c.token < token /\ token \in Nat
      BY <1>1, <1>4, <3>1 DEF Queue, Typed, Clock
    <3>3. QED
      BY <2>3, <3>2
  <2>6. QED
    BY <2>2, <2>4, <2>5
<1>10. QED
  BY <1>6, <1>7, <1>8, <1>9, Steps

-----------------------------------------------------------------------------
(* What is recorded as passed has run. *)

\* A body that was not timed out has left its evidence, its end or the trap's.
Evidence == Context \in finished \/ hits # {}
BodyHeard ==
    /\ pc = "body_done" => trap
    /\ pc = "body_done" /\ at = "run" /\ ~reached => Evidence
    /\ pc \in {"after_each", "after_each_done", "verdict"} /\ ~timedOut => Evidence

\* The verdict of an attempt, from which no call of its instance can take it back.
Closing == {"capture", "cancel", "teardown", "free", "freed"}
Judged ==
    pc \in Closing =>
        /\ status # "none"
        /\ status = "passed" => Context \in finished \ failures /\ \A c \in calls : c.context # Context

\* The results so far, and that a run that is still "passed" has only good ones.
Ahead == \A t \in 1..Tests : t >= test => result[t] = "none"
GoodSoFar == runStatus = "passed" => \A t \in 1..Tests : t < test => result[t] \in {"passed", "skipped"}
AllDone == pc \in Ending => test = Tests + 1 \/ runStatus # "passed"
Recorded == PassedMeansBodyRan /\ Ahead /\ GoodSoFar /\ AllDone /\ PassedRunIsClean

\* Only what happens meanwhile touches the evidence, and only failures of live instances appear.
LEMMA RunnerKeeps ==
    ASSUME Between \/ Calling
    PROVE  /\ finished' = finished /\ failures' = failures /\ engineError' = engineError
           /\ UNCHANGED hits \/ pc \in {"body", "freed"}
<1>1. ASSUME NEW h \in SuiteHooks, SuiteHook(h) \/ SuiteHookDone(h)
      PROVE  finished' = finished /\ failures' = failures /\ engineError' = engineError /\ UNCHANGED hits
  BY <1>1 DEF SuiteHook, SuiteHookDone, Untouched, Resumed
<1>2. CASE LoadSuite \/ SuiteEnd \/ RunTest \/ StartAttempt \/ BeforeEachDone \/ BodyDone \/ AfterEachDone
           \/ Verdict \/ Capture \/ Cancel \/ Teardown \/ Finish \/ BeforeEach \/ AfterEach
  BY <1>2 DEF LoadSuite, SuiteEnd, RunTest, StartAttempt, BeforeEachDone, BodyDone, AfterEachDone, Verdict,
              Capture, Cancel, Teardown, Finish, BeforeEach, AfterEach, Untouched, Resumed
<1>3. CASE Body \/ EndAttempt
  BY <1>3 DEF Body, EndAttempt, Running
<1>4. QED
  BY <1>1, <1>2, <1>3 DEF Between, Calling

LEMMA MeanwhileGrows ==
    ASSUME Typed, Queue, Meanwhile
    PROVE  /\ finished \subseteq finished' /\ hits \subseteq hits' /\ failures \subseteq failures'
           /\ \A x \in failures' \ failures : \E c \in calls : c.context = x
BY DEF Meanwhile, Frame, TimerFires, StartCall, RecordFailure, SkipTest, ScriptError, Return, user

LEMMA StepBodyHeard ==
    ASSUME Typed, Places, Protocol, BodyHeard, Next
    PROVE  BodyHeard'
<1>1. Queue /\ Expecting /\ Budget /\ Flags /\ Context # SuiteContext
  BY OwnInstance DEF Protocol, Typed
<1>2. CASE UNCHANGED vars
  BY <1>2 DEF vars, clock, user, place, locals, BodyHeard, Evidence, Context
<1> DEFINE Heeding == {"body_done", "after_each", "after_each_done", "verdict"}
<1>3. CASE Between
  <2>1. ASSUME NEW h \in SuiteHooks, SuiteHookDone(h) PROVE pc' \notin Heeding
    BY <2>1, Sites DEF SuiteHookDone, SuiteHooks
  <2>2. CASE LoadSuite \/ SuiteEnd \/ RunTest \/ StartAttempt \/ Verdict \/ Capture \/ Cancel \/ Teardown
             \/ EndAttempt \/ Finish
    <3>1. pc' \notin Heeding
      BY <2>2 DEF LoadSuite, SuiteEnd, RunTest, StartAttempt, Verdict, Capture, Cancel, Teardown, EndAttempt,
                  Finish, Running
    <3>2. QED
      BY <3>1 DEF BodyHeard
  <2>3. CASE BeforeEachDone
    BY <1>1, <2>3 DEF BeforeEachDone, BodyHeard, Flags
  <2>4. CASE BodyDone
    <3>1. /\ pc = "body_done" /\ at = "run" /\ pc' = "after_each" /\ timedOut' = reached
          /\ UNCHANGED <<test, attempt, finished, hits>>
      BY <2>4 DEF BodyDone, Running, Resumed, place
    <3>2. Evidence' = Evidence
      BY <3>1 DEF Evidence, Context
    <3>3. QED
      BY <1>1, <3>1, <3>2 DEF BodyHeard, Flags
  <2>5. CASE AfterEachDone
    <3>1. /\ pc = "after_each_done" /\ pc' = "verdict" /\ timedOut' = (timedOut \/ reached)
          /\ UNCHANGED <<test, attempt, finished, hits>>
      BY <2>5 DEF AfterEachDone, Running, Resumed, place
    <3>2. Evidence' = Evidence
      BY <3>1 DEF Evidence, Context
    <3>3. QED
      BY <1>1, <3>1, <3>2 DEF BodyHeard, Flags
  <2>6. QED
    BY <1>3, <2>1, <2>2, <2>3, <2>4, <2>5 DEF Between, BodyHeard
<1>4. CASE Calling
  <2>1. ASSUME NEW h \in SuiteHooks, SuiteHook(h) PROVE pc' \notin Heeding
    BY <2>1, Sites DEF SuiteHook, SuiteHooks, SuiteSites
  <2>2. CASE BeforeEach
    BY <2>2 DEF BeforeEach, BodyHeard
  <2>3. CASE Body
    <3>1. pc' \in {"teardown"} \/ (pc' = "body_done" /\ trap' /\ at' = "signal")
      BY <2>3 DEF Body, CallWithinBudget
    <3>2. QED
      BY <3>1 DEF BodyHeard
  <2>4. CASE AfterEach
    <3>1. pc = "after_each" /\ pc' \in {"after_each_done", "verdict"} /\ UNCHANGED <<timedOut, test, attempt, finished, hits>>
      BY <2>4 DEF AfterEach, Running, locals, place, Untouched, Resumed
    <3>2. Evidence' = Evidence
      BY <3>1 DEF Evidence, Context
    <3>3. QED
      BY <3>1, <3>2 DEF BodyHeard
  <2>5. QED
    BY <1>4, <2>1, <2>2, <2>3, <2>4 DEF Calling, BodyHeard
<1>5. CASE Meanwhile
  <2>1. Awaits /\ UNCHANGED <<pc, test, attempt, token, timedOut, trap>>
    BY <1>1, <1>5, MeanwhileStill
  <2>2. Evidence => Evidence'
    <3>1. finished \subseteq finished' /\ hits \subseteq hits'
      BY <1>1, <1>5, MeanwhileGrows
    <3>2. QED
      BY <2>1, <3>1 DEF Evidence, Context
  <2>3. ASSUME pc = "body_done", at' = "run", ~reached' PROVE Evidence'
    <3>1. at = "signal"
      BY <2>1, <2>3, AwaitsWhere
    <3>2. PICK c \in calls : c.token = token /\ (Return(c) \/ ScriptError(c))
      BY <1>1, <1>5, <2>3, <3>1, Wake
    <3>3. c.context = Context /\ c.method = "body"
      BY <1>1, <2>3, <3>1, <3>2, Sites DEF Expecting, CalledContext, SuiteHooks
    <3>4. CASE Return(c)
      BY <2>1, <3>3, <3>4 DEF Return, Evidence, Context
    <3>5. CASE ScriptError(c)
      BY <2>1, <2>3, <3>3, <3>5 DEF ScriptError, Evidence, BodyHeard
    <3>6. QED
      BY <3>2, <3>4, <3>5
  <2>4. QED
    BY <2>1, <2>2, <2>3 DEF BodyHeard
<1>6. QED
  BY <1>2, <1>3, <1>4, <1>5, Steps

LEMMA StepJudged ==
    ASSUME Typed, Places, Protocol, BodyHeard, Judged, Next
    PROVE  Judged'
<1>1. Queue /\ Overrun /\ Context # SuiteContext
  BY OwnInstance DEF Protocol, Typed
<1>2. CASE UNCHANGED vars
  BY <1>2 DEF vars, clock, user, place, locals, Judged, Context
<1>3. CASE Between
  <2>1. ASSUME NEW h \in SuiteHooks, SuiteHookDone(h) PROVE pc' \notin Closing
    BY <2>1, Sites DEF SuiteHookDone, SuiteHooks, Closing
  <2>2. CASE LoadSuite \/ SuiteEnd \/ RunTest \/ BeforeEachDone \/ BodyDone \/ AfterEachDone \/ EndAttempt \/ Finish
    <3>1. pc' \notin Closing
      BY <2>2 DEF LoadSuite, SuiteEnd, RunTest, BeforeEachDone, BodyDone, AfterEachDone, EndAttempt,
                  Finish, Running, Closing
    <3>2. QED
      BY <3>1 DEF Judged
  <2>3. CASE StartAttempt
    BY <2>3 DEF StartAttempt, Judged, Closing
  <2>4. CASE Verdict
    <3>1. /\ pc = "verdict" /\ at = "run" /\ status' = AttemptStatus
          /\ UNCHANGED <<test, attempt, finished, failures, calls>>
      BY <2>4 DEF Verdict, Running, Untouched, Resumed, place
    <3>2. AttemptStatus # "none" /\ (AttemptStatus = "passed" => ~timedOut /\ hits = {} /\ Context \notin failures)
      BY DEF AttemptStatus
    <3>3. ~timedOut => Evidence /\ \A c \in calls : c.context # Context
      BY <1>1, <3>1 DEF BodyHeard, Overrun
    <3>4. Context' = Context
      BY <3>1 DEF Context
    <3>5. QED
      BY <3>1, <3>2, <3>3, <3>4 DEF Judged, Evidence
  <2>5. CASE Capture \/ Cancel \/ Teardown
    <3>1. /\ pc \in Closing /\ status' \in {status, "error"}
          /\ UNCHANGED <<test, attempt, finished, failures, calls>>
      BY <2>5 DEF Capture, Cancel, Teardown, Running, Untouched, Resumed, place, locals, Closing
    <3>2. Context' = Context
      BY <3>1 DEF Context
    <3>3. QED
      BY <3>1, <3>2 DEF Judged
  <2>6. QED
    BY <1>3, <2>1, <2>2, <2>3, <2>4, <2>5 DEF Between, Judged
<1>4. CASE Calling
  <2>1. ASSUME NEW h \in SuiteHooks, SuiteHook(h) PROVE pc' \notin Closing
    BY <2>1, Sites DEF SuiteHook, SuiteHooks, SuiteSites, Closing
  <2>2. CASE BeforeEach \/ AfterEach
    BY <2>2 DEF BeforeEach, AfterEach, Judged, Closing
  <2>3. CASE Body
    BY <2>3 DEF Body, Judged, Closing
  <2>4. QED
    BY <1>4, <2>1, <2>2, <2>3 DEF Calling, Judged
<1>5. CASE Meanwhile
  <2>1. /\ UNCHANGED <<pc, test, attempt, status>>
        /\ \A c \in calls' : \E d \in calls : c.token = d.token /\ c.context = d.context /\ c.method = d.method
    BY <1>1, <1>5, MeanwhileStill
  <2>2. /\ finished \subseteq finished'
        /\ \A x \in failures' \ failures : \E c \in calls : c.context = x
    BY <1>1, <1>5, MeanwhileGrows
  <2>3. Context' = Context
    BY <2>1 DEF Context
  <2>4. QED
    BY <2>1, <2>2, <2>3 DEF Judged
<1>6. QED
  BY <1>2, <1>3, <1>4, <1>5, Steps

\* Any step but the end of an attempt and a skip leaves the results and the current test alone.
LEMMA ResultsStand ==
    ASSUME Typed, Queue, Next
    PROVE  EndAttempt \/ RunTest \/ UNCHANGED <<test, attempt, result>>
<1>1. ASSUME NEW h \in SuiteHooks, SuiteHook(h) \/ SuiteHookDone(h) PROVE UNCHANGED <<test, attempt, result>>
  BY <1>1 DEF SuiteHook, SuiteHookDone, book
<1>2. CASE LoadSuite \/ SuiteEnd \/ StartAttempt \/ BeforeEachDone \/ BodyDone \/ AfterEachDone
           \/ Verdict \/ Capture \/ Cancel \/ Teardown \/ Finish \/ BeforeEach \/ Body \/ AfterEach
  BY <1>2 DEF LoadSuite, SuiteEnd, StartAttempt, BeforeEachDone, BodyDone, AfterEachDone, Verdict,
              Capture, Cancel, Teardown, Finish, BeforeEach, Body, AfterEach, place, book
<1>3. CASE Meanwhile \/ UNCHANGED vars
  BY <1>3, MeanwhileStill DEF vars, place, book
<1>4. QED
  BY <1>1, <1>2, <1>3, Steps DEF Between, Calling

\* Recording keeps a run that is not "passed" from becoming so, and a passed one only for a good result.
LEMMA Recording ==
    ASSUME NEW s, Record(s), runStatus' = "passed"
    PROVE  runStatus = "passed" /\ s \notin {"failed", "timeout", "error"}
BY DEF Record

LEMMA StepPassedMeansBodyRan ==
    ASSUME Typed, Places, Protocol, Judged, PassedMeansBodyRan, Ahead, Next
    PROVE  PassedMeansBodyRan'
<1>1. /\ Queue /\ result \in [1..Tests -> Statuses \cup {"none"}] /\ test \in 1..(Tests + 1)
      /\ attempt \in 1..(Retries + 1) /\ Tests \in Nat
  BY Assumed DEF Protocol, Typed, Book, Place
<1>2. \A t \in 1..Tests : result[t] = "passed" => t < test
  BY <1>1 DEF Ahead
\* What a finished test rests on stays: its instances are gone.
<1>3. ASSUME NEW t \in 1..Tests, result[t] = "passed"
      PROVE  \E a \in 1..(Retries + 1) : <<t, a>> \in finished' \ failures'
  <2>1. PICK a \in 1..(Retries + 1) : <<t, a>> \in finished \ failures
    BY <1>3 DEF PassedMeansBodyRan
  <2>2. CASE Meanwhile
    <3>1. finished \subseteq finished' /\ \A x \in failures' \ failures : \E c \in calls : c.context = x
      BY <1>1, <2>2, MeanwhileGrows
    <3>2. <<t, a>> # Context /\ <<t, a>> # SuiteContext
      BY <1>1, <1>2, <1>3 DEF Context, SuiteContext
    <3>3. QED
      BY <1>1, <2>1, <3>1, <3>2 DEF Queue
  <2>3. CASE Between \/ Calling
    BY <2>1, <2>3, RunnerKeeps
  <2>4. CASE UNCHANGED vars
    BY <2>1, <2>4 DEF vars, user
  <2>5. QED
    BY <2>2, <2>3, <2>4, Steps
<1>4. ASSUME NEW t \in 1..Tests, result'[t] = "passed", result'[t] # result[t]
      PROVE  \E a \in 1..(Retries + 1) : <<t, a>> \in finished' \ failures'
  <2>1. CASE EndAttempt
    <3>1. result' = [result EXCEPT ![test] = status] /\ pc = "freed" /\ UNCHANGED <<finished, failures>>
      BY <1>4, <2>1 DEF EndAttempt, Running, book
    <3>2. t = test /\ status = "passed"
      BY <1>1, <1>4, <3>1
    <3>3. Context \in finished \ failures
      BY <3>1, <3>2 DEF Judged, Closing
    <3>4. QED
      BY <1>1, <3>1, <3>2, <3>3 DEF Context
  <2>2. CASE RunTest
    <3>1. result' = result \/ result' = [result EXCEPT ![test] = "skipped"]
      BY <2>2 DEF RunTest
    <3>2. QED
      BY <1>1, <1>4, <3>1
  <2>3. CASE UNCHANGED result
    BY <1>4, <2>3
  <2>4. QED
    BY <1>1, <2>1, <2>2, <2>3, ResultsStand
<1>5. QED
  BY <1>3, <1>4 DEF PassedMeansBodyRan

LEMMA StepAhead ==
    ASSUME Typed, Places, Protocol, Ahead, Next
    PROVE  Ahead'
<1>1. /\ Queue /\ result \in [1..Tests -> Statuses \cup {"none"}] /\ test \in 1..(Tests + 1) /\ Tests \in Nat
  BY Assumed DEF Protocol, Typed, Book, Place
<1>2. CASE EndAttempt
  <2>1. \/ UNCHANGED <<test, result>>
        \/ test' = test + 1 /\ result' = [result EXCEPT ![test] = status]
    BY <1>2 DEF EndAttempt, book
  <2>2. QED
    BY <1>1, <2>1 DEF Ahead
<1>3. CASE RunTest
  <2>1. \/ UNCHANGED <<test, result>>
        \/ test' = test + 1 /\ result' = [result EXCEPT ![test] = "skipped"]
    BY <1>3 DEF RunTest
  <2>2. QED
    BY <1>1, <2>1 DEF Ahead
<1>4. CASE UNCHANGED <<test, attempt, result>>
  BY <1>4 DEF Ahead
<1>5. QED
  BY <1>1, <1>2, <1>3, <1>4, ResultsStand

LEMMA StepGoodSoFar ==
    ASSUME Typed, Places, Protocol, Judged, GoodSoFar, Next
    PROVE  GoodSoFar' /\ (runStatus' = "passed" => runStatus = "passed")
<1>1. /\ Queue /\ result \in [1..Tests -> Statuses \cup {"none"}] /\ test \in 1..(Tests + 1) /\ Tests \in Nat
      /\ status \in Statuses \cup {"none"}
  BY Assumed DEF Protocol, Typed, Book, Place
<1>2. runStatus' = "passed" => runStatus = "passed"
  <2>1. CASE EndAttempt
    BY <2>1, Recording DEF EndAttempt, book
  <2>2. ASSUME NEW h \in SuiteHooks, SuiteHookDone(h) PROVE runStatus' = "passed" => runStatus = "passed"
    BY <2>2, Recording DEF SuiteHookDone
  <2>3. CASE LoadSuite \/ Finish
    BY <2>3 DEF LoadSuite, Finish
  <2>4. CASE SuiteEnd \/ RunTest \/ StartAttempt \/ BeforeEachDone \/ BodyDone \/ AfterEachDone \/ Verdict
             \/ Capture \/ Cancel \/ Teardown
    BY <2>4 DEF SuiteEnd, RunTest, StartAttempt, BeforeEachDone, BodyDone, AfterEachDone, Verdict, Capture,
                Cancel, Teardown, book
  <2>5. CASE Calling
    BY <2>5 DEF Calling, BeforeEach, Body, AfterEach, SuiteHook, book
  <2>6. CASE Meanwhile \/ UNCHANGED vars
    BY <1>1, <2>6, MeanwhileStill DEF vars, book
  <2>7. QED
    BY <2>1, <2>2, <2>3, <2>4, <2>5, <2>6, Steps DEF Between
<1>3. CASE EndAttempt
  <2>1. CASE Retryable
    BY <1>2, <1>3, <2>1 DEF EndAttempt, book, GoodSoFar
  <2>2. CASE ~Retryable
    <3>1. /\ test' = test + 1 /\ result' = [result EXCEPT ![test] = status] /\ Record(status) /\ pc = "freed"
      BY <1>3, <2>2 DEF EndAttempt, Running
    <3>2. runStatus' = "passed" => status \in {"passed", "skipped"}
      BY <1>1, <3>1, Recording DEF Judged, Closing, Statuses
    <3>3. QED
      BY <1>1, <1>2, <3>1, <3>2 DEF GoodSoFar
  <2>3. QED
    BY <2>1, <2>2
<1>4. CASE RunTest
  <2>1. \/ UNCHANGED <<test, result>>
        \/ test' = test + 1 /\ result' = [result EXCEPT ![test] = "skipped"]
    BY <1>4 DEF RunTest
  <2>2. QED
    BY <1>1, <1>2, <2>1 DEF GoodSoFar
<1>5. CASE UNCHANGED <<test, attempt, result>>
  BY <1>2, <1>5 DEF GoodSoFar
<1>6. QED
  BY <1>1, <1>2, <1>3, <1>4, <1>5, ResultsStand

LEMMA StepAllDone ==
    ASSUME Typed, Places, Protocol, Judged, GoodSoFar, AllDone, Next
    PROVE  AllDone'
<1>1. /\ Queue /\ test \in 1..(Tests + 1) /\ Tests \in Nat /\ (runStatus' = "passed" => runStatus = "passed")
  BY Assumed, StepGoodSoFar DEF Protocol, Typed, Place
<1>2. ASSUME pc \in Ending, UNCHANGED test PROVE AllDone'
  BY <1>1, <1>2 DEF AllDone
<1>3. ASSUME NEW h \in SuiteHooks, SuiteHookDone(h) \/ SuiteHook(h) PROVE AllDone'
  <2>1. UNCHANGED test /\ pc' \in {HookDone[h], AfterHook(h)} /\ pc \in {h, HookDone[h]}
    BY <1>3 DEF SuiteHookDone, SuiteHook, Running
  <2>2. CASE h \in {"after_all", "postrun_teardown"}
    <3>1. pc \in Ending
      BY <2>1, <2>2, Sites DEF Ending
    <3>2. QED
      BY <1>2, <2>1, <3>1
  <2>3. CASE h \in {"prerun_setup", "before_all"}
    <3>1. pc' \notin Ending
      BY <2>1, <2>3, Sites DEF Ending
    <3>2. QED
      BY <3>1 DEF AllDone
  <2>4. QED
    BY <2>2, <2>3 DEF SuiteHooks
<1>4. CASE LoadSuite
  BY <1>4 DEF LoadSuite, AllDone, Ending
<1>5. CASE RunTest
  <2>1. pc' \in Ending => test' = test /\ test > Tests
    BY <1>5 DEF RunTest, Running, Ending
  <2>2. QED
    BY <1>1, <2>1 DEF AllDone
<1>6. CASE SuiteEnd \/ Finish
  <2>1. pc \in Ending /\ UNCHANGED test
    BY <1>6 DEF SuiteEnd, Finish, Running, place, Ending
  <2>2. QED
    BY <1>2, <2>1
<1>7. CASE StartAttempt \/ BeforeEachDone \/ BodyDone \/ AfterEachDone \/ Verdict \/ Capture \/ Cancel
           \/ Teardown \/ EndAttempt \/ BeforeEach \/ Body \/ AfterEach
  <2>1. pc' \notin Ending
    BY <1>7 DEF StartAttempt, BeforeEachDone, BodyDone, AfterEachDone, Verdict, Capture, Cancel, Teardown,
                EndAttempt, BeforeEach, Body, AfterEach, Ending
  <2>2. QED
    BY <2>1 DEF AllDone
<1>8. CASE Meanwhile
  <2>1. UNCHANGED <<pc, test>>
    BY <1>1, <1>8, MeanwhileStill
  <2>2. QED
    BY <1>1, <2>1 DEF AllDone
<1>9. CASE UNCHANGED vars
  BY <1>9 DEF vars, place, book, AllDone
<1>10. QED
  BY <1>3, <1>4, <1>5, <1>6, <1>7, <1>8, <1>9, Steps DEF Between, Calling

LEMMA StepPassedRunIsClean ==
    ASSUME Typed, Places, Protocol, GoodSoFar, AllDone, PassedRunIsClean, Next
    PROVE  PassedRunIsClean'
<1>1. Queue /\ Tests \in Nat /\ test \in 1..(Tests + 1)
  BY Assumed DEF Protocol, Typed, Place
<1>2. CASE Finish
  <2>1. /\ pc = "finish" /\ runStatus' \in IF engineError THEN {"error"} ELSE {runStatus, "error"}
        /\ UNCHANGED <<test, result, engineError>>
    BY <1>2 DEF Finish, Running, place, Untouched, Resumed
  <2>2. runStatus' = "passed" => ~engineError /\ runStatus = "passed"
    BY <2>1
  <2>3. runStatus' = "passed" => test = Tests + 1
    BY <2>1, <2>2 DEF AllDone, Ending
  <2>4. runStatus' = "passed" => \A t \in 1..Tests : result[t] \in {"passed", "skipped"}
    BY <1>1, <2>2, <2>3 DEF GoodSoFar
  <2>5. QED
    BY <2>1, <2>2, <2>4 DEF PassedRunIsClean
<1>3. CASE UNCHANGED vars
  BY <1>3 DEF vars, book, user, PassedRunIsClean
<1>4. CASE Meanwhile
  <2>1. Awaits /\ UNCHANGED pc
    BY <1>1, <1>4, MeanwhileStill
  <2>2. pc # "ended"
    BY <2>1 DEF Places, Awaits
  <2>3. QED
    BY <2>1, <2>2 DEF PassedRunIsClean
<1>5. CASE Calling \/ (Between /\ ~Finish)
  <2>1. ASSUME NEW h \in SuiteHooks, SuiteHook(h) \/ SuiteHookDone(h) PROVE pc' # "ended"
    BY <2>1, Sites DEF SuiteHook, SuiteHookDone, SuiteHooks, SuiteSites
  <2>2. CASE LoadSuite \/ SuiteEnd \/ RunTest \/ StartAttempt \/ BeforeEachDone \/ BodyDone \/ AfterEachDone
             \/ Verdict \/ Capture \/ Cancel \/ Teardown \/ EndAttempt \/ BeforeEach \/ Body \/ AfterEach
    <3>1. pc' # "ended"
      BY <2>2 DEF LoadSuite, SuiteEnd, RunTest, StartAttempt, BeforeEachDone, BodyDone, AfterEachDone, Verdict,
                  Capture, Cancel, Teardown, EndAttempt, BeforeEach, Body, AfterEach, Running
    <3>2. QED
      BY <3>1 DEF PassedRunIsClean
  <2>3. QED
    BY <1>5, <2>1, <2>2 DEF Between, Calling, PassedRunIsClean
<1>6. QED
  BY <1>2, <1>3, <1>4, <1>5, Steps

-----------------------------------------------------------------------------
(* The theorems. *)

IInv == Typed /\ Places /\ Protocol /\ OwnWakeup /\ BodyHeard /\ Judged /\ Recorded

LEMMA InitIInv == Init => IInv
<1> SUFFICES ASSUME Init PROVE IInv
  OBVIOUS
<1>1. Typed /\ Places /\ Protocol
  BY InitTyped, InitProtocol
<1>2. pc = "load" /\ at = "run" /\ test = 1 /\ result = [t \in 1..Tests |-> "none"]
  BY DEF Init
<1>3. OwnWakeup
  BY <1>2, Sites DEF OwnWakeup, SuiteSites
<1>4. BodyHeard /\ Judged
  BY <1>2 DEF BodyHeard, Judged, Closing
<1>5. PassedMeansBodyRan /\ Ahead /\ GoodSoFar
  BY <1>2, Assumed DEF PassedMeansBodyRan, Ahead, GoodSoFar
<1>6. AllDone /\ PassedRunIsClean
  BY <1>2 DEF AllDone, Ending, PassedRunIsClean
<1>7. QED
  BY <1>1, <1>3, <1>4, <1>5, <1>6 DEF IInv, Recorded

LEMMA NextIInv == IInv /\ [Next]_vars => IInv'
<1> SUFFICES ASSUME IInv, Next \/ UNCHANGED vars PROVE IInv'
  OBVIOUS
<1>1. CASE Next
  <2>1. Typed' /\ Places'
    BY <1>1, StepFlags, StepBook, StepHeard, StepClock, StepPlace DEF IInv, Typed
  <2>2. Protocol' /\ OwnWakeup' /\ BodyHeard' /\ Judged'
    BY <1>1, StepProtocol, StepOwnWakeup, StepBodyHeard, StepJudged DEF IInv
  <2>3. Recorded'
    BY <1>1, StepPassedMeansBodyRan, StepAhead, StepGoodSoFar, StepAllDone, StepPassedRunIsClean
       DEF IInv, Recorded
  <2>4. QED
    BY <2>1, <2>2, <2>3 DEF IInv
<1>2. CASE UNCHANGED vars
  <2>1. UNCHANGED <<hooks, pc, at, test, attempt, token, reached, completed, timers, calls, hits, failures, window,
                    skipped, engineError, finished, trap, timedOut, cleanupTimedOut, status, result, runStatus, woke>>
    BY <1>2 DEF vars, place, clock, user, locals, book
  <2>2. Context' = Context /\ CalledContext' = CalledContext
    BY <2>1 DEF Context, CalledContext
  <2>3. Typed' /\ Places'
    BY <2>1 DEF IInv, Typed, Flags, Clock, Heard, Book, Place, Places
  <2>4. Protocol' /\ OwnWakeup'
    BY <2>1, <2>2 DEF IInv, Protocol, Queue, Expecting, Budget, Idle, Overrun, OwnWakeup
  <2>5. BodyHeard' /\ Judged'
    BY <2>1, <2>2 DEF IInv, BodyHeard, Evidence, Judged
  <2>6. Recorded'
    BY <2>1 DEF IInv, Recorded, PassedMeansBodyRan, Ahead, GoodSoFar, AllDone, PassedRunIsClean
  <2>7. QED
    BY <2>3, <2>4, <2>5, <2>6 DEF IInv
<1>3. QED
  BY <1>1, <1>2

\* Every variable of gd_tools_test_runner.gd keeps the values the runner can give it, for any number
\* of tests and retries.
THEOREM Typing == Spec => []TypeOK
<1>1. IInv => TypeOK
  BY TypedIsTypeOK DEF IInv
<1>2. QED
  BY <1>1, InitIInv, NextIInv, PTL DEF Spec

\* A call is resumed by its own return or by the timer that bounds it, never by a timer or a coroutine
\* left over from an earlier hook or attempt (_await_test_call, _on_test_timeout, _invoke_test).
THEOREM OwnWakeups == Spec => []OwnWakeup
<1>1. IInv => OwnWakeup
  BY DEF IInv
<1>2. QED
  BY <1>1, InitIInv, NextIInv, PTL DEF Spec

\* _record_test_result is given "passed" only for a test whose body ran to its end on an instance
\* without failures, and none can be added to it afterwards.
THEOREM PassedRan == Spec => []PassedMeansBodyRan
<1>1. IInv => PassedMeansBodyRan
  BY DEF IInv, Recorded
<1>2. QED
  BY <1>1, InitIInv, NextIInv, PTL DEF Spec

\* A process that ends with status "passed" (_finish_with_status) has run every test to a pass or a
\* skip and logged no script error.
THEOREM PassedClean == Spec => []PassedRunIsClean
<1>1. IInv => PassedRunIsClean
  BY DEF IInv, Recorded
<1>2. QED
  BY <1>1, InitIInv, NextIInv, PTL DEF Spec

\* _invoke_test enters user code of an attempt only while the runner awaits that very call, however
\* long the call was queued.
THEOREM NeverLate == Spec => NoLateStart
<1>1. ASSUME IInv, [Next]_vars
      PROVE  [\A c \in calls : c.context # SuiteContext /\ ~c.started
                               /\ [c EXCEPT !.started = TRUE] \in calls' =>
                 at = "signal" /\ pc \in CallSites
                 /\ DoneMethod[pc] = c.method /\ c.context = Context]_vars
  BY <1>1, StepNoLateStart DEF IInv, LateStart
<1>2. QED
  BY <1>1, InitIInv, NextIInv, PTL DEF Spec, NoLateStart
=============================================================================
