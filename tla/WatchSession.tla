------------------------------ MODULE WatchSession ------------------------------
(***************************************************************************)
(* `gd-tools test --watch`: the user saving files, the watchdog thread     *)
(* that turns file system notifications into queued events, and the main   *)
(* thread: the watch loop with its debounce coalescer, which maps changed  *)
(* files to suites and runs them through the native test command.          *)
(*                                                                         *)
(* A notification stands for all the events of one save; the coalescer's   *)
(* clock is reduced to whether the debounce time has passed since the last *)
(* change the loop heard of.                                               *)
(***************************************************************************)
EXTENDS Integers, Sequences, SequencesExt

CONSTANTS
    Files,         \* the watched .gd files
    Suites,        \* those in the configured test directories
    Names,         \* [Files -> Seq(Suites)]: the suites a file maps to by name
    Filter,        \* the --suite option, or NoSuite
    NoSuite,
    MaxSaves,      \* changes the user makes (bound)
    MaxInterrupts  \* Ctrl+C (bound)

ASSUME WatchAssumption ==
    /\ Suites \subseteq Files /\ Names \in [Files -> Seq(Suites)]
    /\ NoSuite \notin Files /\ Filter \in Suites \cup {NoSuite}
    /\ MaxSaves \in Nat /\ MaxInterrupts \in Nat

VARIABLES
    content,     \* per file: "tests", "plain", "foreign" (tests, no known base), "absent"
    wire,        \* notifications the watchdog thread has not handled yet
    queue,       \* WatchdogEventSource._queue
    pending, running, dirty, dueNow, quiet,  \* RunCoalescer
    changed,     \* watch_loop's set of changed paths
    pc,          \* the main thread
    listing,     \* files listed by a discovery, about to be read
    seen,        \* the suites the session's discovery returned
    only,        \* suite filter of the run, or NoSuite
    executed,    \* suites the run executes
    saves,       \* changes made so far
    interrupts,
    owed,        \* history: in-place saves no run has started after
    heard,       \* history: events that called for a run since the last one began
    backlog      \* history: events queued when the last run ended

disk == <<content, wire, saves, owed>>
coalescer == <<pending, running, dirty, dueNow, quiet>>
run == <<listing, seen, only, executed>>
history == <<heard, backlog>>
vars == <<disk, queue, coalescer, changed, pc, run, interrupts, history>>

Kinds == {"tests", "plain", "foreign", "absent"}
Event == [file : Files, type : {"modified", "created", "deleted", "moved"}, id : 1..MaxSaves]
Ids(events) == {e.id : e \in ToSet(events)}

Over == pc \in {"ended", "crashed"}
InRun == pc \in {"discover", "read", "launch", "reread", "prepare", "execute", "report", "finish"}

\* The session starts with sound suites and the observer running, and goes
\* straight into its first run.
Init ==
    /\ content = [f \in Files |-> IF f \in Suites THEN "tests" ELSE "plain"]
    /\ wire = <<>> /\ queue = <<>>
    /\ pending = FALSE /\ running = FALSE /\ dirty = FALSE /\ dueNow = FALSE /\ quiet = FALSE
    /\ changed = {} /\ pc = "discover"
    /\ listing = {} /\ seen = {} /\ only = NoSuite /\ executed = {}
    /\ saves = 0 /\ interrupts = 0
    /\ owed = {} /\ heard = {} /\ backlog = {}

-----------------------------------------------------------------------------
(* The user, and the watchdog thread. *)

Notify(f, type) ==
    /\ saves < MaxSaves /\ saves' = saves + 1
    /\ wire' = Append(wire, [file |-> f, type |-> type, id |-> saves'])

DiskOnly == UNCHANGED <<queue, coalescer, changed, pc, run, interrupts, history>>

\* An editor writes the file in place.
Save(f, kind) ==
    /\ kind \in (IF f \in Suites THEN {"tests", "plain", "foreign"} ELSE {"plain"})
    /\ Notify(f, IF content[f] = "absent" THEN "created" ELSE "modified")
    /\ content' = [content EXCEPT ![f] = kind]
    /\ owed' = owed \cup {[file |-> f, id |-> saves']}
    /\ DiskOnly

\* An editor writes a temporary file and renames it over the old one.
Replace(f, kind) ==
    /\ kind \in (IF f \in Suites THEN {"tests", "plain", "foreign"} ELSE {"plain"})
    /\ content[f] # "absent"
    /\ Notify(f, "moved")
    /\ content' = [content EXCEPT ![f] = kind]
    /\ UNCHANGED owed /\ DiskOnly

Delete(f) ==
    /\ content[f] # "absent"
    /\ Notify(f, "deleted")
    /\ content' = [content EXCEPT ![f] = "absent"]
    /\ UNCHANGED owed /\ DiskOnly

\* WatchdogEventSource._enqueue
Enqueue ==
    /\ ~Over /\ wire # <<>>
    /\ wire' = Tail(wire)
    /\ queue' = IF Head(wire).type \in {"modified", "created", "deleted"}
                THEN Append(queue, Head(wire)) ELSE queue
    /\ UNCHANGED <<content, saves, owed, coalescer, changed, pc, run, interrupts, history>>

-----------------------------------------------------------------------------
(* RunCoalescer. *)

NotifyChange ==
    /\ quiet' = FALSE
    /\ IF running THEN dirty' = TRUE /\ UNCHANGED pending
                  ELSE pending' = TRUE /\ UNCHANGED dirty
    /\ UNCHANGED <<running, dueNow>>

\* Mutant: a run is due whenever the debounce time has passed.
ShouldRunUnprompted == ~running /\ (dueNow \/ quiet)

ShouldRun == ~running /\ pending /\ (dueNow \/ quiet)

\* Mutant: a run leaves the pending change pending.
StartRunStillPending == running' = TRUE /\ UNCHANGED <<pending, dirty, dueNow, quiet>>

StartRun ==
    /\ pending' = FALSE /\ dirty' = FALSE /\ dueNow' = FALSE /\ running' = TRUE
    /\ UNCHANGED quiet

FinishRun ==
    /\ running' = FALSE
    /\ IF dirty THEN dirty' = FALSE /\ pending' = TRUE /\ dueNow' = TRUE
                ELSE UNCHANGED <<pending, dirty, dueNow>>
    /\ UNCHANGED quiet

DebounceElapses ==
    /\ ~quiet /\ ~Over /\ quiet' = TRUE
    /\ UNCHANGED <<disk, queue, pending, running, dirty, dueNow, changed, pc, run, interrupts,
                   history>>

-----------------------------------------------------------------------------
(* The main thread: watch_loop, and the discover and runner of its session. *)

LoopOnly == UNCHANGED <<disk, queue, interrupts>>

\* Mutant: a tick is taken although an event waits.
QuietQueueEager == TRUE

\* The queue stayed empty for a poll interval.
QuietQueue == queue = <<>>

Tick ==
    /\ pc = "poll" /\ QuietQueue
    /\ pc' = "tick"
    /\ UNCHANGED <<coalescer, changed, run, history>> /\ LoopOnly

\* classify_event: the types that call for a run.
Triggers == {"modified", "created"}
Hear(e) == changed' = changed \cup {e.file} /\ heard' = heard \cup {e.id}

TakeEvent ==
    /\ pc = "poll" /\ queue # <<>>
    /\ queue' = Tail(queue)
    /\ IF Head(queue).type \in Triggers
       THEN NotifyChange /\ Hear(Head(queue)) ELSE UNCHANGED <<coalescer, changed, heard>>
    /\ UNCHANGED <<disk, pc, run, interrupts, backlog>>

\* After the sleep: a run, if one is due.
CheckDue ==
    /\ pc = "tick"
    /\ IF ShouldRun THEN StartRun /\ pc' = "discover" /\ heard' = {}
                    ELSE pc' = "poll" /\ UNCHANGED <<coalescer, heard>>
    /\ UNCHANGED <<changed, run, backlog>> /\ LoopOnly

\* discover_native_suites lists the test files, then reads each of them.
ListFiles ==
    /\ \/ pc = "discover" /\ pc' = "read"
       \/ pc = "launch" /\ pc' = "reread"
    /\ listing' = {f \in Suites : content[f] # "absent"}
    /\ UNCHANGED <<coalescer, changed, seen, only, executed, history>> /\ LoopOnly

\* A listed file that is gone when it is read raises OSError, which nothing
\* between here and the command line catches.
ListedFileGone ==
    /\ pc \in {"read", "reread"}
    /\ \E f \in listing : content[f] = "absent"
    /\ pc' = "crashed"
    /\ UNCHANGED <<coalescer, changed, run, history>> /\ LoopOnly

\* Files are read in order: a refused one may come before or after one that is gone.
Readable == \A f \in listing : content[f] # "absent"
Refused == \E f \in listing : content[f] = "foreign"
Discovered(filter) ==
    {f \in listing : content[f] = "tests" /\ filter \in {f, NoSuite}}

\* map_changed_file, over the suites the session discovered: the file itself, or
\* the suite that the first of its names that is one leads to.
Namesake(f, suites) ==
    {s \in suites : \E i \in DOMAIN Names[f] :
        s = Names[f][i] /\ \A j \in 1..(i - 1) : Names[f][j] \notin suites}

MapChangedFile(f, suites) ==
    IF f \in suites THEN f
    ELSE IF Namesake(f, suites) = {} THEN NoSuite ELSE CHOOSE s \in Namesake(f, suites) : TRUE

Selected(files, suites) == {MapChangedFile(f, suites) : f \in files} \ {NoSuite}
Unmapped(files, suites) == \E f \in files : MapChangedFile(f, suites) = NoSuite

\* Mutant: any non-empty selection is narrowed to one of its suites.
SuiteFilterOfFirst(suites) == IF suites = {} THEN NoSuite ELSE CHOOSE s \in suites : TRUE

\* The runner narrows the command only when exactly one suite is asked for.
SuiteFilter(suites) ==
    IF \E s \in suites : suites = {s} THEN CHOOSE s \in suites : TRUE ELSE NoSuite

\* discover, select_suites_for_changes and the call of the runner. Before the
\* first event (changed = {} and not running) everything discovered is run.
SelectSuites ==
    /\ pc = "read" /\ (Readable \/ Refused)
    /\ seen' = IF Refused THEN {} ELSE Discovered(Filter)
    /\ only' = SuiteFilter(IF ~running \/ Unmapped(changed, seen')
                           THEN seen' ELSE Selected(changed, seen'))
    /\ pc' = "launch"
    /\ UNCHANGED <<coalescer, changed, listing, executed, history>> /\ LoopOnly

\* The command discovers for itself; it errs on a refused file and on nothing
\* to run.
Launch ==
    /\ pc = "reread" /\ (Readable \/ Refused)
    /\ executed' = IF Refused THEN {} ELSE Discovered(only)
    /\ pc' = IF executed' = {} THEN "finish" ELSE "prepare"
    /\ owed' = IF only = NoSuite THEN {} ELSE {o \in owed : o.file \notin changed}
    /\ UNCHANGED <<content, wire, saves, queue, interrupts, coalescer, changed, listing, seen,
                   only, history>>

\* Import, preflight and coverage plan, then the suites, then the reports. Any
\* of them may fail with an error the runner turns into a result.
Proceed ==
    /\ \/ pc = "prepare" /\ pc' \in {"execute", "finish"}
       \/ pc = "execute" /\ pc' \in {"report", "finish"}
       \/ pc = "report" /\ pc' = "finish"
    /\ UNCHANGED <<coalescer, changed, run, history>> /\ LoopOnly

\* Mutant: changes that came in while the run was on are cleared with it.
EndRunDroppingQueue ==
    /\ pc = "finish"
    /\ IF running THEN changed' = {} /\ FinishRun ELSE UNCHANGED <<changed, coalescer>>
    /\ queue' = <<>> /\ backlog' = {}
    /\ pc' = "poll"
    /\ UNCHANGED <<disk, run, heard, interrupts>>

EndRun ==
    /\ pc = "finish"
    /\ IF running THEN changed' = {} /\ FinishRun ELSE UNCHANGED <<changed, coalescer>>
    /\ backlog' = Ids(queue)
    /\ pc' = "poll"
    /\ UNCHANGED <<run, heard>> /\ LoopOnly

\* Ctrl+C in the main thread. While suites execute, the orchestrator kills them
\* and raises NativeInterruptError, a GdToolsError, which the runner reports
\* as an errored run; anywhere else the loop's own handler ends the session.
Interrupt ==
    /\ ~Over /\ interrupts < MaxInterrupts
    /\ interrupts' = interrupts + 1
    /\ pc' = IF pc = "execute" THEN "finish" ELSE "ended"
    /\ UNCHANGED <<disk, queue, coalescer, changed, run, history>>

Loop ==
    \/ Tick \/ TakeEvent \/ CheckDue \/ ListFiles \/ ListedFileGone \/ SelectSuites
    \/ Launch \/ Proceed \/ EndRun

\* A session that is over has no observer left; saves no longer matter to it.
Stopped == Over /\ UNCHANGED vars

Next ==
    \/ ~Over /\ \E f \in Files : \/ Delete(f)
                                 \/ \E kind \in Kinds : Save(f, kind) \/ Replace(f, kind)
    \/ Enqueue \/ DebounceElapses \/ Loop \/ Interrupt \/ Stopped

\* Every process the command starts has a timeout, so a run ends; the watchdog
\* thread and the clock never stop.
Fairness == WF_vars(Loop) /\ WF_vars(Enqueue) /\ WF_vars(DebounceElapses)

Spec == Init /\ [][Next]_vars
FairSpec == Spec /\ Fairness

-----------------------------------------------------------------------------
(* Properties. *)

\* Every variable has the values the loop can give it, and the coalescer is
\* running exactly while a re-run is in progress.
TypeOK ==
    /\ content \in [Files -> Kinds]
    /\ wire \in Seq(Event) /\ queue \in Seq(Event)
    /\ {pending, running, dirty, dueNow, quiet} \subseteq BOOLEAN
    /\ changed \subseteq Files /\ listing \cup seen \cup executed \subseteq Suites
    /\ only \in Suites \cup {NoSuite}
    /\ (running => InRun \/ Over) /\ ~(running /\ pending)

\* Whatever a run was narrowed to, it covers the suite of every file that
\* changed: it is the suite of all of them, or no narrowing took place.
NothingNarrowedAway ==
    pc \in {"prepare", "execute", "report"} /\ running =>
        \A f \in changed :
            \/ only = NoSuite
            \/ MapChangedFile(f, seen) = only
            \/ MapChangedFile(f, seen) = NoSuite /\ seen = {only}

\* "A save during a running suite queues exactly one follow-up run": when a run
\* begins, no event that was queued at the end of the previous run is left for
\* yet another one.
OneFollowUp == pc = "discover" => backlog \cap Ids(queue) = {}

\* A file saved in place is run again: a run starts after the save, unless the
\* session is over first.
SavesAreRun ==
    \A f \in Files : (\E o \in owed : o.file = f) ~> (Over \/ \A o \in owed : o.file # f)

\* The session implements the promise of ReRuns: every re-run answers a save of
\* its own, and no save is answered twice.
Announced(events) == {e.id : e \in {x \in ToSet(events) : x.type \in Triggers}}
Promise == INSTANCE ReRuns WITH
    waiting <- heard \cup Announced(wire) \cup Announced(queue), busy <- InRun, over <- Over
PromiseKept == Promise!Spec

-----------------------------------------------------------------------------
(* Statements of the documentation that the code does not keep. *)

\* "Only Ctrl+C ends it", and Ctrl+C does end it, idle or in a run.
InterruptEndsSession == [][interrupts' # interrupts => Over']_vars
=============================================================================
