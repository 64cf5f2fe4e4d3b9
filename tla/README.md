# gd-tools: a TLA+ verification project

gd-tools is a command line tool for Godot projects: it discovers GDScript test
suites, runs each of them in a Godot process of its own, measures coverage,
caches what it can, watches files, lints, formats and migrates. This directory
holds TLA+ models of the parts of it in which several actors meet: threads and
processes, a user who edits, saves and interrupts, several commands on one
project. TLC checks them on small instances, and TLAPS proves every safety property TLC
checks there for every instance.

Paths below are relative to `src/gd_tools/` in the repository unless they start
with `docs/`, `README.md`, `spike/` or `tools/`.

| Module | Models | Checked by | Proved in |
| --- | --- | --- | --- |
| `NativeOrchestrator` | `native_test/orchestrator.py` | `MCNativeOrchestrator` | `NativeOrchestratorProofs` |
| `SuiteRunner` | `addons/gd-tools-test/gd_tools_test_runner.gd` | `MCSuiteRunner` | `SuiteRunnerProofs` |
| `WatchSession` | `watch/` | `MCWatchSession` | `WatchSessionProofs` |
| `ReRuns` | what a watch session promises (abstract) | as a property of `WatchSession` | `WatchSessionProofs` (the refinement) |
| `RunArtifacts` | `native_test/artifacts.py`, the phases of `command.py` | `MCRunArtifacts` | `RunArtifactsProofs` |
| `CoverageDirectory` | `coverage/plan_generator.py` (plan and cache), `playtest.py`, `coverage.gd`, the reports | `MCCoverageDirectory` | `CoverageDirectoryProofs` |
| `CoverageReports` | `coverage/reporter.py`, `diff_reporter.py`, `patch.py`, the commands over them | `MCCoverageReports` | `CoverageReportsProofs` |
| `ProjectSetup` | `init.py`, `migration/`, `config.py`, `addon_check.py`, `doctor.py` (addons) | `MCProjectSetup` | `ProjectSetupProofs` |
| `FreshnessCaches` | `import_cache.py`, `preflight_cache.py`, their use in `command.py` | `MCFreshnessCaches` | `FreshnessCachesProofs` |

To check: `tlc -config MCNativeOrchestrator.cfg MCNativeOrchestrator.tla`, and
likewise for the other configurations; `tlapm NativeOrchestratorProofs.tla`, and
likewise for the other modules of the last column.

## 1. Inventory

Each part with its state, its operations, what makes it hard, and what makes it
correct. `PROJECT.json` lists the same parts with their files, and the hazards
with the lines where they bite.

### The test command

`gd-tools test` (`commands/test.py`, `native_test/command.py`) is one process
that goes through phases: claim a run directory, discover suites, import the
project, preflight, order the suites, prepare coverage, run, publish the
artifact index, prune old runs, report. It keeps its state in local variables
and on disk, under `.gd-tools/`. A phase may raise, be interrupted (SIGINT, and
SIGTERM turned into the same exception) or be killed, and a second command may
be running on the same project.

* **Orchestrator** (`native_test/orchestrator.py`). State: the plan, a
  `ThreadPoolExecutor` or a plain loop, the registry of live processes, the
  abort event, the list of attempted suites, the outcomes, the fail-fast
  trigger. Operations: dispatch, spawn, register, await with a timeout, kill,
  collect, drain, abort, aggregate, publish. Hard: a worker is between taking a
  suite and registering its process when the main thread takes the snapshot of
  processes to kill; completions come in any order; result file, exit code and
  timeout may contradict each other; publishing fails half-way. Correct: an
  abort reaches every process, a verdict of "passed" is earned, the index on
  disk says what the exit code says, fail-fast reports as not run exactly what
  was not started, the run ends.
* **Run artifacts** (`native_test/artifacts.py`). State: the directories under
  the artifact root, each with a marker, an index and results. Operations: mark,
  publish, prune. Hard: interrupts land between any two steps and have handlers
  in two layers; two commands prune each other; directories that are not ours.
  Correct: an index that says passed belongs to a run that passed, evidence of
  the previous run goes only after a newer publication, a user's directory is
  never touched, one run at a time leaves exactly one run.
* **Import cache and preflight cache** (`native_test/import_cache.py`,
  `native_test/preflight.py`, `native_test/preflight_cache.py`). State: one
  freshness record, and one file per preflight key. Operations: compute a key,
  look up, run Godot, store. Hard: the project is edited between any two of
  these, and the edit undone, commands overlap, `clean --cache` runs, an import
  fails. Correct: no suite runs on an import, or on preflight metadata, of a content
  that was not there while its command ran.
* **Discovery, ordering, flaky detection** (`native_test/discovery.py`,
  `ordering.py`, `flaky.py`, `bridge_scan.py`). Pure functions of the source
  text, a seed and results. Correct: ordering is a permutation that keeps a
  suite's tests together and that the printed seed reproduces.
* **Protocol and reports** (`native_test/protocol.py`, `test_results.py`,
  `gh_annotations.py`). Data models and formatting.

### Inside Godot

* **Test runner** (`addons/gd-tools-test/gd_tools_test_runner.gd`). State: the
  current call's token, flags for timeout and completion, armed timers, live
  coroutines, the error trap, results, run status. Operations: hooks, tests with
  retries, timeouts, verdict, log scan. One thread, but every await lets timers
  and abandoned coroutines run. Hard: a timer or coroutine left over from one
  attempt meets the next; a signal emitted before it is awaited is lost; a
  script error ends a coroutine silently. Correct: only the awaited call or its
  own timer resumes the runner; a pass means the body ran to its end; the suite
  ends.
* **Test base class** (`gd_tools_test.gd`): failures, skip, per-attempt context;
  the assertions are data.
* **In-engine preflight, parameter naming** (`gd_tools_test_preflight.gd`,
  `gd_tools_parameter_naming.gd`): sequential validation; names of parameter
  cases must be unique.
* **Native coverage** (`gd_tools_native_coverage.gd`): instruments scripts and
  counts hits. **Mocks, snapshots, serializer, context**: sequential libraries
  used by tests.

### Watch mode

`watch/observer.py` (a watchdog thread that fills a queue), `watch/loop.py` and
`watch/coalescer.py` (debounce, one follow-up per burst), `watch/mapping.py` and
`watch/scope.py` (which suites a file concerns), `watch/session.py` (discovery,
narrowing, one test command per run). Hard: saves during a run, editors that
rename, files deleted while they are discovered, Ctrl+C in any layer. Correct:
a save is followed by a run that starts after it; a burst costs one more run;
narrowing never hides an affected suite.

### Coverage

A plan (`coverage/plan_generator.py`) numbers the scripts found and names the
points to measure in each; data (`coverage.json`) name a script by that number
only. Both live in one output directory, where test runs
(`native_test/command.py`, with `gd_tools_native_coverage.gd` in each suite's
process), playtests (`coverage/playtest.py`, with
`addons/gd-tools-coverage/coverage.gd` in the game) and the reading commands
(`coverage/orchestrator.py`, reporters, `diff_reporter.py`) use them. State: the
two files, the plan's cache (which is `plan.json` itself), the shards of a run, the
game's hits and its timer. Operations: compare hashes, generate, write,
instrument, record, merge, flush, reconcile, gate, report, save a baseline.
Hard: the two files are replaced at different times by different commands, and
any command may end between them; scripts that do not parse, have no points,
appear or vanish; the game is killed or crashes while it flushes. Correct: a
report is about its own session; a passed `--min` stands on every script; a hit
is never stale and a miss never pointless; what was played is reported.
Later commands read the two files: `merge` joins the data of shards, `report` and
`show` compare rates with thresholds, `save-baseline` keeps the pair, `diff`
compares it with the present pair, and `diff --patch` looks at the lines a branch
changed. Hard: data know scripts and points by number only, and the numbers move
whenever a script appears, vanishes or changes; scripts that no process could
instrument have no data; commands come in any order. Correct: merging the shards of
a run shows what the whole run would; a passed comparison means that no script that
stayed as it was is run through less; a passed patch gate means that the changed
lines were run through.

### The rest

* **Setup** (`init.py`, `addon_check.py`, `doctor.py`) and **migration from GUT**
  (`migration/`, `commands/migrate.py`). State: the deployed addon files with their
  backups and version stamps, `gd-tools.toml`, the user's suites. Operations: deploy
  (back up, overwrite, remove, stamp), create or update the settings, rewrite
  suites; the gate and doctor look at what is there. Hard: every write is in place,
  a signal or a failing write may come between any two, the user edits the same
  files between commands, versions go up and down. Correct: what the user made is
  kept, a half-done upgrade is noticed, running a command again finishes it.
* **Cleaning** (`clean.py`): removes whole directories under `.gd-tools/`.
* **Atomic writes** (`atomic_io.py`): temporary file and `os.replace`.
* **Lint, format, hooks**; **Godot lookup and configuration**; **CLI, output,
  errors, update check**; **editor dock**; a vendored experiment under
  `spike/` and repository scripts under `tools/`. Thin wrappers,
  parsing, formatting and user interface, or not part of the shipped program.

### How the parts interact

The watch session calls the test command as a function. The test command calls
discovery, the import cache, the preflight cache, ordering, the coverage plan
and the orchestrator, in that order. The orchestrator starts one Godot process
per suite; the process talks back through a result file and an exit code only.
Runs share the artifact root, the caches and the coverage output directory with
other commands; nothing is locked. The artifact index, the caches, plans and native
coverage are replaced atomically; snapshots of a game, the addons, suites and
`gd-tools.toml` are written in place. Ctrl+C is delivered to the main thread of the command, and is
handled by the innermost of the orchestrator, the command, the watch session's
loop and the CLI.

The models meet at these interfaces: `RunArtifacts` abstracts the suites of
`NativeOrchestrator` to one step that yields a status; `NativeOrchestrator`
abstracts a `SuiteRunner` process to how it ends (`Exits`); `WatchSession`
abstracts the whole test command to its discovery, its phases and the way it
ends; `FreshnessCaches` is the first part of the command, up to its suites.
`CoverageDirectory` has the steps inside one measurement and what cuts them off;
`CoverageReports` takes finished measurements and has what is later made of them.
`ProjectSetup` says when the gate in front of a coverage run passes and which suites
a test command may run.

## 2. The modules

### NativeOrchestrator

One run of `run_native_tests`. A suite is its position in the plan. `main` is
where the main thread stands, `task[s]` where `_execute_suite` stands for suite
`s`. Steps of a worker are separate actions wherever another thread can act in
between: `Pick`, `Begin` (append to `attempted`), `Spawn` (Popen), `Register`,
`CheckAbort` (the look at `abort_event` after registering), then `Collect` or
`TimeOut`. The main thread has the three dispatch modes of the code: the
sequential loop (`SeqNext`), submit-all and await in order (`Submit`, `Await`),
and the fail-fast window (`Fill`, `Wait`, `Batch`, `Drain`). `Interrupt` leads
to `_abort_run` in its steps (`CancelQueued`, `SignalAbort`, `Snapshot`,
`KillOne`, `ReadNames`, `PublishIncomplete`), which a second interrupt cuts
short. `Classify` is the cross-check of exit code and result file; `Publish` and
`Republish` the index with its failures. Left out: shard selection, the payload
of results, and the merge of coverage shards except for its failing.

### SuiteRunner

One Godot process. `pc` is the runner coroutine's next statement, `at` what it
awaits. While it runs (`at = "run"`) nothing else does; while it awaits, timers
fire (`TimerFires`) and user code proceeds (`StartCall`, `RecordFailure`,
`SkipTest`, `ScriptError`, `Return`). A call is a live `_invoke_test` coroutine
with the token it was made under. User code may fail, skip, raise, hang, or
return long after its timeout. Left out: parameter cases, the files of
screenshots, coverage inside the runner.

### WatchSession and ReRuns

The user (`Save`, `Replace`, `Delete`), the watchdog thread (`Enqueue`), the
clock (`DebounceElapses`), and the main thread: poll (`Tick`, `TakeEvent`), due
check, discovery in two steps (list, then read) once for the session and once
for the command, selection and narrowing, the command's phases, and the end of
the run. `owed`, `heard` and `backlog` are history variables: saves no run has
started after, events that asked for the next run, and events queued when the
last run ended.

`ReRuns` is the abstract specification: runs one at a time, each re-run answers
at least one save no run has answered, no save is answered twice.
`PromiseKept` is the refinement: `waiting` is what was heard since the last run
began together with what is on its way, `busy` is being in a run.

### RunArtifacts

Commands on one artifact root, each with a run directory, and two directories
that are already there: an old run's and one the user made. Publication and
retention are stepwise: the index (`Publish`), then a look at each other child
(`Prune`). A removal lists a run's directory, unlinks what it listed one entry at a
time and in any order, and removes the directory if nothing is left in it (`Remove`),
so that another command can write, and a kill or an error can stop it, in between.
What `preflight/` and `native/` hold is one entry, `files`: no decision tells its files
apart. `cut` is history: the directories whose removal has begun and not ended. `why` tells the five
publications apart: the final one, the one after that failed, the one of a failed
preflight, the one of an abort, and the report of an interrupted run.
`Interrupt` is the exception in each phase with the handler that catches it
there, `Kill` is a kill.

### CoverageDirectory

A project of numbered paths, each absent or with a content; `Empty` has no
points, `Broken` does not parse. A plan is a set of entries (id, path, hash), as
`Generated` numbers them: a skipped file uses up its number. `CurrentHashes` is
the comparison of the cache with its second look at unknown files. A command is
asked (`Start`: its kind, `--no-cache`, `--min`), prepares (`ReuseCachedPlan`, or
`GeneratePlan` and `WritePlan` as two steps), records, and reads both files back
from disk (`Report`). A test run's suites each instrument some of the planned
scripts that load (`RunSuite`), and the merge may fail and leave the old data.
A playtest removes the old data, launches the game and waits; the game is a
second process: `Ready`, intervals of `Play`, `BeginSnapshot` and `EndSnapshot`
(opening the file truncates it), `RequestClose`, `ExitTree`, `Crash` (also the
kill at `--timeout`). `Interrupt` and `Edit` come at any point. Recorded data
carry the run, path and content they are really about; the code stores the id
only, and so do the definitions that read the data (`Omitted`), while the
properties compare the two. Left out: the points of a script and their counts
(`CoverageReports` has them), archives, commands that overlap, failing writes.

### CoverageReports

A tree gives every path a content; the points of a content are its executable lines
and its branch arms, in the order the plan numbers them. There are three trees: the
merge base, HEAD and the working tree (`Edit`, `Commit`). `PlanOf` numbers the scripts
of a tree; `PlanFor` reuses the plan that is there when it matches. `Test(part)` is a
test run of one `--shard`, whose suites run through the points `Executes` names, except
in scripts that could not be instrumented (`lost`); `Job` is the same on another
machine, its file downloaded. `Merge`, `Report`, `Show`, `SaveBaseline`, `Diff`,
`DiffPatch` and `Clean` are the commands; each is one step. `shown` is what the last one
said, with the points it counted as covered. A rate is a fraction, compared by
cross-multiplication. `of` and `ran` are history: the plans data were recorded under,
and the shards that ran. Left out: counts of hits above one, formats other than the
JSON report, the rounding of floating-point rates.

### ProjectSetup

A managed file has a version's content, one of the user's, is torn (cut off in a
write), or is absent. A command is the sequence of writes it still has to make
(`todo`), and `half` says where the first stands: `BackUpBegins`, `BackUpEnds`,
`CopyBegins`, `CopyEnds`, `RemoveStale`, `StampBegins`, `StampEnds` for init's addons,
`SaveBegins`, `SaveEnds` for `gd-tools.toml`, `RewriteBegins`, `RewriteEnds` for a suite.
`RunInit` and `Migrate` compute `todo` as the code does before its first write; `Stop`
ends a command anywhere. `Install` changes the version of gd-tools, and the user
edits between commands (`EditFile`, `Set`, `Repair`, `EditSuite`). A suite is one of
seven kinds, by what discovery, the scan and the rewrite make of its text: among them
one of GutTest without test methods (`bare`), which the report passes over, and one with
test methods that extends neither base (`stray`), which ends migrate before it writes.
`Passes`, `Current` and `Refuses` are the gate, doctor and discovery; they appear in the
properties. The history variables are named in the module. Assumed: the user does
not write to these files while a command runs. Left out: `gdlintrc`, `gdformatrc`,
`.gitignore`, and the detection of Godot.

### FreshnessCaches

Commands from discovery to the start of their suites; one that has ended may begin
again. The project has one of `NumContents` contents, and `Edit` makes any other one of
it, also one that was there before: the caches' keys are hashes, so an edit that is
undone gives the old key again. `Names` says what discovery sees of a content,
`Covered` what the preflight key covers of it, so an edit elsewhere (an inherited or
preloaded script) changes the import key and not the preflight key, as in the code. An
import may fail, which the program does not notice (`Import`). History: `seen`, the
contents since a command began; `returned`, those that came back while `.godot` was of
another one, and `failed`, those that an import failed on, both since the last import
that succeeded; `crossed`, what a preflight was keyed by when it ran on something else.

## 3. What the runs check

| Run | Instance | Shows |
| --- | --- | --- |
| `orchestrator` | 3 suites, 2 workers, 2 interrupts, 1 spawn failure, processes that pass, fail, or pass and crash | `AbortReachesEverySpawn`, `NotRunMeansNeverStarted`, `HonestVerdict`, `BoundedProcesses`, `RunEnds` |
| `runner` | 1 test with 1 retry, three hook sets, 2 faults of user code | `OwnWakeup`, `PassedMeansBodyRan`, `PassedRunIsClean`, `NoLateStart`, `SuiteEnds` |
| `watch` | a source file, its suite and another suite, 2 changes, 1 interrupt | `NothingNarrowedAway`, `OneFollowUp`, `SavesAreRun`, `PromiseKept` |
| `artifacts` | 2 commands, 2 interrupts, kills or errors of a write or a removal | `FinishedMeansCollected`, `EvidenceOutlivesFailedRuns`, `RicherIndexKept`, `UserDirectoryKept`, `LatestRunOnly` |
| `coverage` | 2 paths, 2 contents with points, 3 commands, 2 edits, 1 interval of play | `OwnReport`, `GatedMeansComplete`, `PlayedIsReported`, `SettledProjectHits` |
| `reports` | 2 paths, 4 contents with up to 3 points, 2 suites, shards 1/1, 1/2 and 2/2, 1 edit, 3 commands that write | `MergedIsWhole`, `NoUnseenRegression`, `PatchIsRun` |
| `setup` | 2 versions, 2 addons with 3 files of which one is no longer shipped, 2 suites, 1 setting, 1 edit, 4 commands | `EditKept`, `UpgradeIsWhole`, `NeverClobbered`, `ApplyConverges` |
| `freshness` | 2 commands at a time, with and without `--no-cache`, again and again; 2 contents that differ in a suite's body, 3 edits | `NoStaleImport`, `NoStaleMetadata` |

Each also checks its `TypeOK`. Every property is stated in words above its
definition.

### Bounds, and why they are enough

* Three suites with two workers is the least plan in which one suite is queued
  while two are in flight, which fail-fast and cancellation need. A second
  interrupt is needed to cut an abort short, and a third could only do the same
  again. Two failures of publication are what the code reacts to.
* One test with one retry between suite hooks gives every pair of consecutive
  calls that can interfere: hook and attempt, attempt and retry, attempt and
  suite hook. Two faults are needed for a skip followed by a failure or an error
  in one call and a failure in the next.
* Two changes are a save that starts a run and one during it, or a burst; three
  files are what mapping tells apart: a suite, a file that maps to it by name,
  and a suite it does not map to.
* In `artifacts`, two commands are what overlapping needs; two troubles, so that each
  command may be cut off, or one of them twice, or in what it does after an error. The
  suites pass (`Verdicts`): a run whose suites failed takes the same steps to another
  exit code, and one whose results are gone is an error anyway. The old run has an
  index and no marker, as the versions before the marker left it. The commands are
  alike, so exchanging them is sound.
* Two paths are what an id that shifts needs (one that appears or vanishes before
  the other); two contents make an edit that keeps a script measurable; two
  edits let the project leave a plan and come back, or change before a command
  and during it. Three commands are a plan, a later one that is cut off, and a
  reader. One interval of play tells a flush before it from one after it. The
  contents with points are only compared, so exchanging them is sound; the
  action property speaks of no content by name.
* In `freshness`, two commands at a time, each followed by others, are what an entry
  stored late by one and read by another needs; three edits of two contents are an
  edit, its undo and one more. The commands are alike, and the properties are
  invariants or about single steps, so the symmetry is sound.
* In `reports`, two paths let a number shift; the four contents are an absent script,
  one without points, and two versions of one with a line and both arms of an `if`,
  so that an edit moves points, changes a line, or takes all of them away. Two suites
  of which one reaches only a part make shards differ. Three commands are two shards
  and a merge, or a run, a baseline and a run.
* In `setup`, the second version no longer ships a file of the first, and each addon
  has files to tear. Four commands are an init, an upgrade, an init that is stopped
  and one that is not, or two attempts at migrate after an init; an edit may come
  anywhere before, between or after them. One setting, because settings are written
  together.

### Fairness

`RunEnds`, `SuiteEnds` and `SavesAreRun` assume weak fairness of
the program's own steps only: threads that can run do run; the wait for a
process has a timeout, which is a step of the program; Godot keeps drawing frames
and firing timers; the watchdog thread and the clock go on. Nothing obliges a
Godot process to end, user code to return or raise, an import to succeed, or a
user to save or interrupt. The other models state no liveness and have no fairness.
`WatchSession`'s steps of a run are fair because every
process of a run has a timeout. `Interrupt` and faults are never fair.

### Where the code and its documents disagree

Four runs expect a violation. Each states what a document or a comment of the
repository says, and TLC shows a behaviour of the code that does otherwise.

| Run | Statement | What the code does |
| --- | --- | --- |
| `fail_fast_drains` | `README.md:164`: with `--exitfirst` "the pool drains instead of killing workers" | the run-level abort event is set, and a worker that has just spawned a suite kills it (`orchestrator.py:156`) |
| `interrupt_ends_session` | `README.md:237`: "interrupting an in-flight run kills its Godot processes and exits 130" | the runner reports the interrupt as an errored run and goes on watching (`session.py:202`) |
| `failed_import_reruns` | `docs/ARCHITECTURE.md:1511`: "a failed or timed-out import always re-runs" | the exit code of the import is not looked at (`command.py:546`) and its freshness is stored |
| `reports_repeat` | `docs/PRD.md:256`: "`report` — regenerate reports from saved `.gd-tools/coverage/coverage.json` without re-running tests" | a JSON report is written to `coverage.json` itself (`reporter.py:907`), in a shape that no command reads |

The models also show these behaviours, which no run checks:

* In a sequential run, Ctrl+C between Popen and the registration of the process
  (`orchestrator.py:154-155`) leaves that process running; `docs/ARCHITECTURE.md:902`
  says that an interrupt kills every in-flight process tree.
* A test body that outlived its timeout raises its script error under the trap of
  a later attempt; the comment at `gd_tools_test_runner.gd:38` speaks of "the exact
  test that triggered them".
* When the suite named by `--suite` disappears, the next run of a watch session
  has no filter (`session.py:177`); the docstring at `session.py:98` says that the
  filter is applied on every run.
* The import cache and the preflight cache are keyed by content (`import_cache.py:92`,
  `preflight_cache.py:66`), the key is computed before Godot runs and stored after it.
  An edit in between and its undo later make the stored key match an import, or
  metadata, of the content in between (`command.py:582-596`). `NoStaleImport` exempts
  contents that came back over another import, `NoStaleMetadata` what a preflight was
  keyed by and did not run on; for everything else they say what holds. An import that
  fails is the finding above, and exempt in the same way.
* When the merge of a test run's shards fails, its report is made from the data
  of an earlier run; the run then ends as an error, which is why `OwnReport`
  leaves errors out.
* A playtest has no omission gate: its `--min` can pass on part of the plan.
* Two overlapping runs that pass delete each other's artifacts (`artifacts.py:269`);
  `docs/USER_GUIDE.md:928`: "Only the latest run is retained."
* `rmtree` (`artifacts.py:274`) unlinks a run entry by entry. If it is stopped, by a
  kill, an interrupt or an `OSError`, when the marker and the index are gone and other
  files are not, no later retention recognises what is left (`artifacts.py:286`), and it
  stays for good. `LatestRunOnly` exempts exactly those remains (`cut`).
* A game that crashes while it writes a snapshot leaves neither that one nor the one
  before (`coverage.gd:262` truncates it); `docs/USER_GUIDE.md:1644`: "data survives a
  crash: the report is built from the last periodic snapshot."
* An interrupted run has replaced `plan.json` and not `coverage.json`, and
  `save_baseline` pairs the two by id (`diff_reporter.py:147`); `docs/USER_GUIDE.md:1291`:
  a baseline "embeds the instrumentation plan and the coverage data of the run".
* The branch rate of a script without branch points is 0, so removing a branch that
  was covered counts as a regression (`diff_reporter.py:433`).
* Shards recorded under a cached plan merge by number with shards recorded under a
  fresh one; `MergedIsWhole` speaks of data of one plan. A shard without suites leaves
  the `coverage.json` of an earlier run where it is.
* On an upgrade every file of the previous version differs from the bundled one, is
  announced as modified, and takes the place of an older backup of what the user had
  made (`init.py:125`); `docs/PRD.md:485` promises that unmodified files are
  overwritten silently. `EditKept` therefore ends where something else is backed up.
* An init of the version that is already stamped, or of an older one, that is stopped
  in a copy leaves a torn file that gate and doctor accept (`addon_check.py:56`).
  So do, after an upgrade that was stopped, the gate and doctor of the version before,
  when gd-tools is rolled back to it: they compare the stamp, which is still theirs, and
  the files are of two versions. `UpgradeIsWhole` exempts these two and nothing else.
* A save of `gd-tools.toml` that is stopped can leave an empty file, which is valid and
  means all defaults (`config.py:353`); one that does not parse stops `gd-tools init`,
  which doctor suggests as the remedy.
* `migrate` looks for suites in the test directories from before the translation, so
  suites in the directories that `.gutconfig.json` names need a second run;
  `docs/gut-migration.md:126` says that after the first "`gd-tools test` should now
  discover and run every suite". After `gd-tools init` has written its defaults,
  every translated setting counts as the user's and is skipped.
* A file that extends GutTest and has no test method makes `gd-tools test` fail with the
  advice to run `gd-tools migrate` (`discovery.py:124`), which neither reports nor
  rewrites it (`discovery.py:165`). `ApplyConverges` names it as what may be left.
* A suite that was torn when migrate was stopped in its rewrite has no base class, or
  fewer test methods: every later command passes over it or runs what is left, and
  nothing restores it (`migration/apply.py:126`).
* A suite whose `extends GutTest` is indented is found by discovery and not changed by
  the rewrite (`rewrite.py:18`, `discovery.py:22`).

Two more are outside the models. `coverage show --min 29` fails at 29 of 100 lines,
where 29/100 * 100 is 28.999... in floating point (`coverage/orchestrator.py`), and a
report's gate passes. The models have no clock: the comment at
`playtest.py:97` calls a snapshot before the kill guaranteed, but the interval of
half `--timeout` starts only when the engine has loaded the tracker.

`AbortReachesEverySpawn` is what does hold next to the first of these (no thread
of the run *waits* for a live process after an abort), and `LatestRunOnly` next to
overlapping runs (commands that take turns leave no run but the last, and of the others
nothing but what a stopped removal left).

## 4. What is proved

TLAPS checks the eight proof modules to the last leaf, without further assumptions
than the named ones of the modules (`OrchestratorAssumption`, `RunnerAssumption`,
`WatchAssumption`, `ArtifactsAssumption`, `DirectoryAssumption`, `SetupAssumption`,
`FreshnessAssumption`), which TLC evaluates in the runs.

**`NativeOrchestratorProofs`**, for every plan length, worker count, set of
process endings, number of interrupts and of faults:

* `Typing`: `Spec => []TypeOK`. `TypeOK` alone is not inductive: `fate` must be a
  verdict when the index is published and the failure count must be zero until
  then (`PublishCount`), or the bound on `publishFaults` does not carry over.
* `AbortReaches`: `Spec => []AbortReachesEverySpawn`. The property speaks of the
  moment after the kill loop; the invariant `AbortInv` says why it is true before.
  Its parts: `Modes` (the executor belongs to parallel runs, and a suite not yet
  submitted has no state, so submitting never overwrites one), `LiveProcesses` (a
  live process belongs to a suite that is spawned, registered or running, and
  from its registration on it is in the registry), `Interrupts` (the first
  interrupt ends dispatch, and a run it hit never aggregates), and `Reached`
  (after an uninterrupted abort has begun its snapshot `abort_event` is set, and
  from the kill loop on every awaited live process is still in `toKill`). The
  race of the code, a worker between Popen and registration while the snapshot
  is taken, is the case `CheckAbort`: what was not registered by then meets the
  abort event in its own check.

* `NotRunNeverStarted` (`NotRunMeansNeverStarted`), `VerdictIsHonest`
  (`HonestVerdict`) and `ProcessesBounded` (`BoundedProcesses`). `Started` says that an
  attempt is on record exactly from the moment its suite begins. `Awaited` is the
  bookkeeping of the three dispatch modes: what was dispatched is collected or still
  pending, so that when nothing is pending any more `Whole` follows: everything started
  is collected, and the tasks are at rest, which is why no late worker can change what
  the verdict was made of. `Gathered` keeps the failing suite that triggered fail-fast
  among the collected ones, so a run that stopped early cannot pass; `Verdict` carries
  the result through the two publications. `Workers` counts the suites in execution,
  among which the abort's `LiveProcesses` finds every live process.

**`FreshnessCachesProofs`**, for every set of commands, number of edits and
choice of `Names` and `Covered`, undone edits and failing imports included:

* `Inductive`, `Typing`, `ImportIsFresh` (`NoStaleImport`) and `MetadataAreFresh`
  (`NoStaleMetadata`). The properties speak only of commands that have reached their
  suites; what makes them true is a chain that `IInv` spells out. A command sees the
  content of now, and its key is of one it saw (`CommandInv`). The content of a stored
  import key (`EntryInv`), or of one about to be stored, was there before (`Once`) and
  describes the import (`Describes`): if it is the content of now, `.godot` is of it,
  and every command that saw it has a fresh import. An edit keeps that because a
  content that was keyed can only come back, and then is exempt unless `.godot` is of
  it; an import because every running command sees the content of now. Metadata stored
  under a preflight key are of what the key covers, unless it was crossed
  (`StoredInv`).

**`CoverageDirectoryProofs`**, for every number of paths, set of contents, number
of edits, commands and intervals:

* `Typing`, `ReportsAreOwn` (`OwnReport`), `GateIsComplete` (`GatedMeansComplete`)
  and `PlanIsReused` (`SettledProjectHits`), all from one inductive invariant;
  `PlayIsReported` (`PlayedIsReported`) from a second one on top of it, `Flushed`: a game
  that no longer measures has its last write on disk or has gone on playing since.
  Two facts about plans carry them: a fresh plan numbers no two files alike and
  lists exactly the scripts that have points (`FreshPlan`, over the cardinality
  lemmas `Position` and `PositionsGrow`), and the cache hits exactly on a plan that
  says what a fresh one would (`HitIsCurrent`, `CurrentHits`). `PlanInv` keeps that
  along a command: a session has a plan with distinct ids, and if nobody edited
  since it began, one of the project as it is. `ShardsInv` ties each record to the
  plan's entry for its id, `CollectInv` and `PlayInv` say whose data are on disk,
  and `PhaseInv` which command is where. For the gate, distinct ids are what
  turns "every planned id is in the data" into "every script was measured".

**`SuiteRunnerProofs`**, for every number of tests, retries and faults and every
choice of hooks:

* `Typing`, `OwnWakeups` (`OwnWakeup`), `NeverLate` (`NoLateStart`), `PassedRan`
  (`PassedMeansBodyRan`) and `PassedClean` (`PassedRunIsClean`). What carries the
  first half is `Protocol`: live calls have tokens of their own (`Queue`), the only
  one with the current token is the one the runner awaits (`Expecting`), a budget
  that still runs when the runner is in control has no call left (`Idle`, which is
  why `_await_test_call` may reuse the attempt's token), and a call of the
  attempt's instance that is not awaited is one the attempt was timed out for
  (`Overrun`). From the teardown on every such call is stale, so a body that waited
  out its budget is dropped by the token test of `_invoke_test` even while the
  frames of the teardown let it run. The second half adds `BodyHeard` (a body that
  was not timed out has left its end or a trapped script error behind) and
  `Judged` (from the verdict "passed" on no call of the instance is left that
  could still record a failure), which is why a recorded pass stays true.

**`WatchSessionProofs`**, for every set of files and suites, mapping by name, filter,
and number of saves and interrupts:

* `Typing`, `NarrowedCovers` (`NothingNarrowedAway`), `FollowUp` (`OneFollowUp`) and
  `Promised` (`PromiseKept`). `Fifo` is the backbone: events keep the order of the
  saves from the wire through the queue to those the loop has heard, so what was
  queued at the end of a run is older than what is still on the wire. `Drained` then
  says that after a tick was taken, which needs an empty queue, nothing of that
  backlog can be in it. `Coalescing` has the fact that the loop hears changes only
  while no run is on (no run is ever dirty) and that a pending change was heard.
  `Promised` is a step simulation: a change on the disk is a save of `ReRuns`, moving
  an event leaves `waiting` as it is (`MovingWaits`), a run that is due answers
  exactly what was heard (`DueAnswers`, where `Fifo` keeps that apart from what is on
  its way), and the rest stutters or ends a run or the session (`RestStutters`).

**`RunArtifactsProofs`**, for every number of commands and runs:

* `Typing`, `FinishedWasCollected` (`FinishedMeansCollected`), `EvidenceOutlives`
  (`EvidenceOutlivesFailedRuns`), `UserKept` (`UserDirectoryKept`), `RicherKept`
  (`RicherIndexKept`) and `LatestOnly` (`LatestRunOnly`). `Safe` speaks of each run
  alone and holds under any interleaving of commands: what a run has published by
  where it is (`Publication`), that it has collected what it says (`Finished`), and
  that what its retention is about to remove is neither its own directory nor the
  user's (`Retention`). `Turns` is what the last theorem needs more: as long as no
  command has met another there is one live command, every directory with files is
  marked, indexed or half removed, the final retention has still to remove exactly
  what it has not yet visited, and what it is removing holds nothing that it did not
  list (`Unlinked` is the lemma about one entry).

**`ProjectSetupProofs`**, for every set of versions, addons, suites and settings:

* `Typing`, `EditsKept` (`EditKept`) and `WishesKept` (`NeverClobbered`). A copy of
  an addon is not atomic, so the invariant has a part for the state in between
  (`HalfDone`: a file that is torn while it is being made is one that `init` itself
  is writing, and its old content is already in `.backups/`). `Carried` and
  `Written` say the same of the settings: until `gd-tools.toml` is replaced the
  user's text is still on disk, afterwards the merged text holds every wish in it;
  `Resting` is what is left when the command is over.
* `UpgradesAreWhole` (`UpgradeIsWhole`). Why an upgrade that was stopped is noticed lies
  in the steps that are left: an addon's version comes after all of its files, and only
  once (`Ordered`), and until it is written each file has its step before it or is as
  the installed version deploys it (`Pending`). So when the version is written nothing of
  the addon is left to do. `Whole` keeps that until the next init writes into the addon,
  which is when the addon counts as opened (`Opening`) and either its version is below
  the one installed or the first exception of the property applies; the second is a
  version installed since that is below the one that opened it. That init and migrate plan
  such steps is proved of the sequences themselves: `DeploymentParts` for the addons of a
  layout one after the other, `MigrateTodo` for the suites, of which `SortedParts` says
  that the sequence holds every one of them.
* `AppliesConverge` (`ApplyConverges`). A migrate that completes has saved all that
  `.gutconfig.json` says (`Settling`, then `Settled`), so the second one has the final test
  directories, no file in them that ends it, and every suite it can rewrite among its
  steps (`Rewriting`), and when these are done there is none left (`Clean`). `Translating` and `Translated` keep what is saved
  equal to what was given.

`SetupAssumption` has what the last two need of the layouts: every addon of a version has
a directory of its own, its files are in that directory, and none of them is both deployed
and removed, as in `init.py`, where each installer names one directory and its own list.

**`CoverageReportsProofs`**, for every number of scripts, suites, points and shards, every
content and every threshold:

* `Typing`, `MergingIsWhole` (`MergedIsWhole`), `DiffMissesNothing` (`NoUnseenRegression`)
  and `PatchRuns` (`PatchIsRun`), from one inductive invariant. `Faithful` is its core: the
  plans a coverage file was recorded under tell their scripts apart (`Numbered`), and when
  it was one plan only, the file has at each id of that plan exactly what was run through
  in the script of that id (`Exact`). `RecordedFaithful` and `MergedFaithful` say that
  recording and merging keep this, also when the merged files are of different plans and
  nothing is said of the result. `SayingInv` ties what the last command said to the files
  as they are, so that the properties, which speak of what was run, follow from what
  was counted. That every suite belongs to one shard of N is `ShardsPartition`; that a
  share which reaches 100 per cent is everything is `AllReached`, over cardinalities.

`FlattenSeq`, with which `RunInit` joins the steps of the addons, is defined by recursion
over the sequence. The library's induction theorems take an operator as a parameter and
cannot be used; `Induction` in `ProjectSetupProofs` states the principle for a set of
numbers, from the well-foundedness of < on `Nat`, and `Flattened` uses it.

Only model-checked: the liveness properties `RunEnds`, `SuiteEnds` and `SavesAreRun`
(liveness under fairness and ENABLED are out of the prover's reach), and the four
statements that the code does not keep. Every invariant, every action property and the
refinement that a passing run checks is a theorem.

## 5. What is not modelled, and the plan

Abstracted throughout: texts, paths, formats, the contents of results; the
number of seconds in a timeout. Left out: deliberate changes of the system's clock.

The order of what comes next, by what is most exposed to order and failure:

1. `BranchArms` (`plan_generator.py`, the two collectors): the derived counts of
   short-circuited operands against what an evaluation does, for small trees of
   operators, across snapshots and merged shards.
2. Overlapping commands on one coverage directory.
3. `PreflightProtocol` (`preflight.py`, `gd_tools_test_preflight.gd`): exit code,
   result file and timeout of the preflight process.
4. Pure algorithms as operators against reference definitions: `ordering.py`
   (seeded permutation), `flaky.py`, parameter naming.
