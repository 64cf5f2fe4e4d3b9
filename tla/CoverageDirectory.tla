---------------------------- MODULE CoverageDirectory ----------------------------
(***************************************************************************)
(* The coverage output directory: plan.json, which gives every measured    *)
(* file an id, and coverage.json, whose hits name files by that id only.   *)
(* Commands use it one after the other: test runs and playtests prepare a  *)
(* plan (cached when the project's hashes match it), record and report;    *)
(* show, report, diff and save-baseline pair the two files as they find    *)
(* them.  The user edits the project between any two steps.                *)
(*                                                                         *)
(* A playtest's game writes its snapshots in place, periodically and when  *)
(* it is left; it may crash, and --timeout kills it at any point.          *)
(***************************************************************************)
EXTENDS Naturals, FiniteSets

CONSTANTS
    NumFiles,       \* paths a script may have, in the order discovery sorts them
    Sources,        \* contents with trackable points
    Empty, Broken,  \* a content without points; one that does not parse
    Absent,         \* no file at that path
    None,           \* no plan.json, no coverage.json
    Torn,           \* a coverage.json that cannot be read: cut off in a write, or a JSON report
    Outdated,       \* a plan.json of another PLAN_VERSION, or an unreadable one
    MaxEdits, MaxCommands, MaxBeats   \* bounds: edits, commands, intervals of play

Files == 1 .. NumFiles
Contents == Sources \cup {Empty, Broken, Absent}
Entries == [id : 0 .. NumFiles - 1, path : Files, hash : Sources]

ASSUME DirectoryAssumption ==
    /\ {NumFiles, MaxEdits, MaxCommands, MaxBeats} \subseteq Nat
    /\ {Empty, Broken, Absent} \cap Sources = {}
    /\ \A entries \in SUBSET Entries : entries \notin {None, Outdated}

Targets == [run : 1 .. MaxCommands, id : 0 .. NumFiles - 1, path : Files, source : Contents]
Data == [targets : SUBSET Targets, beats : 0 .. MaxBeats]

VARIABLES
    project,   \* the scripts' contents
    edits,     \* how many edits were made
    plan,      \* plan.json: its entries
    coverage,  \* coverage.json
    checked,   \* history: no edit since this many: plan.json was last seen to match
    run,       \* the number of the command, and what it was asked
    command,
    pc,
    mine,      \* the plan a command generated
    shards,    \* what its suites recorded
    infra,     \* whether an infrastructure error was met
    game,      \* a playtest's game process
    shown      \* what the command reported: its exit and the data it paired with plan.json

directory == <<plan, coverage>>
asked == <<run, command>>
local == <<mine, shards, infra>>
vars == <<project, edits, directory, checked, asked, pc, local, game, shown>>

Kinds == {"test", "play", "inspect"}
NoGame == [phase |-> "none", live |-> FALSE, beats |-> 0, targets |-> {}, late |-> FALSE]
NothingShown == [verdict |-> "none", data |-> [targets |-> {}, beats |-> 0]]

Init ==
    /\ project \in [Files -> Contents] /\ edits = 0
    /\ plan \in {None, Outdated} /\ coverage = None /\ checked = 0
    /\ run = 0 /\ pc = "idle"
    /\ command = [kind |-> "inspect", noCache |-> FALSE, gated |-> FALSE, since |-> 0]
    /\ mine = {} /\ shards = {} /\ infra = FALSE
    /\ game = NoGame /\ shown = NothingShown

Goto(here, there) == pc = here /\ pc' = there

\* What a command knew goes with its process.
Exit(here) == Goto(here, "idle") /\ mine' = {} /\ shards' = {} /\ infra' = FALSE

-----------------------------------------------------------------------------
(* The plan and its cache. *)

Exists(f) == project[f] # Absent

\* Mutant: ids count from one.
GeneratedFromOne ==
    {[id |-> Cardinality({g \in Files : g <= f /\ Exists(g)}), path |-> f, hash |-> project[f]]
        : f \in {g \in Files : project[g] \in Sources}}

\* generate_plan: ids number the files discovered, also those it then skips
\* because they do not parse or have no points.
Generated ==
    {[id |-> Cardinality({g \in Files : g < f /\ Exists(g)}), path |-> f, hash |-> project[f]]
        : f \in {g \in Files : project[g] \in Sources}}

Readable == plan \notin {None, Outdated}
CachedHashes == {<<e.path, e.hash>> : e \in plan}

\* Mutant: files without points count as added.
CurrentHashesOfAll ==
    {<<f, project[f]>> : f \in {g \in Files : project[g] \notin {Absent, Broken}}}

\* The files that parse, with their hashes; one the cached plan does not know
\* counts only if it has points.
CurrentHashes ==
    {<<f, project[f]>> : f \in {g \in Files :
        /\ project[g] \notin {Absent, Broken}
        /\ project[g] = Empty => \E e \in plan : e.path = g}}

\* Mutant: a file that was added does not invalidate the plan.
CacheHitOfKnown == Readable /\ ~command.noCache /\ CachedHashes \subseteq CurrentHashes

\* generate_plan_cached; --no-cache never hits.
CacheHit == Readable /\ ~command.noCache /\ CurrentHashes = CachedHashes

-----------------------------------------------------------------------------
(* What test runs and playtests have in common. *)

\* A command begins: a playtest never passes --no-cache, the commands that only
\* read have nothing to prepare.
Start(kind) ==
    /\ Goto("idle", IF kind = "inspect" THEN "collect" ELSE "prepare")
    /\ run < MaxCommands /\ run' = run + 1
    /\ \E noCache \in (IF kind = "test" THEN BOOLEAN ELSE {FALSE}), gated \in BOOLEAN :
            command' = [kind |-> kind, noCache |-> noCache, gated |-> gated, since |-> edits]
    /\ game' = NoGame /\ shown' = NothingShown
    /\ UNCHANGED <<project, edits, directory, checked, local>>

Prepared == IF command.kind = "play" THEN "unlink" ELSE "suites"

ReuseCachedPlan ==
    /\ Goto("prepare", Prepared) /\ CacheHit /\ checked' = edits
    /\ UNCHANGED <<project, edits, directory, asked, local, game, shown>>

GeneratePlan ==
    /\ Goto("prepare", "write plan") /\ ~CacheHit
    /\ mine' = Generated
    /\ UNCHANGED <<project, edits, directory, checked, asked, shards, infra, game, shown>>

\* write_plan_json, crash-safe.
WritePlan ==
    /\ Goto("write plan", Prepared)
    /\ plan' = mine /\ mine' = {} /\ checked' = command.since
    /\ UNCHANGED <<project, edits, coverage, asked, shards, infra, game, shown>>

\* _instrument_file for each entry of the plan on disk: the script is loaded as
\* it is now and its hash is not looked at. One that is gone or does not parse
\* is omitted, and so is any that does not reload with its trackers.
Instrumented(e) == [run |-> run, id |-> e.id, path |-> e.path, source |-> project[e.path]]
Instrumentable == {Instrumented(e) : e \in {d \in plan : project[d.path] \notin {Absent, Broken}}}

-----------------------------------------------------------------------------
(* gd-tools test --coverage. *)

\* One suite's process, which writes its shard when it ends; a suite that is
\* killed or refuses the plan leaves none and is an error.
RunSuite ==
    /\ pc = "suites" /\ UNCHANGED pc
    /\ \/ \E done \in SUBSET Instrumentable : shards' = shards \cup done
       \/ UNCHANGED shards
    /\ infra' \in {infra, TRUE}
    /\ UNCHANGED <<project, edits, directory, checked, asked, mine, game, shown>>

\* _merge_coverage_shards over the suites that ran; when it fails the old
\* coverage.json stays and the run is an error.
MergeShards ==
    /\ Goto("suites", "collect")
    /\ \/ coverage' = [targets |-> shards, beats |-> 0] /\ UNCHANGED infra
       \/ infra' = TRUE /\ UNCHANGED coverage
    /\ UNCHANGED <<project, edits, plan, checked, asked, mine, shards, game, shown>>

-----------------------------------------------------------------------------
(* gd-tools coverage run: the command, then the game's tracker. *)

\* Mutant: the file of the session before stays.
UnlinkNothing ==
    /\ Goto("unlink", "launch")
    /\ UNCHANGED <<project, edits, directory, checked, asked, local, game, shown>>

Unlink ==
    /\ Goto("unlink", "launch") /\ coverage' = None
    /\ UNCHANGED <<project, edits, plan, checked, asked, local, game, shown>>

\* run_godot, or the error when there is no scene to run.
Launch ==
    /\ \/ Goto("launch", "wait") /\ game' = [NoGame EXCEPT !.phase = "booting"]
       \/ Goto("launch", "idle") /\ UNCHANGED game
    /\ UNCHANGED <<project, edits, directory, checked, asked, local, shown>>

InGame(phases) ==
    /\ game.phase \in phases
    /\ UNCHANGED <<project, edits, plan, checked, asked, pc, local, shown>>

\* _ready: nothing is measured without the autoload, or with an empty plan.
Ready ==
    /\ InGame({"booting"}) /\ UNCHANGED coverage
    /\ \/ game' = [game EXCEPT !.phase = "playing"]
       \/ /\ plan # {}
          /\ \E done \in SUBSET Instrumentable :
                game' = [game EXCEPT !.phase = "playing", !.live = TRUE, !.targets = done]

\* One interval of play. Hits are still counted after the final flush, for a
\* window that refuses to close, but nothing writes them any more.
Play ==
    /\ InGame({"playing"}) /\ UNCHANGED coverage
    /\ game.beats < MaxBeats
    /\ game' = [game EXCEPT !.beats = @ + 1, !.late = ~game.live]

\* _write_json: opening the file truncates it.
BeginSnapshot ==
    /\ InGame({"playing"}) /\ game.live
    /\ coverage' = Torn /\ game' = [game EXCEPT !.phase = "snapshot"]

\* _stop_playtest on a close request: the last write, then the window may close
\* or go on.
RequestClose ==
    /\ InGame({"playing"}) /\ game.live
    /\ coverage' = Torn /\ game' = [game EXCEPT !.phase = "snapshot", !.live = FALSE]

\* Mutant: leaving the tree does not flush.
ExitTreeWithoutFlush ==
    /\ InGame({"playing"}) /\ UNCHANGED coverage
    /\ game' = [game EXCEPT !.phase = "left"]

\* _exit_tree, on the way out of a game that ends by itself.
ExitTree ==
    /\ InGame({"playing"})
    /\ IF game.live THEN coverage' = Torn /\ game' = [game EXCEPT !.phase = "last write"]
                    ELSE UNCHANGED coverage /\ game' = [game EXCEPT !.phase = "left"]

EndSnapshot ==
    /\ InGame({"snapshot", "last write"})
    /\ coverage' = [targets |-> game.targets, beats |-> game.beats]
    /\ game' = [game EXCEPT !.phase = IF @ = "snapshot" THEN "playing" ELSE "left"]

Running == {"booting", "playing", "snapshot", "last write"}

\* The game crashes, or subprocess.run kills it at --timeout.
Crash ==
    /\ InGame(Running) /\ UNCHANGED coverage
    /\ game' = [game EXCEPT !.phase = "cut off"]

GameOver ==
    /\ Goto("wait", "collect") /\ game.phase \in {"left", "cut off"}
    /\ UNCHANGED <<project, edits, directory, checked, asked, local, game, shown>>

-----------------------------------------------------------------------------
(* Reports, and what happens around the commands. *)

\* The plan's targets that data does not know: reconcile_omissions.
Omitted(data) == {e \in plan : \A t \in data.targets : t.id # e.id}

\* The exit of a report: an infrastructure error or failed tests come first,
\* then the omission gate of a test run with --min, then the percentage.
Verdicts(data) ==
    CASE command.kind = "test" /\ infra -> {"error"}
      [] command.kind = "test" /\ ~infra -> {"failed"} \cup
            (IF command.gated /\ Omitted(data) # {} THEN {"incomplete"} ELSE {"ok", "below"})
      [] OTHER -> {"ok", "below"}

\* plan.json and coverage.json are read back from disk and paired by id; one
\* that is missing or unreadable is an error.  A report in JSON is written over
\* coverage.json, in a form that the next command cannot read.
Report ==
    /\ Exit("collect")
    /\ IF Readable /\ coverage \notin {None, Torn}
       THEN /\ \E verdict \in Verdicts(coverage) :
                    /\ verdict = "below" => command.gated
                    /\ shown' = [verdict |-> verdict, data |-> coverage]
            /\ coverage' \in {coverage, Torn}
       ELSE UNCHANGED <<shown, coverage>>
    /\ UNCHANGED <<project, edits, plan, checked, asked, game>>

\* Ctrl+C or a failure at any point of a command; a game goes with it.
Interrupt ==
    /\ pc # "idle" /\ Exit(pc)
    /\ game' = IF game.phase \in Running THEN [game EXCEPT !.phase = "cut off"] ELSE game
    /\ UNCHANGED <<project, edits, directory, checked, asked, shown>>

Edit(f) ==
    /\ edits < MaxEdits /\ edits' = edits + 1
    /\ \E content \in Contents \ {project[f]} : project' = [project EXCEPT ![f] = content]
    /\ UNCHANGED <<directory, checked, asked, pc, local, game, shown>>

Command == (\E kind \in Kinds : Start(kind)) \/ ReuseCachedPlan \/ GeneratePlan \/ WritePlan
                \/ RunSuite \/ MergeShards \/ Unlink \/ Launch \/ GameOver \/ Report
Game == Ready \/ Play \/ BeginSnapshot \/ RequestClose \/ ExitTree \/ EndSnapshot \/ Crash
Next == Command \/ Game \/ Interrupt \/ \E f \in Files : Edit(f)

Spec == Init /\ [][Next]_vars

-----------------------------------------------------------------------------
(* Properties. *)

\* Every variable stays in its domain; an id names a position among the files.
TypeOK ==
    /\ project \in [Files -> Contents] /\ edits \in 0 .. MaxEdits
    /\ plan \in {None, Outdated} \/ plan \subseteq Entries
    /\ coverage \in {None, Torn} \/ coverage \in Data
    /\ checked \in 0 .. MaxEdits /\ run \in 0 .. MaxCommands
    /\ command \in [kind : Kinds, noCache : BOOLEAN, gated : BOOLEAN, since : 0 .. MaxEdits]
    /\ pc \in {"idle", "prepare", "write plan", "suites", "unlink", "launch", "wait", "collect"}
    /\ mine \subseteq Entries /\ shards \subseteq Targets /\ infra \in BOOLEAN
    /\ game \in [phase : Running \cup {"none", "left", "cut off"}, live : BOOLEAN,
                 beats : 0 .. MaxBeats, targets : SUBSET Targets, late : BOOLEAN]
    /\ shown = NothingShown \/ shown \in
            [verdict : {"error", "failed", "incomplete", "below", "ok"}, data : Data]

\* The command's report, as long as nothing was asked after it.
Reported(kind) == shown # NothingShown /\ command.kind = kind

\* coverage/playtest.py:96 and native_test/orchestrator.py:502: whatever ended
\* the sessions before, a playtest reports, and a test run that is not an error
\* reports, nothing that an earlier session recorded.
OwnReport ==
    Reported("play") \/ (Reported("test") /\ shown.verdict # "error") =>
        \A t \in shown.data.targets : t.run = run

\* coverage/omissions.py:142: a test run that passes --min, with no edit since
\* it began, measured every script that has points, in its present content:
\* neither a cached plan nor a script that could not be instrumented hides one.
GatedMeansComplete ==
    Reported("test") /\ command.gated /\ shown.verdict = "ok" /\ command.since = edits =>
        \A f \in {g \in Files : project[g] \in Sources} :
            \E t \in shown.data.targets : t.path = f /\ t.source = project[f]

\* gd-tools-coverage/coverage.gd:155 and :162: a game that ends by itself, also one that
\* asked to close and went on without playing, reports all that was played.
PlayedIsReported ==
    Reported("play") /\ game.phase = "left" /\ ~game.late =>
        shown.data.beats = game.beats

\* coverage/plan_generator.py:1270: once a plan was made for the project as it
\* is, no cached run makes another, also with scripts that have no points or do
\* not parse.
SettledProjectHits ==
    [][pc = "prepare" /\ pc' = "write plan" /\ Readable /\ ~command.noCache =>
            checked # edits]_vars
=============================================================================
