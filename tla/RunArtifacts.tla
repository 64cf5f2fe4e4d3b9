------------------------------ MODULE RunArtifacts ------------------------------
(***************************************************************************)
(* The run directories under .gd-tools/artifacts, and the test commands    *)
(* that create, index and prune them: several commands on one project at   *)
(* the same time, interrupts, kills and failing writes.                    *)
(*                                                                         *)
(* The suites of a run are one step here (NativeOrchestrator models them): *)
(* a Godot process writes its result into the run directory and the        *)
(* command collects it.                                                    *)
(***************************************************************************)
EXTENDS Naturals, FiniteSets

CONSTANTS
    Runs,           \* commands, each with a run of its own
    Old,            \* the directory of a run of a version that wrote no marker yet
    User,           \* a directory the user made under the artifact root
    Verdicts,       \* what suites whose results can be read may amount to
    MaxTroubles     \* interrupts (Ctrl+C, SIGTERM), kills, and writes and removals that
                    \* raise OSError (bound)

Dirs == Runs \cup {Old, User}
Final == {"passed", "failed", "error"}

ASSUME ArtifactsAssumption ==
    /\ Old \notin Runs /\ User \notin Runs /\ Old # User
    /\ Verdicts \subseteq Final /\ MaxTroubles \in Nat

VARIABLES
    dir,         \* per directory: is it there, its marker, its index, and the files of
                 \* preflight/ and native/ with the suites' results
    pc,          \* per command: its next step
    why,         \* per command: what the index being published is for
    collected,   \* per command: the status its suites amounted to
    todo,        \* per command: directories its retention has still to look at
    target,      \* per command: the directory it is removing
    listed,      \* per command: what rmtree found in it and has still to unlink
    exit,        \* per command: exit code
    troubles,    \* how much of that has happened
    published,   \* history: commands that have written an index
    shared,      \* history: commands that ran while another one did
    cut          \* history: directories whose removal began and has not ended

marks == <<published, shared, cut>>
mine == <<why, collected, todo, target, listed, exit>>
vars == <<dir, pc, mine, troubles, marks>>

Nowhere == [here |-> FALSE, marker |-> FALSE, index |-> "none", files |-> FALSE]
NoExit == 255   \* a command that has not exited
Traceback == 1  \* the interpreter's exit code for an uncaught exception
Indexes == Final \cup {"incomplete", "none"}

\* _is_run_directory
IsRunDirectory(d) == d.here /\ (d.marker \/ d.index # "none")
Empty(d) == d.here /\ ~d.marker /\ d.index = "none" /\ ~d.files

\* What is directly in a directory, and the directory without one of it.
Entries(d) ==
    {e \in {"marker", "index", "files"} :
        /\ e = "marker" => d.marker
        /\ e = "index" => d.index # "none"
        /\ e = "files" => d.files}
Without(d, e) ==
    CASE e = "marker" -> [d EXCEPT !.marker = FALSE]
      [] e = "index" -> [d EXCEPT !.index = "none"]
      [] e = "files" -> [d EXCEPT !.files = FALSE]

Init ==
    /\ dir = [d \in Dirs |->
                CASE d = Old -> [here |-> TRUE, marker |-> FALSE, index |-> "passed",
                                 files |-> TRUE]
                  [] d = User -> [Nowhere EXCEPT !.here = TRUE, !.files = TRUE]
                  [] OTHER -> Nowhere]
    /\ pc = [r \in Runs |-> "idle"] /\ why = [r \in Runs |-> "final"]
    /\ collected = [r \in Runs |-> "none"]
    /\ todo = [r \in Runs |-> {}] /\ target = [r \in Runs |-> r]
    /\ listed = [r \in Runs |-> {}]
    /\ exit = [r \in Runs |-> NoExit]
    /\ troubles = 0
    /\ published = {} /\ shared = {} /\ cut = {}

Live(r) == pc[r] \notin {"idle", "exited", "dead"}
At(r, p) == pc[r] = p
Goto(r, p) == pc' = [pc EXCEPT ![r] = p]
Exit(r, code) ==
    /\ Goto(r, "exited") /\ exit' = [exit EXCEPT ![r] = code]
    /\ why' = [why EXCEPT ![r] = "final"]
MayFail == troubles < MaxTroubles /\ troubles' = troubles + 1

Write(r, fields) == dir' = [dir EXCEPT ![r] = fields]

-----------------------------------------------------------------------------
(* A command up to its result. *)

\* mark_run_started, its mkdir.
Start(r) ==
    /\ At(r, "idle")
    /\ Write(r, [Nowhere EXCEPT !.here = TRUE])
    /\ Goto(r, "mark")
    /\ shared' = LET others == {o \in Runs \ {r} : Live(o)}
                 IN IF others = {} THEN shared ELSE shared \cup others \cup {r}
    /\ UNCHANGED <<mine, troubles, published, cut>>

\* Mutant: the marker is left to the publication.
MarkRunStartedLater(r) ==
    /\ At(r, "mark") /\ Goto(r, "preflight")
    /\ UNCHANGED <<dir, mine, troubles, marks>>

\* ... and the marker; a write that fails ends the command.
MarkRunStarted(r) ==
    /\ At(r, "mark")
    /\ \/ /\ Write(r, [dir[r] EXCEPT !.here = TRUE, !.marker = TRUE])
          /\ Goto(r, "preflight") /\ UNCHANGED <<why, exit, troubles>>
       \/ MayFail /\ Exit(r, 2) /\ UNCHANGED dir
    /\ UNCHANGED <<collected, todo, target, listed, marks>>

\* The preflight writes into its directory; one that errs is published as an error,
\* and a write of its own that fails ends the command with a traceback.
Preflight(r) ==
    /\ At(r, "preflight")
    /\ \/ /\ Write(r, [dir[r] EXCEPT !.here = TRUE, !.files = TRUE])
          /\ \/ Goto(r, "prepare") /\ UNCHANGED why
             \/ Goto(r, "publish") /\ why' = [why EXCEPT ![r] = "preflight"]
          /\ UNCHANGED <<exit, troubles>>
       \/ MayFail /\ Exit(r, Traceback) /\ UNCHANGED dir
    /\ UNCHANGED <<collected, todo, target, listed, marks>>

\* Ordering, then the coverage plan.
Prepare(r) ==
    /\ At(r, "prepare") /\ Goto(r, "suites")
    /\ UNCHANGED <<dir, mine, troubles, marks>>

\* A suite process writes its result, unless its directory or its manifest
\* cannot be written.
RunSuites(r) ==
    /\ At(r, "suites")
    /\ \/ /\ Write(r, [dir[r] EXCEPT !.here = TRUE, !.files = TRUE])
          /\ Goto(r, "collect") /\ UNCHANGED <<why, exit, troubles>>
       \/ MayFail /\ Exit(r, Traceback) /\ UNCHANGED dir
    /\ UNCHANGED <<collected, todo, target, listed, marks>>

\* Mutant: the status written by the suite process is taken as it is.
CollectVerbatim(r) ==
    /\ At(r, "collect")
    /\ collected' = [collected EXCEPT ![r] = "incomplete"]
    /\ why' = [why EXCEPT ![r] = "final"] /\ Goto(r, "publish")
    /\ UNCHANGED <<dir, todo, target, listed, exit, troubles, marks>>

\* The result is read; a result that is gone is an error of the run.
Collect(r) ==
    /\ At(r, "collect")
    /\ \E s \in IF dir[r].files THEN Verdicts ELSE {"error"} :
          collected' = [collected EXCEPT ![r] = s]
    /\ why' = [why EXCEPT ![r] = "final"]
    /\ Goto(r, "publish")
    /\ UNCHANGED <<dir, todo, target, listed, exit, troubles, marks>>

-----------------------------------------------------------------------------
(* publish_artifact_index: the index, then retention. *)

\* Mutant: an aborted run records what its suites amounted to so far.
StatusPassedOnAbort(r) ==
    CASE why[r] = "final" -> collected[r]
      [] why[r] \in {"again", "preflight"} -> "error"
      [] why[r] = "abort" -> "passed"
      [] OTHER -> "incomplete"

\* The status a publication records.
Status(r) ==
    CASE why[r] = "final" -> collected[r]
      [] why[r] \in {"again", "preflight"} -> "error"
      [] OTHER -> "incomplete"

\* The interrupted run is reported; a run without an index gets one then.
NeedsReport(r) == ~dir[r].here \/ dir[r].index = "none"

\* What follows a publication, by its purpose and by whether it raised.
AfterPublish(r, raised) ==
    CASE why[r] = "final" /\ raised ->
            /\ Goto(r, "publish") /\ why' = [why EXCEPT ![r] = "again"]
            /\ UNCHANGED exit
      [] why[r] = "again" \/ (why[r] = "final" /\ ~raised) ->
            Goto(r, "report") /\ UNCHANGED <<why, exit>>
      [] why[r] = "preflight" -> Exit(r, 2)
      [] why[r] = "abort" ->
            Goto(r, "interrupted") /\ UNCHANGED <<why, exit>>
      [] why[r] = "report" -> Exit(r, 130)

\* Mutant: retention runs before the index is written.
PublishAfterPruning(r) ==
    /\ At(r, "publish")
    /\ todo' = [todo EXCEPT ![r] = {d \in Dirs : dir[d].here} \ {r}]
    /\ Goto(r, "prune")
    /\ UNCHANGED <<dir, why, collected, target, listed, exit, troubles, marks>>

Publish(r) ==
    /\ At(r, "publish")
    /\ \/ /\ Write(r, [dir[r] EXCEPT !.here = TRUE, !.index = Status(r)])
          /\ published' = published \cup {r}
          /\ todo' = [todo EXCEPT ![r] = {d \in Dirs : dir[d].here} \ {r}]
          /\ Goto(r, "prune") /\ UNCHANGED <<why, exit, troubles>>
       \/ MayFail /\ AfterPublish(r, TRUE) /\ UNCHANGED <<dir, todo, published>>
    /\ UNCHANGED <<target, listed, collected, shared, cut>>

\* Mutant: a layout of its own makes a directory a run.
LooksAtChildByLayout(r, d) ==
    /\ todo' = [todo EXCEPT ![r] = @ \ {d}]
    /\ IF dir[d].here
       THEN /\ target' = [target EXCEPT ![r] = d] /\ cut' = cut \cup {d}
            /\ listed' = [listed EXCEPT ![r] = Entries(dir[d])] /\ Goto(r, "remove")
       ELSE UNCHANGED <<target, listed, cut, pc>>

\* _prune_old_runs at one child: rmtree lists a run's directory before it unlinks.
LooksAtChild(r, d) ==
    /\ todo' = [todo EXCEPT ![r] = @ \ {d}]
    /\ IF IsRunDirectory(dir[d])
       THEN /\ target' = [target EXCEPT ![r] = d] /\ cut' = cut \cup {d}
            /\ listed' = [listed EXCEPT ![r] = Entries(dir[d])] /\ Goto(r, "remove")
       ELSE UNCHANGED <<target, listed, cut, pc>>

\* What retention still had to do is left, when something raises in it.
GiveUp(r) ==
    /\ todo' = [todo EXCEPT ![r] = {}] /\ target' = [target EXCEPT ![r] = r]
    /\ listed' = [listed EXCEPT ![r] = {}]

Prune(r) ==
    /\ At(r, "prune")
    /\ \/ \E d \in todo[r] : LooksAtChild(r, d) /\ UNCHANGED <<why, exit, troubles>>
       \/ /\ todo[r] = {} /\ AfterPublish(r, FALSE)
          /\ UNCHANGED <<todo, target, listed, troubles, cut>>
       \/ MayFail /\ AfterPublish(r, TRUE) /\ GiveUp(r) /\ UNCHANGED cut
    /\ UNCHANGED <<dir, collected, published, shared>>

\* rmtree unlinks what it listed, in any order. Of what another command has unlinked
\* meanwhile it raises or not, as Python's versions differ.
UnlinkEntry(r) ==
    /\ \E e \in listed[r] :
          /\ Write(target[r], Without(dir[target[r]], e))
          /\ listed' = [listed EXCEPT ![r] = @ \ {e}]
    /\ UNCHANGED <<pc, why, exit, todo, target, troubles, cut>>

\* It ends with rmdir.
RemoveDirectory(r) ==
    /\ listed[r] = {} /\ Empty(dir[target[r]])
    /\ Write(target[r], Nowhere) /\ cut' = cut \ {target[r]}
    /\ target' = [target EXCEPT ![r] = r] /\ Goto(r, "prune")
    /\ UNCHANGED <<why, exit, todo, listed, troubles>>

\* rmdir raises if the directory is gone, or something was written into it meanwhile.
RemovalRaises(r) ==
    \/ MayFail
    \/ /\ UNCHANGED troubles
       /\ \/ ~ (listed[r] \subseteq Entries(dir[target[r]]))
          \/ listed[r] = {} /\ ~Empty(dir[target[r]])

Remove(r) ==
    /\ At(r, "remove")
    /\ \/ UnlinkEntry(r)
       \/ RemoveDirectory(r)
       \/ RemovalRaises(r) /\ AfterPublish(r, TRUE) /\ GiveUp(r) /\ UNCHANGED <<dir, cut>>
    /\ UNCHANGED <<collected, published, shared>>

\* Reports, then the exit code of the status.
Report(r) ==
    /\ At(r, "report")
    /\ Exit(r, CASE Status(r) = "passed" -> 0 [] Status(r) = "failed" -> 1 [] OTHER -> 2)
    /\ UNCHANGED <<dir, collected, todo, target, listed, troubles, marks>>

\* Mutant: the report of an interrupted run always publishes.
ReportInterruptedRunAlways(r) ==
    /\ At(r, "interrupted")
    /\ Goto(r, "publish") /\ why' = [why EXCEPT ![r] = "report"] /\ UNCHANGED exit
    /\ UNCHANGED <<dir, collected, todo, target, listed, troubles, marks>>

\* _report_interrupted_run
ReportInterruptedRun(r) ==
    /\ At(r, "interrupted")
    /\ IF NeedsReport(r)
       THEN Goto(r, "publish") /\ why' = [why EXCEPT ![r] = "report"] /\ UNCHANGED exit
       ELSE Exit(r, 130)
    /\ UNCHANGED <<dir, collected, todo, target, listed, troubles, marks>>

-----------------------------------------------------------------------------
(* Interrupts and kills. *)

Publishing(r) == pc[r] \in {"publish", "prune", "remove"}

\* Where KeyboardInterrupt is caught: by the orchestrator around the suites, by
\* the command around the preflight and around run_native_tests, and nowhere
\* while it orders the suites, handles another exception or prints its reports.
Interrupt(r) ==
    /\ Live(r) /\ MayFail /\ GiveUp(r)
    /\ CASE pc[r] \in {"suites", "collect"} ->
              Goto(r, "publish") /\ why' = [why EXCEPT ![r] = "abort"] /\ UNCHANGED exit
         [] pc[r] = "prepare" ->
              \/ Goto(r, "interrupted") /\ UNCHANGED <<why, exit>>
              \/ Exit(r, 130)
         [] pc[r] = "preflight" \/ (Publishing(r) /\ why[r] \in {"final", "again", "abort"}) ->
              Goto(r, "interrupted") /\ UNCHANGED <<why, exit>>
         [] OTHER -> Exit(r, 130)
    /\ UNCHANGED <<dir, collected, marks>>

\* What the command had still to do goes with its process.
Kill(r) ==
    /\ Live(r) /\ MayFail /\ GiveUp(r)
    /\ Goto(r, "dead") /\ why' = [why EXCEPT ![r] = "final"]
    /\ UNCHANGED <<dir, collected, exit, marks>>

Step(r) ==
    \/ MarkRunStarted(r) \/ Preflight(r) \/ Prepare(r) \/ RunSuites(r) \/ Collect(r) \/ Publish(r)
    \/ Prune(r) \/ Remove(r) \/ Report(r) \/ ReportInterruptedRun(r)

Over == \A r \in Runs : pc[r] \in {"exited", "dead"}
AllOver == Over /\ UNCHANGED vars

Next == AllOver \/ \E r \in Runs : Start(r) \/ Step(r) \/ Interrupt(r) \/ Kill(r)

Spec == Init /\ [][Next]_vars

-----------------------------------------------------------------------------
(* Properties. *)

\* Every variable has the values a command can give it.
TypeOK ==
    /\ dir \in [Dirs -> [here : BOOLEAN, marker : BOOLEAN, index : Indexes, files : BOOLEAN]]
    /\ \A d \in Dirs : ~dir[d].here => dir[d] = Nowhere
    /\ pc \in [Runs -> {"idle", "mark", "preflight", "prepare", "suites", "collect", "publish",
                        "prune", "remove", "report", "interrupted", "exited", "dead"}]
    /\ why \in [Runs -> {"final", "again", "preflight", "abort", "report"}]
    /\ collected \in [Runs -> Final \cup {"none"}]
    /\ todo \in [Runs -> SUBSET Dirs] /\ target \in [Runs -> Dirs]
    /\ listed \in [Runs -> SUBSET {"marker", "index", "files"}] /\ cut \subseteq Dirs
    /\ exit \in [Runs -> {NoExit, 0, 1, 2, 130}]

\* A run that did not finish is "never mistaken for a finished one": an index
\* that says passed or failed belongs to a run that collected exactly that, from
\* results that were on disk.
FinishedMeansCollected ==
    \A r \in Runs : dir[r].index \in {"passed", "failed"} => collected[r] = dir[r].index

\* The index the orchestrator published is not replaced by the poorer one of
\* the interrupt report, in whichever step the interrupt lands.
RicherIndexKept ==
    [][\A r \in Runs : dir[r].index \in {"passed", "failed"} => dir'[r].index # "incomplete"]_vars

\* The old run's evidence goes only when a newer run has published: "if
\* publication fails, nothing is deleted".
EvidenceOutlivesFailedRuns == IsRunDirectory(dir[Old]) \/ published # {}

\* Whatever the runs do, a directory of the user's is left as it was.
UserDirectoryKept == [][dir'[User] = dir[User]]_vars

\* "Only the latest run is retained": as long as commands take turns, one that
\* exits 0 or 1 with its suites run leaves its own index, no other run that retention
\* could recognise, and of the other runs at most an empty directory or the remains of a
\* removal that was stopped after the marker and the index had gone, however they ended.
LatestRunOnly ==
    [][\A r \in Runs :
          exit[r] = NoExit /\ exit'[r] \in {0, 1} /\ collected[r] # "none" /\ shared = {} =>
          /\ IsRunDirectory(dir'[r]) /\ dir'[r].index = collected[r]
          /\ \A d \in Dirs \ {r, User} :
                /\ ~IsRunDirectory(dir'[d])
                /\ ~dir'[d].here \/ Empty(dir'[d]) \/ d \in cut']_vars
=============================================================================
