------------------------ MODULE CoverageDirectoryProofs ------------------------
(***************************************************************************)
(* For any number of files, contents, edits and commands: a session that   *)
(* reports, reports only what it recorded; a test run that passes --min    *)
(* undisturbed has measured every script with points; a project that no    *)
(* one edits keeps its cached plan; and what was played is reported.       *)
(***************************************************************************)
EXTENDS CoverageDirectory, FiniteSetTheorems, TLAPS

\* What a plan for the project as it is would say.
HashesNow == {<<f, project[f]>> : f \in {g \in Files : project[g] \in Sources}}
HashesOf(entries) == {<<e.path, e.hash>> : e \in entries}
DistinctIds(entries) == \A d, e \in entries : d.id = e.id => d = e

\* A test run or a playtest that is past its preparation.
Sessions == {"suites", "unlink", "launch", "wait"}
InSession == pc \in Sessions \/ (pc = "collect" /\ command.kind # "inspect")

Counted == checked <= edits /\ command.since <= edits

PlanInv ==
    /\ Readable => DistinctIds(plan)
    /\ Readable /\ checked = edits => CachedHashes = HashesNow
    /\ InSession => Readable
    /\ InSession /\ command.since = edits => CachedHashes = HashesNow

MineInv ==
    /\ DistinctIds(mine)
    /\ pc = "write plan" /\ command.since = edits => HashesOf(mine) = HashesNow

PhaseInv ==
    /\ pc \in {"prepare", "write plan"} => command.kind # "inspect"
    /\ pc = "suites" => command.kind = "test"
    /\ pc \in {"unlink", "launch", "wait"} => command.kind = "play"
    /\ pc # "idle" => shown = NothingShown /\ run # 0
    /\ pc \notin {"suites", "collect"} => shards = {} /\ infra = FALSE
    /\ game.phase \in Running => pc = "wait"

ShardsInv ==
    \A t \in shards :
        /\ t.run = run
        /\ \E e \in plan : e.id = t.id /\ e.path = t.path
        /\ command.since = edits => t.source = project[t.path]

CollectInv ==
    pc = "collect" /\ command.kind = "test" => infra \/ coverage = [targets |-> shards, beats |-> 0]

PlayInv ==
    /\ \A t \in game.targets : t.run = run
    /\ pc \in {"launch", "wait", "collect"} /\ command.kind = "play" /\ coverage \notin {None, Torn}
          => \A t \in coverage.targets : t.run = run

IInv ==
    /\ TypeOK /\ Counted /\ PlanInv /\ MineInv /\ PhaseInv /\ ShardsInv
    /\ CollectInv /\ PlayInv /\ OwnReport /\ GatedMeansComplete

\* The files before f that a plan's numbering counts.
Before(f) == {g \in Files : g < f /\ Exists(g)}

\* TypeOK in parts.
DirectoryType ==
    /\ project \in [Files -> Contents] /\ edits \in 0 .. MaxEdits
    /\ plan \in {None, Outdated} \/ plan \subseteq Entries
    /\ coverage \in {None, Torn} \/ coverage \in Data
    /\ checked \in 0 .. MaxEdits
AskedType ==
    /\ run \in 0 .. MaxCommands
    /\ command \in [kind : Kinds, noCache : BOOLEAN, gated : BOOLEAN, since : 0 .. MaxEdits]
LocalType ==
    /\ pc \in {"idle", "prepare", "write plan", "suites", "unlink", "launch", "wait", "collect"}
    /\ mine \subseteq Entries /\ shards \subseteq Targets /\ infra \in BOOLEAN
GameType ==
    game \in [phase : Running \cup {"none", "left", "cut off"}, live : BOOLEAN,
              beats : 0 .. MaxBeats, targets : SUBSET Targets, late : BOOLEAN]
ShownType ==
    shown = NothingShown \/ shown \in
        [verdict : {"error", "failed", "incomplete", "below", "ok"}, data : Data]

LEMMA TypeParts ==
    /\ TypeOK <=> DirectoryType /\ AskedType /\ LocalType /\ GameType /\ ShownType
    /\ TypeOK' <=> DirectoryType' /\ AskedType' /\ LocalType' /\ GameType' /\ ShownType'
BY Zenon DEF TypeOK, DirectoryType, AskedType, LocalType, GameType, ShownType

LEMMA Bounds ==
    NumFiles \in Nat /\ MaxEdits \in Nat /\ MaxCommands \in Nat /\ MaxBeats \in Nat
BY DirectoryAssumption

-----------------------------------------------------------------------------
(* Facts about plans. *)

\* A file's position is a natural number below the number of paths.
LEMMA Position ==
    ASSUME NEW f \in Files
    PROVE  /\ IsFiniteSet(Before(f))
           /\ Cardinality(Before(f)) \in 0 .. NumFiles - 1
<1>1. NumFiles \in Nat /\ f \in 1 .. NumFiles
  BY DirectoryAssumption DEF Files
<1>2. /\ IsFiniteSet(1 .. f - 1)
      /\ Cardinality(1 .. f - 1) = f - 1
  BY <1>1, FS_Interval
<1>3. Before(f) \subseteq 1 .. f - 1
  BY <1>1 DEF Before, Files
<1>4. /\ IsFiniteSet(Before(f))
      /\ Cardinality(Before(f)) <= f - 1
  BY <1>2, <1>3, FS_Subset
<1>5. Cardinality(Before(f)) \in Nat
  BY <1>4, FS_CardinalityType
<1>6. QED
  BY <1>1, <1>4, <1>5

\* Positions grow along the files that exist.
LEMMA PositionsGrow ==
    ASSUME NEW f \in Files, NEW g \in Files, f < g, Exists(f)
    PROVE  Cardinality(Before(f)) # Cardinality(Before(g))
<1>1. f \in Int /\ g \in Int
  BY DirectoryAssumption DEF Files
<1>2. f \notin Before(f)
  BY <1>1 DEF Before
<1>3. Before(f) \cup {f} \subseteq Before(g)
  BY <1>1, DirectoryAssumption DEF Before, Files
<1>4. /\ IsFiniteSet(Before(f)) /\ IsFiniteSet(Before(g))
      /\ Cardinality(Before(f)) \in Nat /\ Cardinality(Before(g)) \in Nat
  BY Position, DirectoryAssumption
<1>5. Cardinality(Before(f) \cup {f}) = Cardinality(Before(f)) + 1
  BY <1>2, <1>4, FS_AddElement
<1>6. Cardinality(Before(f) \cup {f}) <= Cardinality(Before(g))
  BY <1>3, <1>4, FS_Subset
<1>7. QED
  BY <1>4, <1>5, <1>6

\* A fresh plan is well-formed, numbers no two files alike, and knows every
\* script that has points.
LEMMA FreshPlan ==
    ASSUME project \in [Files -> Contents]
    PROVE  /\ Generated \subseteq Entries
           /\ DistinctIds(Generated)
           /\ HashesOf(Generated) = HashesNow
<1> DEFINE Entry(f) == [id |-> Cardinality(Before(f)), path |-> f, hash |-> project[f]]
           Planned == {g \in Files : project[g] \in Sources}
<1>1. Generated = {Entry(f) : f \in Planned}
  BY DEF Generated, Before
<1>2. Generated \subseteq Entries
  <2> SUFFICES ASSUME NEW f \in Planned PROVE Entry(f) \in Entries
    BY <1>1
  <2>1. Cardinality(Before(f)) \in 0 .. NumFiles - 1
    BY Position
  <2>2. QED
    BY <2>1 DEF Entries
<1>3. DistinctIds(Generated)
  <2> SUFFICES ASSUME NEW f \in Planned, NEW g \in Planned, f # g
               PROVE  Cardinality(Before(f)) # Cardinality(Before(g))
    BY <1>1 DEF DistinctIds
  <2>1. Exists(f) /\ Exists(g)
    BY DirectoryAssumption DEF Exists
  <2>2. f < g \/ g < f
    BY DirectoryAssumption DEF Files
  <2>3. QED
    BY <2>1, <2>2, PositionsGrow
<1>4. HashesOf(Generated) = HashesNow
  <2>1. HashesOf(Generated) \subseteq HashesNow
    BY <1>1 DEF HashesOf, HashesNow
  <2>2. ASSUME NEW f \in Planned PROVE <<f, project[f]>> \in HashesOf(Generated)
    <3>1. Entry(f) \in Generated /\ Entry(f).path = f /\ Entry(f).hash = project[f]
      BY <1>1
    <3>2. QED
      BY <3>1 DEF HashesOf
  <2>3. QED
    BY <2>1, <2>2 DEF HashesNow
<1>5. QED
  BY <1>2, <1>3, <1>4

\* The cache hits only on a plan of the project as it is.
LEMMA HitIsCurrent ==
    ASSUME TypeOK, CacheHit
    PROVE  CachedHashes = HashesNow
<1>1. plan \subseteq Entries /\ CurrentHashes = CachedHashes
  BY DEF TypeOK, CacheHit, Readable
<1>2. ASSUME NEW e \in plan PROVE <<e.path, e.hash>> \in HashesNow
  <2>1. e.path \in Files /\ e.hash \in Sources
    BY <1>1 DEF Entries
  <2>2. <<e.path, e.hash>> \in CurrentHashes
    BY <1>1 DEF CachedHashes
  <2>3. e.hash = project[e.path]
    BY <2>2 DEF CurrentHashes
  <2>4. QED
    BY <2>1, <2>3 DEF HashesNow
<1>3. ASSUME NEW f \in Files, project[f] \in Sources PROVE <<f, project[f]>> \in CachedHashes
  <2>1. project[f] \notin {Absent, Broken, Empty}
    BY <1>3, DirectoryAssumption
  <2>2. QED
    BY <1>1, <2>1 DEF CurrentHashes
<1>4. QED
  BY <1>2, <1>3 DEF CachedHashes, HashesNow

\* And it always hits on such a plan.
LEMMA CurrentHits ==
    ASSUME TypeOK, Readable, CachedHashes = HashesNow
    PROVE  CurrentHashes = CachedHashes
<1>1. ASSUME NEW f \in Files, project[f] \notin {Absent, Broken},
             project[f] = Empty => \E e \in plan : e.path = f
      PROVE  project[f] \in Sources
  <2>1. project[f] \in Contents
    BY DEF TypeOK
  <2>2. CASE project[f] = Empty
    <3>1. PICK e \in plan : e.path = f
      BY <1>1, <2>2
    <3>2. <<f, e.hash>> \in HashesNow
      BY <3>1 DEF CachedHashes
    <3>3. QED
      BY <3>2 DEF HashesNow
  <2>3. QED
    BY <1>1, <2>1, <2>2 DEF Contents
<1>2. CurrentHashes \subseteq HashesNow
  BY <1>1 DEF CurrentHashes, HashesNow
<1>3. HashesNow \subseteq CurrentHashes
  BY DirectoryAssumption DEF CurrentHashes, HashesNow
<1>4. QED
  BY <1>2, <1>3

-----------------------------------------------------------------------------
(* The invariant. *)

THEOREM InvInit == Init => IInv
<1> SUFFICES ASSUME Init PROVE IInv
  OBVIOUS
<1>1. TypeOK
  <2>1. DirectoryType /\ AskedType
    BY Bounds DEF Init, DirectoryType, AskedType, Kinds
  <2>2. LocalType /\ ShownType
    BY DEF Init, LocalType, ShownType
  <2>3. GameType
    BY Bounds DEF Init, GameType, NoGame
  <2>4. QED
    BY <2>1, <2>2, <2>3, TypeParts
<1>2. Counted
  BY DEF Init, Counted
<1>3. PlanInv /\ MineInv
  BY DEF Init, PlanInv, MineInv, Readable, InSession, Sessions, DistinctIds
<1>4. PhaseInv /\ ShardsInv /\ CollectInv /\ PlayInv
  BY DEF Init, PhaseInv, ShardsInv, CollectInv, PlayInv, NoGame, Running
<1>5. OwnReport /\ GatedMeansComplete
  BY DEF Init, OwnReport, GatedMeansComplete, Reported
<1>6. QED
  BY <1>1, <1>2, <1>3, <1>4, <1>5 DEF IInv

\* What a session can instrument are targets of its own run.
LEMMA InstrumentableTyping ==
    ASSUME DirectoryType, AskedType, Readable, run # 0
    PROVE  Instrumentable \subseteq Targets
<1>1. run \in 1 .. MaxCommands
  BY Bounds DEF AskedType
<1>2. ASSUME NEW e \in plan PROVE Instrumented(e) \in Targets
  <2>1. e.id \in 0 .. NumFiles - 1 /\ e.path \in Files /\ project[e.path] \in Contents
    BY DEF DirectoryType, Readable, Entries
  <2>2. QED
    BY <1>1, <2>1 DEF Instrumented, Targets
<1>3. QED
  BY <1>2 DEF Instrumentable

\* What the game does keeps its record well-formed.
LEMMA GameTyping ==
    ASSUME TypeOK, PhaseInv, PlanInv, Game
    PROVE  TypeOK'
<1> USE DEF InGame, local, asked
<1>1. DirectoryType /\ AskedType /\ LocalType /\ GameType /\ ShownType
  BY TypeParts
<1>2. AskedType' /\ LocalType' /\ ShownType'
  BY <1>1 DEF Game, Ready, Play, BeginSnapshot, RequestClose, ExitTree, EndSnapshot, Crash,
              AskedType, LocalType, ShownType
<1>3. DirectoryType'
  <2>1. CASE UNCHANGED coverage \/ coverage' = Torn
    BY <1>1, <2>1 DEF Game, Ready, Play, BeginSnapshot, RequestClose, ExitTree, EndSnapshot,
                      Crash, DirectoryType
  <2>2. CASE EndSnapshot
    BY <1>1, <2>2 DEF EndSnapshot, DirectoryType, GameType, Data
  <2>3. QED
    BY <2>1, <2>2 DEF Game, Ready, Play, BeginSnapshot, RequestClose, ExitTree, Crash
<1>4. GameType'
  <2>1. CASE Ready
    <3>1. Instrumentable \subseteq Targets
      BY <1>1, <2>1, InstrumentableTyping DEF Ready, PhaseInv, PlanInv, InSession, Sessions, Running
    <3>2. QED
      BY <1>1, <2>1, <3>1 DEF Ready, GameType, Running
  <2>2. CASE Play
    <3> DEFINE late == ~game.live
    <3>1. late \in BOOLEAN
      OBVIOUS
    <3>2. game' = [game EXCEPT !.beats = @ + 1, !.late = late]
      BY <2>2 DEF Play
    <3>3. game.beats + 1 \in 0 .. MaxBeats
      <4>1. game.beats < MaxBeats
        BY <2>2 DEF Play
      <4>2. game.beats \in 0 .. MaxBeats
        BY <1>1 DEF GameType
      <4>3. QED
        BY <4>1, <4>2, Bounds
    <3> HIDE DEF late
    <3>4. QED
      BY <1>1, <3>1, <3>2, <3>3 DEF GameType
  <2>3. CASE BeginSnapshot \/ RequestClose
    BY <1>1, <2>3 DEF BeginSnapshot, RequestClose, GameType, Running
  <2>4. CASE ExitTree
    BY <1>1, <2>4 DEF ExitTree, GameType, Running
  <2>5. CASE EndSnapshot \/ Crash
    BY <1>1, <2>5 DEF EndSnapshot, Crash, GameType, Running
  <2>6. QED
    BY <2>1, <2>2, <2>3, <2>4, <2>5 DEF Game
<1>5. QED
  BY <1>2, <1>3, <1>4, TypeParts

\* So does what a command does.
LEMMA CommandTyping ==
    ASSUME TypeOK, PhaseInv, PlanInv, Command
    PROVE  TypeOK'
<1> USE DEF Goto, local, asked, directory
<1>1. DirectoryType /\ AskedType /\ LocalType /\ GameType /\ ShownType
  BY TypeParts
<1>2. DirectoryType'
  <2>1. CASE UNCHANGED <<project, edits, directory, checked>>
    BY <1>1, <2>1 DEF DirectoryType
  <2>2. CASE ReuseCachedPlan
    BY <1>1, <2>2 DEF ReuseCachedPlan, DirectoryType
  <2>3. CASE WritePlan
    <3>1. command.since \in 0 .. MaxEdits
      BY <1>1 DEF AskedType
    <3>2. QED
      BY <1>1, <2>3, <3>1 DEF WritePlan, DirectoryType, LocalType
  <2>4. CASE MergeShards
    <3>1. [targets |-> shards, beats |-> 0] \in Data
      <4>1. shards \in SUBSET Targets
        BY <1>1, Zenon DEF LocalType
      <4>2. 0 \in 0 .. MaxBeats
        BY Bounds
      <4>3. QED
        BY <4>1, <4>2 DEF Data
    <3>2. QED
      BY <1>1, <2>4, <3>1 DEF MergeShards, DirectoryType
  <2>5. CASE Unlink
    BY <1>1, <2>5 DEF Unlink, DirectoryType
  <2>6. CASE Report
    <3>1. coverage' \in {coverage, Torn} /\ UNCHANGED <<project, edits, plan, checked>>
      BY <2>6 DEF Report
    <3>2. QED
      BY <1>1, <3>1 DEF DirectoryType
  <2>7. QED
    BY <2>1, <2>2, <2>3, <2>4, <2>5, <2>6
    DEF Command, Start, GeneratePlan, RunSuite, Launch, GameOver
<1>3. AskedType'
  <2>1. CASE UNCHANGED asked
    BY <1>1, <2>1 DEF AskedType
  <2>2. ASSUME NEW kind \in Kinds, Start(kind) PROVE AskedType'
    <3>1. edits \in 0 .. MaxEdits
      BY <1>1 DEF DirectoryType
    <3>2. PICK noCache \in BOOLEAN, gated \in BOOLEAN :
            command' = [kind |-> kind, noCache |-> noCache, gated |-> gated, since |-> edits]
      BY <2>2 DEF Start
    <3>. command' \in [kind : Kinds, noCache : BOOLEAN, gated : BOOLEAN, since : 0 .. MaxEdits]
      BY <3>1, <3>2
    <3>3. run' \in 0 .. MaxCommands
      BY <1>1, <2>2, Bounds DEF Start, AskedType
    <3>4. QED
      BY <3>3 DEF AskedType
  <2>3. QED
    BY <2>1, <2>2 DEF Command, ReuseCachedPlan, GeneratePlan, WritePlan, RunSuite,
                      MergeShards, Unlink, Launch, GameOver, Report
<1>4. LocalType'
  <2>1. CASE UNCHANGED local
    BY <1>1, <2>1 DEF Command, Start, ReuseCachedPlan, GeneratePlan, WritePlan, RunSuite,
                      MergeShards, Unlink, Launch, GameOver, Report, Exit, Prepared, LocalType
  <2>2. CASE GeneratePlan
    BY <1>1, <2>2, FreshPlan DEF GeneratePlan, LocalType, DirectoryType
  <2>3. CASE WritePlan
    BY <1>1, <2>3 DEF WritePlan, Prepared, LocalType
  <2>4. CASE RunSuite
    <3>1. Instrumentable \subseteq Targets
      BY <1>1, <2>4, InstrumentableTyping DEF RunSuite, PhaseInv, PlanInv, InSession, Sessions
    <3>2. QED
      BY <1>1, <2>4, <3>1 DEF RunSuite, LocalType
  <2>5. CASE MergeShards
    BY <1>1, <2>5 DEF MergeShards, LocalType
  <2>6. CASE Report
    BY <2>6 DEF Report, Exit, LocalType
  <2>7. QED
    BY <2>1, <2>2, <2>3, <2>4, <2>5, <2>6 DEF Command, Start, ReuseCachedPlan, Unlink, Launch, GameOver
<1>5. GameType'
  <2>1. NoGame \in [phase : Running \cup {"none", "left", "cut off"}, live : BOOLEAN,
              beats : 0 .. MaxBeats, targets : SUBSET Targets, late : BOOLEAN]
    BY Bounds DEF NoGame
  <2>2. [NoGame EXCEPT !.phase = "booting"]
            \in [phase : Running \cup {"none", "left", "cut off"}, live : BOOLEAN,
              beats : 0 .. MaxBeats, targets : SUBSET Targets, late : BOOLEAN]
    BY <2>1 DEF Running
  <2>3. UNCHANGED game \/ game' = NoGame \/ game' = [NoGame EXCEPT !.phase = "booting"]
    BY DEF Command, Start, ReuseCachedPlan, GeneratePlan, WritePlan, RunSuite, MergeShards,
           Unlink, Launch, GameOver, Report
  <2>4. QED
    BY <1>1, <2>1, <2>2, <2>3 DEF GameType
<1>6. ShownType'
  <2>1. CASE Report
    <3>1. ASSUME coverage \notin {None, Torn}, NEW verdict \in Verdicts(coverage),
                 shown' = [verdict |-> verdict, data |-> coverage]
          PROVE  ShownType'
      <4>1. coverage \in Data
        BY <1>1, <3>1 DEF DirectoryType
      <4>2. verdict \in {"error", "failed", "incomplete", "below", "ok"}
        BY <1>1, <3>1 DEF Verdicts, LocalType
      <4>3. QED
        BY <3>1, <4>1, <4>2 DEF ShownType
    <3>2. CASE UNCHANGED shown
      BY <1>1, <3>2 DEF ShownType
    <3>3. QED
      BY <2>1, <3>1, <3>2 DEF Report
  <2>2. UNCHANGED shown \/ shown' = NothingShown \/ Report
    BY DEF Command, Start, ReuseCachedPlan, GeneratePlan, WritePlan, RunSuite, MergeShards,
           Unlink, Launch, GameOver
  <2>3. QED
    BY <1>1, <2>1, <2>2 DEF ShownType
<1>7. QED
  BY <1>2, <1>3, <1>4, <1>5, <1>6, TypeParts

LEMMA TypeStep ==
    ASSUME TypeOK, PhaseInv, PlanInv, [Next]_vars
    PROVE  TypeOK'
<1> USE DEF local, asked, directory
<1>1. DirectoryType /\ AskedType /\ LocalType /\ GameType /\ ShownType
  BY TypeParts
<1>2. CASE Interrupt
  <2>1. DirectoryType' /\ AskedType' /\ ShownType'
    BY <1>1, <1>2 DEF Interrupt, DirectoryType, AskedType, ShownType
  <2>2. LocalType'
    BY <1>2 DEF Interrupt, Exit, Goto, LocalType
  <2>3. GameType'
    BY <1>1, <1>2 DEF Interrupt, GameType
  <2>4. QED
    BY <2>1, <2>2, <2>3, TypeParts
<1>3. ASSUME NEW f \in Files, Edit(f) PROVE TypeOK'
  <2>1. DirectoryType'
    BY <1>1, <1>3, Bounds DEF Edit, DirectoryType
  <2>2. AskedType' /\ LocalType'
    BY <1>1, <1>3 DEF Edit, AskedType, LocalType
  <2>3. GameType' /\ ShownType'
    BY <1>1, <1>3 DEF Edit, GameType, ShownType
  <2>4. QED
    BY <2>1, <2>2, <2>3, TypeParts
<1>4. CASE UNCHANGED vars
  <2>1. DirectoryType' /\ AskedType' /\ LocalType'
    BY <1>1, <1>4 DEF vars, DirectoryType, AskedType, LocalType
  <2>2. GameType' /\ ShownType'
    BY <1>1, <1>4 DEF vars, GameType, ShownType
  <2>3. QED
    BY <2>1, <2>2, TypeParts
<1>5. QED
  BY <1>2, <1>3, <1>4, CommandTyping, GameTyping DEF Next

\* Where a command can be, and what it then is.
LEMMA PhaseStep ==
    ASSUME IInv, [Next]_vars
    PROVE  PhaseInv'
<1> USE DEF local, asked, directory, Goto, Exit
<1>1. PhaseInv /\ AskedType
  BY TypeParts DEF IInv
<1>2. ASSUME NEW kind \in Kinds, Start(kind) PROVE PhaseInv'
  <2>1. command'.kind = kind /\ run' # 0 /\ shown' = NothingShown
    BY <1>1, <1>2, Bounds DEF Start, AskedType
  <2>2. game'.phase \notin Running
    BY <1>2 DEF Start, NoGame, Running
  <2>3. pc' = IF kind = "inspect" THEN "collect" ELSE "prepare"
    BY <1>2 DEF Start
  <2>4. shards' = {} /\ infra' = FALSE
    BY <1>1, <1>2 DEF Start, PhaseInv
  <2>5. QED
    BY <2>1, <2>2, <2>3, <2>4 DEF PhaseInv
<1>3. CASE ReuseCachedPlan \/ WritePlan
  <2>1. command.kind \in Kinds
    BY <1>1 DEF AskedType
  <2>2. QED
    BY <1>1, <1>3, <2>1 DEF ReuseCachedPlan, WritePlan, Prepared, PhaseInv, Kinds
<1>4. CASE GeneratePlan
  BY <1>1, <1>4 DEF GeneratePlan, PhaseInv
<1>5. CASE RunSuite \/ MergeShards
  BY <1>1, <1>5 DEF RunSuite, MergeShards, PhaseInv
<1>6. CASE Unlink
  BY <1>1, <1>6 DEF Unlink, PhaseInv
<1>7. CASE Launch
  BY <1>1, <1>7 DEF Launch, PhaseInv
<1>8. CASE GameOver
  BY <1>1, <1>8 DEF GameOver, PhaseInv, Running
<1>9. CASE Report
  BY <1>1, <1>9 DEF Report, PhaseInv
<1>10. CASE Game
  <2>1. game.phase \in Running
    BY <1>10 DEF Game, Ready, Play, BeginSnapshot, RequestClose, ExitTree, EndSnapshot, Crash,
               InGame, Running
  <2>2. UNCHANGED <<asked, pc, local, shown>>
    BY <1>10 DEF Game, Ready, Play, BeginSnapshot, RequestClose, ExitTree, EndSnapshot, Crash, InGame
  <2>3. QED
    BY <1>1, <2>1, <2>2 DEF PhaseInv
<1>11. CASE Interrupt
  <2>1. game'.phase \notin Running
    BY <1>11, TypeParts DEF Interrupt, Running, IInv, GameType
  <2>2. pc' = "idle" /\ shards' = {} /\ infra' = FALSE
    BY <1>11 DEF Interrupt
  <2>3. QED
    BY <2>1, <2>2 DEF PhaseInv
<1>12. CASE (\E f \in Files : Edit(f)) \/ UNCHANGED vars
  BY <1>1, <1>12 DEF Edit, vars, PhaseInv
<1>13. QED
  BY <1>2, <1>3, <1>4, <1>5, <1>6, <1>7, <1>8, <1>9, <1>10, <1>11, <1>12 DEF Next, Command

\* History never points past the edits there were.
LEMMA CountedStep ==
    ASSUME IInv, [Next]_vars
    PROVE  Counted'
<1> USE DEF local, asked, directory
<1>1. /\ Counted
      /\ edits \in Nat /\ checked \in Nat /\ command.since \in Nat
  BY TypeParts, Bounds DEF IInv, DirectoryType, AskedType
<1>2. CASE UNCHANGED <<edits, checked, command>>
  BY <1>1, <1>2 DEF Counted
<1>3. ASSUME NEW kind \in Kinds, Start(kind) PROVE Counted'
  <2>1. command'.since = edits /\ UNCHANGED <<edits, checked>>
    BY <1>3 DEF Start
  <2>2. QED
    BY <1>1, <2>1 DEF Counted
<1>4. CASE ReuseCachedPlan \/ WritePlan
  <2>1. UNCHANGED <<edits, command>> /\ checked' \in {edits, command.since}
    BY <1>4 DEF ReuseCachedPlan, WritePlan
  <2>2. QED
    BY <1>1, <2>1 DEF Counted
<1>5. CASE \E f \in Files : Edit(f)
  BY <1>1, <1>5 DEF Edit, Counted
<1>6. QED
  BY <1>2, <1>3, <1>4, <1>5
  DEF Next, Command, GeneratePlan, RunSuite, MergeShards, Unlink, Launch, GameOver, Report, Interrupt,
      Game, Ready, Play, BeginSnapshot, RequestClose, ExitTree, EndSnapshot, Crash, InGame, vars

\* A command has a plan with distinct ids and, undisturbed, the one of the
\* project as it is.
LEMMA PlanStep ==
    ASSUME IInv, [Next]_vars
    PROVE  PlanInv' /\ MineInv'
<1> USE DEF local, asked, directory, Goto, Exit
<1>1. /\ PlanInv /\ MineInv /\ PhaseInv /\ Counted /\ TypeOK
      /\ edits \in Nat /\ checked \in Nat /\ command.since \in Nat
  BY TypeParts, Bounds DEF IInv, DirectoryType, AskedType
<1>2. HashesOf({}) = {} /\ DistinctIds({})
  BY DEF HashesOf, DistinctIds
<1>3. ASSUME UNCHANGED <<project, edits, plan, checked, command, mine>>,
             InSession' => InSession, pc' = "write plan" => pc = "write plan"
      PROVE  PlanInv' /\ MineInv'
  BY <1>1, <1>3 DEF PlanInv, MineInv, Readable, DistinctIds, CachedHashes, HashesNow, HashesOf
<1>4. ASSUME NEW kind \in Kinds, Start(kind) PROVE PlanInv' /\ MineInv'
  <2>1. ~InSession' /\ pc' # "write plan"
    BY <1>4 DEF Start, InSession, Sessions
  <2>2. UNCHANGED <<project, edits, plan, checked, mine>>
    BY <1>4 DEF Start
  <2>3. QED
    BY <1>1, <2>1, <2>2 DEF PlanInv, MineInv, Readable, DistinctIds, CachedHashes, HashesNow, HashesOf
<1>5. CASE ReuseCachedPlan
  <2>1. CachedHashes = HashesNow /\ Readable
    BY <1>1, <1>5, HitIsCurrent DEF ReuseCachedPlan, CacheHit
  <2>2. UNCHANGED <<project, edits, plan, command, mine>> /\ pc' # "write plan"
    BY <1>5 DEF ReuseCachedPlan, Prepared
  <2>3. QED
    BY <1>1, <2>1, <2>2 DEF PlanInv, MineInv, Readable, DistinctIds, CachedHashes, HashesNow, HashesOf
<1>6. CASE GeneratePlan
  <2>1. /\ UNCHANGED <<project, edits, plan, checked, command>>
        /\ ~InSession' /\ mine' = Generated
    BY <1>6 DEF GeneratePlan, InSession, Sessions
  <2>2. DistinctIds(Generated) /\ HashesOf(Generated) = HashesNow
    BY <1>1, FreshPlan DEF TypeOK
  <2>3. PlanInv'
    BY <1>1, <2>1 DEF PlanInv, Readable, DistinctIds, CachedHashes, HashesNow
  <2>4. HashesNow' = HashesNow
    BY <2>1 DEF HashesNow
  <2>5. MineInv'
    BY <2>1, <2>2, <2>4 DEF MineInv, DistinctIds, HashesOf
  <2>6. QED
    BY <2>3, <2>5
<1>7. CASE WritePlan
  <2>1. /\ plan' = mine /\ mine' = {} /\ checked' = command.since
        /\ UNCHANGED <<project, edits, command>> /\ pc = "write plan" /\ pc' # "write plan"
    BY <1>7 DEF WritePlan, Prepared
  <2>2. Readable'
    BY <1>1, <2>1, DirectoryAssumption DEF Readable, TypeOK
  <2>3. DistinctIds(plan)'
    BY <1>1, <2>1 DEF MineInv, DistinctIds
  <2>4. command.since = edits => CachedHashes' = HashesNow'
    BY <1>1, <2>1 DEF MineInv, HashesOf, CachedHashes, HashesNow
  <2>5. PlanInv'
    BY <2>1, <2>2, <2>3, <2>4 DEF PlanInv
  <2>6. MineInv'
    BY <2>1 DEF MineInv, DistinctIds
  <2>7. QED
    BY <2>5, <2>6
<1>8. ASSUME NEW f \in Files, Edit(f) PROVE PlanInv' /\ MineInv'
  <2>1. /\ UNCHANGED <<plan, checked, command, mine, pc>>
        /\ checked # edits' /\ command.since # edits'
    BY <1>1, <1>8 DEF Edit, Counted
  <2>2. QED
    BY <1>1, <2>1 DEF PlanInv, MineInv, Readable, DistinctIds, InSession
<1>9. CASE RunSuite \/ MergeShards \/ Unlink \/ Launch \/ GameOver \/ Report \/ Interrupt
  <2>1. UNCHANGED <<project, edits, plan, checked, command>> /\ pc' # "write plan"
    BY <1>9 DEF RunSuite, MergeShards, Unlink, Launch, GameOver, Report, Interrupt
  <2>2. mine' \in {mine, {}}
    BY <1>9 DEF RunSuite, MergeShards, Unlink, Launch, GameOver, Report, Interrupt
  <2>3. InSession' => InSession
    BY <1>1, <1>9 DEF RunSuite, MergeShards, Unlink, Launch, GameOver, Report, Interrupt, InSession, Sessions
  <2>4. PlanInv'
    BY <1>1, <2>1, <2>3 DEF PlanInv, Readable, DistinctIds, CachedHashes, HashesNow
  <2>5. MineInv'
    BY <1>1, <2>1, <2>2 DEF MineInv, DistinctIds
  <2>6. QED
    BY <2>4, <2>5
<1>10. CASE Game
  BY <1>3, <1>10 DEF Game, Ready, Play, BeginSnapshot, RequestClose, ExitTree, EndSnapshot, Crash,
                     InGame, InSession
<1>11. CASE UNCHANGED vars
  BY <1>3, <1>11 DEF vars, InSession
<1>12. QED
  BY <1>4, <1>5, <1>6, <1>7, <1>8, <1>9, <1>10, <1>11 DEF Next, Command

\* What a test run's suites recorded is its own and fits the plan; what it
\* merged is what they recorded; what a playtest's game recorded is its own.
LEMMA RecordStep ==
    ASSUME IInv, [Next]_vars
    PROVE  ShardsInv' /\ CollectInv' /\ PlayInv'
<1> USE DEF local, asked, directory, Goto, Exit
<1>1. ShardsInv /\ CollectInv /\ PlayInv /\ PhaseInv /\ Counted /\ PlanInv
  BY DEF IInv
<1>2. ASSUME NEW kind \in Kinds, Start(kind) PROVE ShardsInv' /\ CollectInv' /\ PlayInv'
  <2>1. shards' = {} /\ game'.targets = {} /\ command'.kind = kind
    BY <1>1, <1>2 DEF Start, PhaseInv, NoGame
  <2>2. pc' = "collect" => kind = "inspect"
    BY <1>2 DEF Start
  <2>3. pc' \notin {"launch", "wait"}
    BY <1>2 DEF Start
  <2>4. QED
    BY <2>1, <2>2, <2>3 DEF ShardsInv, CollectInv, PlayInv
<1>3. CASE ReuseCachedPlan \/ GeneratePlan \/ WritePlan
  <2>1. shards' = {} /\ UNCHANGED <<game, run>> /\ pc' \notin {"launch", "wait", "collect"}
    BY <1>1, <1>3 DEF ReuseCachedPlan, GeneratePlan, WritePlan, Prepared, PhaseInv
  <2>2. QED
    BY <1>1, <2>1 DEF ShardsInv, CollectInv, PlayInv
<1>4. CASE RunSuite
  <2>1. PICK done \in SUBSET Instrumentable : shards' \subseteq shards \cup done
    BY <1>4 DEF RunSuite
  <2>2. UNCHANGED <<project, edits, plan, coverage, run, command, game>> /\ pc' = "suites"
    BY <1>4 DEF RunSuite
  <2>3. \A t \in Instrumentable : /\ t.run = run
                               /\ \E e \in plan : e.id = t.id /\ e.path = t.path
                               /\ t.source = project[t.path]
    BY DEF Instrumentable, Instrumented
  <2>4. ShardsInv'
    BY <1>1, <2>1, <2>2, <2>3 DEF ShardsInv
  <2>5. QED
    BY <1>1, <2>2, <2>4 DEF CollectInv, PlayInv
<1>5. CASE MergeShards
  <2>1. UNCHANGED <<project, edits, plan, run, command, shards, game>> /\ pc = "suites"
    BY <1>5 DEF MergeShards
  <2>2. infra' = TRUE \/ coverage' = [targets |-> shards, beats |-> 0]
    BY <1>5 DEF MergeShards
  <2>3. ShardsInv' /\ CollectInv'
    BY <1>1, <2>1, <2>2 DEF ShardsInv, CollectInv
  <2>4. PlayInv'
    BY <1>1, <2>1 DEF PlayInv, PhaseInv
  <2>5. QED
    BY <2>3, <2>4
<1>6. CASE Unlink
  <2>1. /\ UNCHANGED <<project, edits, plan, run, command, shards, game>>
        /\ coverage' = None /\ pc' = "launch"
    BY <1>6 DEF Unlink
  <2>2. QED
    BY <1>1, <2>1 DEF ShardsInv, CollectInv, PlayInv
<1>7. CASE Launch
  <2>1. /\ UNCHANGED <<project, edits, plan, coverage, run, command, shards>>
        /\ pc = "launch" /\ pc' # "collect" /\ game'.targets \in {game.targets, {}}
    BY <1>7 DEF Launch, NoGame
  <2>2. QED
    BY <1>1, <2>1 DEF ShardsInv, CollectInv, PlayInv
<1>8. CASE GameOver
  <2>1. UNCHANGED <<project, edits, plan, coverage, run, command, shards, game>> /\ pc = "wait"
    BY <1>8 DEF GameOver
  <2>2. command.kind = "play"
    BY <1>1, <2>1 DEF PhaseInv
  <2>3. QED
    BY <1>1, <2>1, <2>2 DEF ShardsInv, CollectInv, PlayInv
<1>9. CASE Report \/ Interrupt
  <2>1. shards' = {} /\ pc' = "idle" /\ UNCHANGED run /\ coverage' \in {coverage, Torn}
    BY <1>9 DEF Report, Interrupt
  <2>2. game'.targets = game.targets
    BY <1>9, TypeParts DEF Report, Interrupt, IInv, GameType
  <2>3. QED
    BY <1>1, <2>1, <2>2 DEF ShardsInv, CollectInv, PlayInv
<1>10. CASE Game
  <2>1. UNCHANGED <<project, edits, plan, run, command, pc, shards, infra>>
    BY <1>10 DEF Game, Ready, Play, BeginSnapshot, RequestClose, ExitTree, EndSnapshot, Crash, InGame
  <2>2. pc = "wait" /\ command.kind = "play"
    BY <1>1, <1>10 DEF Game, Ready, Play, BeginSnapshot, RequestClose, ExitTree, EndSnapshot, Crash,
                       InGame, Running, PhaseInv
  <2>3. ShardsInv' /\ CollectInv'
    BY <1>1, <2>1, <2>2 DEF ShardsInv, CollectInv
  <2>4. coverage' \in {coverage, Torn, [targets |-> game.targets, beats |-> game.beats]}
    BY <1>10 DEF Game, Ready, Play, BeginSnapshot, RequestClose, ExitTree, EndSnapshot, Crash, InGame
  <2>5. \A t \in game'.targets : t.run = run
    <3>1. CASE Ready
      <4>1. \A t \in Instrumentable : t.run = run
        BY DEF Instrumentable, Instrumented
      <4>2. game'.targets = game.targets \/ game'.targets \subseteq Instrumentable
        BY <3>1, TypeParts DEF Ready, IInv, GameType
      <4>3. QED
        BY <1>1, <4>1, <4>2 DEF PlayInv
    <3>2. CASE Play \/ BeginSnapshot \/ RequestClose \/ ExitTree \/ EndSnapshot \/ Crash
      <4>1. GameType
        BY TypeParts DEF IInv
      <4>2. CASE EndSnapshot
        <5>1. game'.targets = game.targets
          BY <4>1, <4>2 DEF EndSnapshot, GameType
        <5>2. QED
          BY <1>1, <5>1 DEF PlayInv
      <4>3. CASE Play \/ BeginSnapshot \/ RequestClose \/ ExitTree \/ Crash
        <5>1. game'.targets = game.targets
          BY <4>1, <4>3 DEF Play, BeginSnapshot, RequestClose, ExitTree, Crash, GameType
        <5>2. QED
          BY <1>1, <5>1 DEF PlayInv
      <4>4. QED
        BY <3>2, <4>2, <4>3
    <3>3. QED
      BY <1>10, <3>1, <3>2 DEF Game
  <2>6. PlayInv'
    BY <1>1, <2>1, <2>2, <2>4, <2>5 DEF PlayInv
  <2>7. QED
    BY <2>3, <2>6
<1>11. ASSUME NEW f \in Files, Edit(f) PROVE ShardsInv' /\ CollectInv' /\ PlayInv'
  <2>1. UNCHANGED <<plan, coverage, run, command, pc, shards, infra, game>>
    BY <1>11 DEF Edit
  <2>2. command.since # edits'
    BY <1>1, <1>11, TypeParts, Bounds DEF Edit, Counted, IInv, DirectoryType, AskedType
  <2>3. QED
    BY <1>1, <2>1, <2>2 DEF ShardsInv, CollectInv, PlayInv
<1>12. CASE UNCHANGED vars
  BY <1>1, <1>12 DEF vars, ShardsInv, CollectInv, PlayInv
<1>13. QED
  BY <1>2, <1>3, <1>4, <1>5, <1>6, <1>7, <1>8, <1>9, <1>10, <1>11, <1>12 DEF Next, Command

\* The report of a session stands on what it recorded.
LEMMA ReportStep ==
    ASSUME IInv, [Next]_vars
    PROVE  OwnReport' /\ GatedMeansComplete'
<1> USE DEF local, asked, directory, Goto, Exit
<1>1. /\ OwnReport /\ GatedMeansComplete /\ ShardsInv /\ CollectInv /\ PlayInv /\ PlanInv
      /\ PhaseInv /\ Counted
  BY DEF IInv
<1>2. ASSUME shown' = NothingShown PROVE OwnReport' /\ GatedMeansComplete'
  BY <1>2 DEF OwnReport, GatedMeansComplete, Reported
<1>3. CASE UNCHANGED vars
  BY <1>1, <1>3 DEF vars, OwnReport, GatedMeansComplete, Reported
<1>4. ASSUME NEW f \in Files, Edit(f) PROVE OwnReport' /\ GatedMeansComplete'
  <2>1. UNCHANGED <<run, command, shown>>
    BY <1>4 DEF Edit
  <2>2. command.since # edits'
    BY <1>1, <1>4, TypeParts, Bounds DEF Edit, Counted, IInv, DirectoryType, AskedType
  <2>3. QED
    BY <1>1, <2>1, <2>2 DEF OwnReport, GatedMeansComplete, Reported
<1>5. CASE Report
  <2>1. /\ pc = "collect" /\ shown = NothingShown
        /\ UNCHANGED <<project, edits, run, command>>
    BY <1>1, <1>5 DEF Report, PhaseInv
  <2>2. CASE Readable /\ coverage \notin {None, Torn}
    <3>1. PICK verdict \in Verdicts(coverage) : shown' = [verdict |-> verdict, data |-> coverage]
      BY <1>5, <2>2 DEF Report
    <3>2. CASE command.kind = "play"
      <4>1. \A t \in coverage.targets : t.run = run
        BY <1>1, <2>1, <2>2, <3>2 DEF PlayInv
      <4>2. QED
        BY <2>1, <3>1, <3>2, <4>1 DEF OwnReport, GatedMeansComplete, Reported
    <3>3. CASE command.kind = "test"
      <4>1. ASSUME verdict # "error" PROVE ~infra /\ coverage = [targets |-> shards, beats |-> 0]
        BY <1>1, <2>1, <3>1, <3>3, <4>1 DEF Verdicts, CollectInv
      <4>2. OwnReport'
        BY <1>1, <2>1, <3>1, <3>3, <4>1 DEF OwnReport, Reported, ShardsInv
      <4>3. ASSUME command.gated, verdict = "ok", command.since = edits,
                   NEW f \in Files, project[f] \in Sources
            PROVE  \E t \in coverage.targets : t.path = f /\ t.source = project[f]
        <5>1. coverage.targets = shards /\ ~infra
          BY <4>1, <4>3
        <5>2. Omitted(coverage) = {}
          BY <3>1, <3>3, <4>3, <5>1 DEF Verdicts
        <5>3. DistinctIds(plan) /\ CachedHashes = HashesNow
          BY <1>1, <2>1, <3>3, <4>3 DEF PlanInv, InSession
        <5>4. PICK e \in plan : e.path = f
          <6>1. <<f, project[f]>> \in CachedHashes
            BY <4>3, <5>3 DEF HashesNow
          <6>2. QED
            BY <6>1 DEF CachedHashes
        <5>5. PICK t \in shards : t.id = e.id
          BY <5>1, <5>2 DEF Omitted
        <5>6. PICK d \in plan : d.id = t.id /\ d.path = t.path
          BY <1>1 DEF ShardsInv
        <5>7. d = e
          BY <5>3, <5>5, <5>6 DEF DistinctIds
        <5>8. t.source = project[t.path]
          BY <1>1, <4>3 DEF ShardsInv
        <5>9. QED
          BY <5>1, <5>4, <5>6, <5>7, <5>8
      <4>4. GatedMeansComplete'
        BY <2>1, <3>1, <3>3, <4>3 DEF GatedMeansComplete, Reported
      <4>5. QED
        BY <4>2, <4>4
    <3>4. CASE command.kind \notin {"play", "test"}
      BY <2>1, <3>4 DEF OwnReport, GatedMeansComplete, Reported
    <3>5. QED
      BY <3>2, <3>3, <3>4
  <2>3. CASE ~(Readable /\ coverage \notin {None, Torn})
    BY <1>2, <1>5, <2>1, <2>3 DEF Report
  <2>4. QED
    BY <2>2, <2>3
<1>6. CASE Interrupt
  BY <1>1, <1>2, <1>6 DEF Interrupt, PhaseInv
<1>7. CASE Game
  <2>1. pc # "idle" /\ UNCHANGED shown
    BY <1>1, <1>7 DEF Game, Ready, Play, BeginSnapshot, RequestClose, ExitTree, EndSnapshot, Crash,
                      InGame, Running, PhaseInv
  <2>2. QED
    BY <1>1, <1>2, <2>1 DEF PhaseInv
<1>8. ASSUME NEW kind \in Kinds, Start(kind) PROVE OwnReport' /\ GatedMeansComplete'
  BY <1>2, <1>8 DEF Start
<1>9. CASE ReuseCachedPlan \/ GeneratePlan \/ WritePlan \/ RunSuite \/ MergeShards \/ Unlink
              \/ Launch \/ GameOver
  <2>1. pc # "idle" /\ UNCHANGED shown
    BY <1>9 DEF ReuseCachedPlan, GeneratePlan, WritePlan, RunSuite, MergeShards, Unlink, Launch, GameOver
  <2>2. QED
    BY <1>1, <1>2, <2>1 DEF PhaseInv
<1>10. QED
  BY <1>3, <1>4, <1>5, <1>6, <1>7, <1>8, <1>9 DEF Next, Command

-----------------------------------------------------------------------------
(* The theorems. *)

LEMMA InvStep == IInv /\ [Next]_vars => IInv'
<1> SUFFICES ASSUME IInv, [Next]_vars PROVE IInv'
  OBVIOUS
<1>1. TypeOK'
  BY TypeStep DEF IInv
<1>2. PhaseInv' /\ Counted'
  BY PhaseStep, CountedStep
<1>3. PlanInv' /\ MineInv'
  BY PlanStep
<1>4. ShardsInv' /\ CollectInv' /\ PlayInv'
  BY RecordStep
<1>5. OwnReport' /\ GatedMeansComplete'
  BY ReportStep
<1>6. QED
  BY <1>1, <1>2, <1>3, <1>4, <1>5, Zenon DEF IInv

\* The invariant holds in every reachable state.
THEOREM Inductive == Spec => []IInv
BY InvInit, InvStep, PTL DEF Spec

\* Every variable stays in its domain, whatever commands and edits meet.
THEOREM Typing == Spec => []TypeOK
<1>1. IInv => TypeOK
  BY DEF IInv
<1>2. QED
  BY <1>1, Inductive, PTL

\* A session reports only what it recorded: stale data are removed before a
\* playtest, and replaced by a test run or reported with an error.
THEOREM ReportsAreOwn == Spec => []OwnReport
<1>1. IInv => OwnReport
  BY DEF IInv
<1>2. QED
  BY <1>1, Inductive, PTL

\* A test run that passes --min undisturbed measured every script with points.
THEOREM GateIsComplete == Spec => []GatedMeansComplete
<1>1. IInv => GatedMeansComplete
  BY DEF IInv
<1>2. QED
  BY <1>1, Inductive, PTL

\* The plan of a project that nobody edited is reused.
THEOREM PlanIsReused == Spec => SettledProjectHits
<1>1. IInv /\ [Next]_vars =>
          [pc = "prepare" /\ pc' = "write plan" /\ Readable /\ ~command.noCache => checked # edits]_vars
  <2> SUFFICES ASSUME IInv, Next, pc = "prepare", pc' = "write plan", Readable, ~command.noCache,
                      checked = edits
               PROVE  FALSE
    OBVIOUS
  <2>1. ~CacheHit
    BY DEF Next, Command, Start, ReuseCachedPlan, GeneratePlan, WritePlan, RunSuite, MergeShards,
           Unlink, Launch, GameOver, Report, Exit, Goto, Prepared, Interrupt, Edit,
           Game, Ready, Play, BeginSnapshot, RequestClose, ExitTree, EndSnapshot, Crash, InGame
  <2>2. CachedHashes = HashesNow
    BY DEF IInv, PlanInv
  <2>3. CurrentHashes = CachedHashes
    BY <2>2, CurrentHits DEF IInv
  <2>4. QED
    BY <2>1, <2>3 DEF CacheHit
<1>2. QED
  BY <1>1, Inductive, PTL DEF Spec, SettledProjectHits

-----------------------------------------------------------------------------
(* What was played. *)

\* The last write of a game that has stopped measuring holds all it played.
OnDisk == coverage = None \/ (coverage \in Data /\ coverage.beats = game.beats)

Flushed ==
    /\ pc \in {"launch", "wait", "collect"} /\ command.kind = "play" =>
         /\ pc = "launch" => coverage = None
         /\ game.phase = "booting" => coverage = None /\ ~game.late
         /\ (game.phase = "playing" /\ ~game.live) \/ game.phase = "left" => game.late \/ OnDisk
    /\ pc # "idle" /\ pc # "wait" => game.phase \notin Running
    /\ pc \in {"prepare", "write plan", "suites", "unlink", "launch"} => game.phase # "left"

PlayedInv == Flushed /\ PlayedIsReported

\* A command and an interrupt, around the game.
LEMMA FlushedCommand ==
    ASSUME IInv, PlayedInv, Command \/ Interrupt
    PROVE  PlayedInv'
<1>1. PhaseInv /\ TypeOK
  BY DEF IInv
<1>2. ASSUME NEW kind \in Kinds, Start(kind) PROVE PlayedInv'
  BY <1>2 DEF Start, Goto, NoGame, NothingShown, PlayedInv, Flushed, PlayedIsReported, Reported, Running
<1>3. CASE ReuseCachedPlan \/ GeneratePlan \/ WritePlan \/ RunSuite \/ MergeShards
  <2>1. /\ UNCHANGED <<game, shown, command>> /\ shown = NothingShown
        /\ pc \in {"prepare", "write plan", "suites"}
        /\ pc' \in {"prepare", "write plan", "suites", "unlink", "collect"}
        /\ pc' = "collect" => command.kind = "test"
    BY <1>1, <1>3 DEF PhaseInv, ReuseCachedPlan, GeneratePlan, WritePlan, RunSuite, MergeShards, Goto, Prepared, asked
  <2>2. QED
    BY <2>1 DEF PlayedInv, Flushed, PlayedIsReported, Reported
<1>4. CASE Unlink
  BY <1>1, <1>4 DEF PhaseInv, Unlink, Goto, asked, PlayedInv, Flushed, PlayedIsReported, Reported, Running, OnDisk
<1>5. CASE Launch
  <2>1. /\ UNCHANGED <<coverage, shown, command>> /\ shown = NothingShown /\ pc = "launch" /\ command.kind = "play"
        /\ \/ pc' = "wait" /\ game'.phase = "booting" /\ game'.late = FALSE
           \/ pc' = "idle" /\ game' = game
    BY <1>1, <1>5 DEF PhaseInv, Launch, Goto, asked, directory, NoGame
  <2>2. coverage = None
    BY <2>1 DEF PlayedInv, Flushed
  <2>3. QED
    BY <2>1, <2>2 DEF PlayedInv, Flushed, PlayedIsReported, Reported
<1>6. CASE GameOver
  BY <1>1, <1>6 DEF PhaseInv, GameOver, Goto, asked, directory, PlayedInv, Flushed, PlayedIsReported, Reported,
                    Running, OnDisk
<1>7. CASE Report
  <2>1. pc = "collect" /\ pc' = "idle" /\ UNCHANGED <<game, command>> /\ game.phase \notin Running
    BY <1>7 DEF Report, Exit, Goto, asked, PlayedInv, Flushed
  <2>2. UNCHANGED shown \/ (coverage # None /\ shown'.data = coverage)
    BY <1>7 DEF Report
  <2>3. PlayedIsReported'
    BY <1>1, <2>1, <2>2 DEF PhaseInv, PlayedInv, Flushed, PlayedIsReported, Reported, OnDisk
  <2>4. QED
    BY <2>1, <2>3 DEF PlayedInv, Flushed
<1>8. CASE Interrupt
  <2>1. /\ pc # "idle" /\ pc' = "idle" /\ UNCHANGED <<shown, command>> /\ shown = NothingShown
    BY <1>1, <1>8 DEF Interrupt, Exit, Goto, asked, PhaseInv
  <2>2. QED
    BY <2>1 DEF PlayedInv, Flushed, PlayedIsReported, Reported
<1>9. QED
  BY <1>2, <1>3, <1>4, <1>5, <1>6, <1>7, <1>8 DEF Command

\* The game: nothing counts after the flush but what makes it late.
LEMMA FlushedGame ==
    ASSUME IInv, PlayedInv, Game
    PROVE  PlayedInv'
<1>1. PhaseInv /\ TypeOK /\ game.phase \in Running /\ UNCHANGED <<pc, command, shown>>
  BY DEF IInv, Game, Ready, Play, BeginSnapshot, RequestClose, ExitTree, EndSnapshot, Crash, InGame, Running,
         local, asked
<1>2. pc = "wait" /\ pc' = "wait" /\ shown = NothingShown /\ command.kind = "play"
  BY <1>1 DEF PhaseInv
<1>3. PlayedIsReported'
  BY <1>1, <1>2 DEF PlayedIsReported, Reported
<1>4. game \in [phase : Running \cup {"none", "left", "cut off"}, live : BOOLEAN,
                beats : 0 .. MaxBeats, targets : SUBSET Targets, late : BOOLEAN]
      /\ (coverage \in {None, Torn} \/ coverage \in Data)
  BY <1>1 DEF TypeOK
<1>5. CASE Ready
  BY <1>2, <1>3, <1>4, <1>5 DEF Ready, InGame, PlayedInv, Flushed, OnDisk, Running
<1>6. CASE Play
  BY <1>2, <1>3, <1>4, <1>6 DEF Play, InGame, PlayedInv, Flushed, OnDisk, Running
<1>7. CASE BeginSnapshot \/ RequestClose
  BY <1>2, <1>3, <1>4, <1>7 DEF BeginSnapshot, RequestClose, InGame, PlayedInv, Flushed, OnDisk, Running
<1>8. CASE ExitTree
  BY <1>2, <1>3, <1>4, <1>8 DEF ExitTree, InGame, PlayedInv, Flushed, OnDisk, Running
<1>9. CASE EndSnapshot
  <2>1. coverage' \in Data /\ coverage'.beats = game.beats
    BY <1>4, <1>9 DEF EndSnapshot, Data
  <2>2. game' = [game EXCEPT !.phase = IF game.phase = "snapshot" THEN "playing" ELSE "left"]
    BY <1>9 DEF EndSnapshot
  <2>3. OnDisk' /\ game'.phase \in {"playing", "left"}
    BY <1>4, <2>1, <2>2 DEF OnDisk
  <2>4. QED
    BY <1>2, <1>3, <2>3 DEF PlayedInv, Flushed
<1>10. CASE Crash
  BY <1>2, <1>3, <1>4, <1>10 DEF Crash, InGame, PlayedInv, Flushed, Running
<1>11. QED
  BY <1>3, <1>5, <1>6, <1>7, <1>8, <1>9, <1>10 DEF Game, PlayedInv

LEMMA PlayedStep == IInv /\ PlayedInv /\ [Next]_vars => PlayedInv'
<1> SUFFICES ASSUME IInv, PlayedInv, [Next]_vars PROVE PlayedInv'
  OBVIOUS
<1>1. CASE Command \/ Interrupt
  BY <1>1, FlushedCommand
<1>2. CASE Game
  BY <1>2, FlushedGame
<1>3. CASE (\E f \in Files : Edit(f)) \/ UNCHANGED vars
  <2>1. UNCHANGED <<coverage, command, pc, game, shown>>
    BY <1>3 DEF Edit, vars, directory, asked
  <2>2. QED
    BY <2>1 DEF PlayedInv, Flushed, PlayedIsReported, Reported, OnDisk
<1>4. QED
  BY <1>1, <1>2, <1>3 DEF Next

\* A game that ends by itself, also one that asked to close and went on without
\* playing, has its report show all that was played (coverage.gd:155, :162).
THEOREM PlayIsReported == Spec => []PlayedIsReported
<1>1. Init => PlayedInv
  BY DEF Init, NoGame, PlayedInv, Flushed, PlayedIsReported, Reported, Running
<1>2. PlayedInv => PlayedIsReported
  BY DEF PlayedInv
<1>3. QED
  BY <1>1, <1>2, InvInit, InvStep, PlayedStep, PTL DEF Spec
=================================================================================
