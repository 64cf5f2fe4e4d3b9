--------------------------- MODULE RunArtifactsProofs ---------------------------
(***************************************************************************)
(* For any number of commands, interrupts, kills and failing writes: what  *)
(* an index says was collected, a poorer index never replaces it, the old  *)
(* run and the user's directory are not deleted without need, and commands *)
(* that take turns leave the latest run, and of others only what a         *)
(* removal that was stopped has left.                                      *)
(***************************************************************************)
EXTENDS RunArtifacts, TLAPS

\* No command has an index before it publishes, nor at a publication for an
\* interrupt; a final one has collected.
Publication(r) ==
    /\ pc[r] \in {"idle", "mark", "preflight", "prepare", "suites", "collect"} =>
            dir[r].index = "none" /\ collected[r] = "none"
    /\ pc[r] = "publish" /\ why[r] \in {"abort", "report"} => dir[r].index = "none"
    /\ pc[r] \in {"publish", "prune", "remove", "report"} /\ why[r] = "final" => collected[r] \in Final
Finished(r) == dir[r].index \in {"passed", "failed"} => collected[r] = dir[r].index

\* Retention follows an index, and removes neither its own run nor the user's directory.
Retention(r) ==
    /\ pc[r] \in {"prune", "remove"} => published # {}
    /\ pc[r] = "remove" => target[r] \in Dirs \ {r, User}
    /\ todo[r] \subseteq Dirs \ {r}

Safe ==
    /\ \A r \in Runs : Publication(r) /\ Finished(r) /\ Retention(r)
    /\ ~IsRunDirectory(dir[User]) /\ EvidenceOutlivesFailedRuns

\* What retention leaves of a directory it has looked at.
Passed(d) ==
    /\ ~IsRunDirectory(dir[d])
    /\ ~dir[d].here \/ Empty(dir[d]) \/ d \in cut

\* Commands that take turns: files have their run's marker or index, but for the remains
\* of a stopped removal; what a final retention still finds is the directories it has
\* not looked at, and what it is removing is as it listed it, less what it unlinked.
Turns ==
    shared = {} =>
        /\ \A r, o \in Runs : Live(r) /\ Live(o) => r = o
        /\ \A d \in Dirs \ {User} : dir[d].files => dir[d].marker \/ dir[d].index # "none" \/ d \in cut
        /\ \A r \in Runs :
            /\ pc[r] \in {"preflight", "prepare", "suites", "collect"} => dir[r].marker
            /\ pc[r] \in {"prune", "remove", "report"} /\ why[r] = "final" =>
                    dir[r].index = collected[r]
            /\ pc[r] = "prune" => \A d \in Dirs \ {r, User} : d \in todo[r] \/ Passed(d)
            /\ pc[r] = "remove" =>
                    /\ target[r] \in cut /\ dir[target[r]].here
                    /\ Entries(dir[target[r]]) \subseteq listed[r]
                    /\ \A d \in Dirs \ {r, User} : d \in todo[r] \/ d = target[r] \/ Passed(d)
            /\ pc[r] = "report" /\ why[r] = "final" => \A d \in Dirs \ {r, User} : Passed(d)

IInv == TypeOK /\ Safe /\ Turns

Points == {"idle", "mark", "preflight", "prepare", "suites", "collect", "publish",
           "prune", "remove", "report", "interrupted", "exited", "dead"}
Purposes == {"final", "again", "preflight", "abort", "report"}
Codes == {NoExit, 0, 1, 2, 130}
Record == [here : BOOLEAN, marker : BOOLEAN, index : Indexes, files : BOOLEAN]
Names == {"marker", "index", "files"}

\* An artifact root with one old run and a directory of the user's.
LEMMA InvInit == Init => IInv
<1> SUFFICES ASSUME Init PROVE IInv
  OBVIOUS
<1>1. \A r \in Runs : r # Old /\ r # User /\ Old # User
  BY ArtifactsAssumption
<1>2. dir = [d \in Dirs |->
                CASE d = Old -> [here |-> TRUE, marker |-> FALSE, index |-> "passed", files |-> TRUE]
                  [] d = User -> [Nowhere EXCEPT !.here = TRUE, !.files = TRUE]
                  [] OTHER -> Nowhere]
  BY DEF Init
<1> /\ pc = [r \in Runs |-> "idle"] /\ why = [r \in Runs |-> "final"]
    /\ collected = [r \in Runs |-> "none"] /\ todo = [r \in Runs |-> {}]
    /\ target = [r \in Runs |-> r] /\ listed = [r \in Runs |-> {}] /\ cut = {}
    /\ exit = [r \in Runs |-> NoExit]
  BY DEF Init
<1> HIDE DEF Init
<1>3. /\ dir[Old] = [here |-> TRUE, marker |-> FALSE, index |-> "passed", files |-> TRUE]
      /\ dir[User] = [here |-> TRUE, marker |-> FALSE, index |-> "none", files |-> TRUE]
      /\ \A r \in Runs : dir[r] = Nowhere
  <2>1. dir[Old] = [here |-> TRUE, marker |-> FALSE, index |-> "passed", files |-> TRUE]
    BY <1>2, ArtifactsAssumption DEF Dirs
  <2>2. dir[User] = [Nowhere EXCEPT !.here = TRUE, !.files = TRUE]
    <3>1. User \in Dirs /\ User # Old
      BY ArtifactsAssumption DEF Dirs
    <3>2. QED
      BY <1>2, <3>1
  <2>3. ASSUME NEW r \in Runs PROVE dir[r] = Nowhere
    BY <1>1, <1>2 DEF Dirs
  <2>4. QED
    BY <2>1, <2>2, <2>3 DEF Nowhere
<1>4. \A d \in Dirs : dir[d] \in Record /\ (~dir[d].here => dir[d] = Nowhere)
  <2>1. Nowhere \in Record /\ dir[Old] \in Record /\ dir[User] \in Record
    BY <1>3 DEF Record, Indexes, Final, Nowhere
  <2>2. dir[Old].here /\ dir[User].here
    BY <1>3
  <2>3. QED
    BY <1>3, <2>1, <2>2 DEF Dirs
<1>5. TypeOK
  BY <1>2, <1>4 DEF TypeOK, Record, Dirs
<1>6. Safe
  <2>1. \A r \in Runs : dir[r].index = "none" /\ collected[r] = "none" /\ pc[r] = "idle"
    BY <1>3 DEF Nowhere
  <2>2. \A r \in Runs : Publication(r) /\ Finished(r) /\ Retention(r)
    BY <2>1 DEF Publication, Finished, Retention
  <2>3. QED
    BY <1>3, <2>2 DEF Safe, EvidenceOutlivesFailedRuns, IsRunDirectory
<1>7. Turns
  BY <1>1, <1>3 DEF Turns, Live, Dirs, Nowhere
<1>8. QED
  BY <1>5, <1>6, <1>7 DEF IInv

\* Where a publication leads, and why.
LEMMA Afterwards ==
    ASSUME TypeOK, NEW r \in Runs, NEW raised \in BOOLEAN, AfterPublish(r, raised)
    PROVE  /\ pc' \in [Runs -> Points] /\ why' \in [Runs -> Purposes] /\ exit' \in [Runs -> Codes]
           /\ \A o \in Runs \ {r} : pc'[o] = pc[o] /\ why'[o] = why[o] /\ exit'[o] = exit[o]
           /\ pc'[r] \in {"publish", "report", "interrupted", "exited"}
           /\ pc'[r] = "publish" => why'[r] = "again"
           /\ pc'[r] = "report" /\ why'[r] = "final" => ~raised /\ why[r] = "final"
           /\ exit'[r] \in {exit[r], 2, 130}
<1> USE DEF Goto, Exit, AfterPublish
<1>1. pc \in [Runs -> Points] /\ why \in [Runs -> Purposes] /\ exit \in [Runs -> Codes]
  BY DEF TypeOK, Points, Purposes, Codes
<1>2. CASE why[r] = "final" /\ raised
  <2>1. pc' = [pc EXCEPT ![r] = "publish"] /\ why' = [why EXCEPT ![r] = "again"] /\ exit' = exit
    BY <1>2
  <2>2. QED
    BY <1>1, <2>1 DEF Points, Purposes
<1>3. CASE why[r] = "again" \/ (why[r] = "final" /\ ~raised)
  <2>1. pc' = [pc EXCEPT ![r] = "report"] /\ why' = why /\ exit' = exit
    BY <1>3
  <2>2. QED
    BY <1>1, <1>3, <2>1 DEF Points
<1>4. CASE why[r] \in {"preflight", "report"}
  <2>1. PICK code \in {2, 130} :
            /\ pc' = [pc EXCEPT ![r] = "exited"] /\ why' = [why EXCEPT ![r] = "final"]
            /\ exit' = [exit EXCEPT ![r] = code]
    BY <1>4
  <2>2. QED
    BY <1>1, <2>1 DEF Points, Purposes, Codes
<1>5. CASE why[r] = "abort"
  <2>1. pc' = [pc EXCEPT ![r] = "interrupted"] /\ why' = why /\ exit' = exit
    BY <1>5
  <2>2. QED
    BY <1>1, <2>1 DEF Points
<1>6. QED
  BY <1>1, <1>2, <1>3, <1>4, <1>5 DEF Purposes

\* TypeOK, directories and commands apart.
DirsTyped ==
    /\ dir \in [Dirs -> Record] /\ \A d \in Dirs : ~dir[d].here => dir[d] = Nowhere
    /\ cut \subseteq Dirs
CommandsTyped ==
    /\ pc \in [Runs -> Points] /\ why \in [Runs -> Purposes] /\ exit \in [Runs -> Codes]
    /\ collected \in [Runs -> Final \cup {"none"}]
    /\ todo \in [Runs -> SUBSET Dirs] /\ target \in [Runs -> Dirs]
    /\ listed \in [Runs -> SUBSET Names]

LEMMA TypeParts == TypeOK <=> DirsTyped /\ CommandsTyped
BY DEF TypeOK, DirsTyped, CommandsTyped, Points, Purposes, Codes, Record, Names

\* One directory is written, as something that is there or as nothing.
LEMMA Written ==
    ASSUME DirsTyped, NEW d \in Dirs, NEW fields \in Record, fields.here \/ fields = Nowhere,
           Write(d, fields), cut' \subseteq Dirs
    PROVE  DirsTyped' /\ dir'[d] = fields /\ \A e \in Dirs \ {d} : dir'[e] = dir[e]
BY DEF Write, DirsTyped

\* One entry of a directory is unlinked.
LEMMA Unlinked ==
    ASSUME NEW d \in Record, NEW e \in Names
    PROVE  /\ Without(d, e) \in Record /\ Without(d, e).here = d.here
           /\ Without(d, e).index \in {d.index, "none"}
           /\ Without(d, e).marker => d.marker
           /\ Without(d, e).files => d.files
           /\ d = Nowhere => Without(d, e) = Nowhere
           /\ Entries(Without(d, e)) \subseteq Entries(d) \ {e}
<1>1. CASE e = "marker"
  <2>1. Without(d, e) = [d EXCEPT !.marker = FALSE]
    BY <1>1 DEF Without
  <2>2. [d EXCEPT !.marker = FALSE] \in Record /\ (d = Nowhere => [d EXCEPT !.marker = FALSE] = d)
    <3>1. d.marker = FALSE => [d EXCEPT !.marker = FALSE] = d
      BY DEF Record
    <3>2. d = Nowhere => d.marker = FALSE
      BY DEF Nowhere
    <3>3. [d EXCEPT !.marker = FALSE] \in Record
      BY DEF Record
    <3>4. QED
      BY <3>1, <3>2, <3>3
  <2>3. /\ Without(d, e).marker = FALSE
        /\ Without(d, e).here = d.here /\ Without(d, e).index = d.index /\ Without(d, e).files = d.files
    BY <2>1 DEF Record
  <2>4. QED
    BY <1>1, <2>1, <2>2, <2>3 DEF Entries
<1>2. CASE e = "index"
  <2>1. Without(d, e) = [d EXCEPT !.index = "none"]
    BY <1>2 DEF Without
  <2>2. [d EXCEPT !.index = "none"] \in Record /\ (d = Nowhere => [d EXCEPT !.index = "none"] = d)
    BY DEF Record, Nowhere, Indexes
  <2>3. /\ Without(d, e).index = "none"
        /\ Without(d, e).here = d.here /\ Without(d, e).marker = d.marker /\ Without(d, e).files = d.files
    BY <2>1 DEF Record
  <2>4. QED
    BY <1>2, <2>1, <2>2, <2>3 DEF Entries
<1>3. CASE e = "files"
  <2>1. Without(d, e) = [d EXCEPT !.files = FALSE]
    BY <1>3 DEF Without
  <2>2. [d EXCEPT !.files = FALSE] \in Record /\ (d = Nowhere => [d EXCEPT !.files = FALSE] = d)
    <3>1. d.files = FALSE => [d EXCEPT !.files = FALSE] = d
      BY DEF Record
    <3>2. d = Nowhere => d.files = FALSE
      BY DEF Nowhere
    <3>3. [d EXCEPT !.files = FALSE] \in Record
      BY DEF Record
    <3>4. QED
      BY <3>1, <3>2, <3>3
  <2>3. /\ Without(d, e).files = FALSE
        /\ Without(d, e).here = d.here /\ Without(d, e).marker = d.marker /\ Without(d, e).index = d.index
    BY <2>1 DEF Record
  <2>4. QED
    BY <1>3, <2>1, <2>2, <2>3 DEF Entries
<1>4. QED
  BY <1>1, <1>2, <1>3 DEF Names

\* What is left to do is nothing, when something raises.
LEMMA GivenUp ==
    ASSUME CommandsTyped, NEW r \in Runs, GiveUp(r)
    PROVE  /\ todo' \in [Runs -> SUBSET Dirs] /\ target' \in [Runs -> Dirs]
           /\ listed' \in [Runs -> SUBSET Names] /\ todo'[r] = {}
           /\ \A o \in Runs \ {r} : /\ todo'[o] = todo[o] /\ target'[o] = target[o]
                                   /\ listed'[o] = listed[o]
BY DEF GiveUp, CommandsTyped, Dirs, Names

\* Every command step keeps the types.
LEMMA StepTypes ==
    ASSUME TypeOK, [Next]_vars
    PROVE  TypeOK'
<1>1. DirsTyped /\ CommandsTyped
  BY TypeParts
<1> SUFFICES DirsTyped' /\ CommandsTyped'
  BY TypeParts DEF TypeOK, DirsTyped, CommandsTyped, Points, Purposes, Codes, Record, Names
<1>2. ASSUME NEW r \in Runs PROVE r \in Dirs /\ dir[r] \in Record
  BY <1>1 DEF Dirs, DirsTyped
<1>3. cut \subseteq Dirs
  BY <1>1 DEF DirsTyped
<1>a. Nowhere \in Record /\ [Nowhere EXCEPT !.here = TRUE] \in Record
      /\ [Nowhere EXCEPT !.here = TRUE].here
  BY DEF Nowhere, Record, Indexes
<1>4. CASE UNCHANGED vars
  BY <1>1, <1>4 DEF vars, mine, marks, DirsTyped, CommandsTyped
<1>5. ASSUME NEW r \in Runs, Start(r) PROVE DirsTyped' /\ CommandsTyped'
  BY <1>1, <1>2, <1>3, <1>a, <1>5, Written DEF Start, Goto, mine, CommandsTyped, Points
<1>6. ASSUME NEW r \in Runs, MarkRunStarted(r) PROVE DirsTyped' /\ CommandsTyped'
  <2>1. DirsTyped'
    <3>1. CASE Write(r, [dir[r] EXCEPT !.here = TRUE, !.marker = TRUE])
      <4>1. cut' \subseteq Dirs
        BY <1>3, <1>6 DEF MarkRunStarted, marks
      <4>2. QED
        BY <1>1, <1>2, <3>1, <4>1, Written DEF Record
    <3>2. QED
      BY <1>1, <1>6, <3>1 DEF MarkRunStarted, DirsTyped, marks
  <2>2. CommandsTyped'
    BY <1>1, <1>6 DEF MarkRunStarted, Goto, Exit, CommandsTyped, Points, Purposes, Codes
  <2>3. QED
    BY <2>1, <2>2
<1>7. ASSUME NEW r \in Runs, Preflight(r) \/ RunSuites(r) PROVE DirsTyped' /\ CommandsTyped'
  <2>1. DirsTyped'
    <3>1. CASE Write(r, [dir[r] EXCEPT !.here = TRUE, !.files = TRUE])
      <4>1. cut' \subseteq Dirs
        BY <1>3, <1>7 DEF Preflight, RunSuites, marks
      <4>2. QED
        BY <1>1, <1>2, <3>1, <4>1, Written DEF Record
    <3>2. QED
      BY <1>1, <1>7, <3>1 DEF Preflight, RunSuites, DirsTyped, marks
  <2>2. CommandsTyped'
    <3>1. CASE Preflight(r)
      BY <1>1, <3>1 DEF Preflight, Goto, Exit, Traceback, CommandsTyped, Points, Codes, Purposes
    <3>2. CASE RunSuites(r)
      BY <1>1, <3>2 DEF RunSuites, Goto, Exit, Traceback, CommandsTyped, Points, Codes, Purposes
    <3>3. QED
      BY <1>7, <3>1, <3>2
  <2>3. QED
    BY <2>1, <2>2
<1>8. ASSUME NEW r \in Runs, Prepare(r) PROVE DirsTyped' /\ CommandsTyped'
  BY <1>1, <1>8 DEF Prepare, Goto, mine, marks, DirsTyped, CommandsTyped, Points
<1>10. ASSUME NEW r \in Runs, Collect(r) PROVE DirsTyped' /\ CommandsTyped'
  <2>1. \A s \in (IF dir[r].files THEN Verdicts ELSE {"error"}) : s \in Final
    BY ArtifactsAssumption DEF Final
  <2>2. QED
    BY <1>1, <1>10, <2>1 DEF Collect, Goto, marks, DirsTyped, CommandsTyped, Points, Purposes
<1>11. ASSUME NEW r \in Runs, Publish(r) PROVE DirsTyped' /\ CommandsTyped'
  <2>1. Status(r) \in Indexes /\ cut' \subseteq Dirs
    BY <1>1, <1>3, <1>11 DEF Publish, Status, Indexes, Final, CommandsTyped, Purposes
  <2>2. CASE Write(r, [dir[r] EXCEPT !.here = TRUE, !.index = Status(r)])
             /\ todo' = [todo EXCEPT ![r] = {d \in Dirs : dir[d].here} \ {r}]
             /\ Goto(r, "prune") /\ UNCHANGED <<why, exit>>
    <3>1. DirsTyped'
      BY <1>1, <1>2, <2>1, <2>2, Written DEF Record
    <3>2. CommandsTyped'
      BY <1>1, <1>11, <2>2 DEF Publish, Goto, CommandsTyped, Points
    <3>3. QED
      BY <3>1, <3>2
  <2>3. CASE AfterPublish(r, TRUE) /\ UNCHANGED <<dir, todo>>
    BY <1>1, <1>11, <2>1, <2>3, Afterwards DEF Publish, DirsTyped, CommandsTyped
  <2>4. QED
    BY <1>11, <2>2, <2>3 DEF Publish
<1>12. ASSUME NEW r \in Runs, Prune(r) PROVE DirsTyped' /\ CommandsTyped'
  <2>1. ASSUME NEW d \in todo[r], LooksAtChild(r, d), UNCHANGED <<why, exit>>
        PROVE  DirsTyped' /\ CommandsTyped'
    <3>1. d \in Dirs
      BY <1>1 DEF CommandsTyped
    <3>2. DirsTyped'
      BY <1>1, <1>12, <2>1, <3>1 DEF Prune, LooksAtChild, DirsTyped
    <3>3. CommandsTyped'
      BY <1>1, <1>12, <2>1, <3>1 DEF Prune, LooksAtChild, Goto, Entries, CommandsTyped, Points, Names
    <3>4. QED
      BY <3>2, <3>3
  <2>2. ASSUME NEW raised \in BOOLEAN, AfterPublish(r, raised), UNCHANGED cut,
               GiveUp(r) \/ UNCHANGED <<todo, target, listed>>
        PROVE  DirsTyped' /\ CommandsTyped'
    BY <1>1, <1>12, <2>2, Afterwards, GivenUp DEF Prune, DirsTyped, CommandsTyped
  <2>3. QED
    BY <1>12, <2>1, <2>2 DEF Prune
<1>13. ASSUME NEW r \in Runs, Remove(r) PROVE DirsTyped' /\ CommandsTyped'
  <2>1. target[r] \in Dirs /\ r \in Dirs /\ dir[target[r]] \in Record
        /\ (~dir[target[r]].here => dir[target[r]] = Nowhere)
    BY <1>1 DEF CommandsTyped, DirsTyped, Dirs
  <2>2. CASE UnlinkEntry(r)
    <3>1. PICK e \in listed[r] : Write(target[r], Without(dir[target[r]], e))
                                 /\ listed' = [listed EXCEPT ![r] = @ \ {e}]
      BY <2>2 DEF UnlinkEntry
    <3>2. DirsTyped'
      <4>1. /\ Without(dir[target[r]], e) \in Record
            /\ Without(dir[target[r]], e).here \/ Without(dir[target[r]], e) = Nowhere
        BY <1>1, <2>1, Unlinked DEF CommandsTyped
      <4>2. cut' \subseteq Dirs
        BY <1>3, <2>2 DEF UnlinkEntry
      <4>3. QED
        BY <1>1, <2>1, <3>1, <4>1, <4>2, Written
    <3>3. CommandsTyped'
      BY <1>1, <1>13, <2>2, <3>1 DEF Remove, UnlinkEntry, CommandsTyped
    <3>4. QED
      BY <3>2, <3>3
  <2>3. CASE RemoveDirectory(r)
    <3>1. DirsTyped'
      BY <1>1, <1>3, <1>a, <2>1, <2>3, Written DEF RemoveDirectory
    <3>2. CommandsTyped'
      BY <1>1, <1>13, <2>1, <2>3 DEF Remove, RemoveDirectory, Goto, CommandsTyped, Points
    <3>3. QED
      BY <3>1, <3>2
  <2>4. CASE AfterPublish(r, TRUE) /\ GiveUp(r) /\ UNCHANGED <<dir, cut>>
    BY <1>1, <1>13, <2>4, Afterwards, GivenUp DEF Remove, DirsTyped, CommandsTyped
  <2>5. QED
    BY <1>13, <2>2, <2>3, <2>4 DEF Remove
<1>14. ASSUME NEW r \in Runs, Report(r) PROVE DirsTyped' /\ CommandsTyped'
  <2>1. PICK code \in {0, 1, 2} : Exit(r, code)
    BY <1>14 DEF Report
  <2>2. QED
    BY <1>1, <1>14, <2>1
    DEF Report, Exit, Goto, marks, DirsTyped, CommandsTyped, Points, Purposes, Codes
<1>15. ASSUME NEW r \in Runs, ReportInterruptedRun(r) PROVE DirsTyped' /\ CommandsTyped'
  BY <1>1, <1>15
  DEF ReportInterruptedRun, Exit, Goto, marks, DirsTyped, CommandsTyped, Points, Codes, Purposes
<1>16. ASSUME NEW r \in Runs, Interrupt(r) PROVE DirsTyped' /\ CommandsTyped'
  <2>1. /\ pc' \in [Runs -> Points] /\ why' \in [Runs -> Purposes] /\ exit' \in [Runs -> Codes]
    BY <1>1, <1>16 DEF Interrupt, Exit, Goto, CommandsTyped, Points, Codes, Purposes
  <2>2. QED
    BY <1>1, <1>16, <2>1, GivenUp DEF Interrupt, marks, DirsTyped, CommandsTyped
<1>17. ASSUME NEW r \in Runs, Kill(r) PROVE DirsTyped' /\ CommandsTyped'
  <2>1. /\ pc' \in [Runs -> Points] /\ why' \in [Runs -> Purposes]
    BY <1>1, <1>17 DEF Kill, Goto, CommandsTyped, Points, Purposes
  <2>2. QED
    BY <1>1, <1>17, <2>1, GivenUp DEF Kill, marks, DirsTyped, CommandsTyped
<1>18. QED
  BY <1>4, <1>5, <1>6, <1>7, <1>8, <1>10, <1>11, <1>12, <1>13, <1>14, <1>15, <1>16, <1>17
  DEF Next, Step, AllOver

Moves(r) == Start(r) \/ Step(r) \/ Interrupt(r) \/ Kill(r)

\* A step changes its own command and directory; another directory only as retention
\* removes it, entry by entry, and that is never the user's.
LEMMA Locality ==
    ASSUME TypeOK, Safe, NEW r \in Runs, Moves(r)
    PROVE  /\ \A o \in Runs \ {r} :
                /\ pc'[o] = pc[o] /\ why'[o] = why[o] /\ exit'[o] = exit[o]
                /\ collected'[o] = collected[o] /\ todo'[o] = todo[o] /\ target'[o] = target[o]
           /\ \A d \in Dirs \ {r} : dir'[d] = dir[d] \/
                /\ d # User /\ pc[r] = "remove"
                /\ dir'[d].index \in {dir[d].index, "none"}
           /\ published \subseteq published' /\ shared \subseteq shared'
<1>1. DirsTyped /\ CommandsTyped /\ r \in Dirs /\ Retention(r) /\ ~IsRunDirectory(dir[User])
  BY TypeParts DEF Safe, Dirs
<1> USE <1>1 DEF DirsTyped, CommandsTyped, Goto, Exit, Write, At
<1>2. ASSUME NEW raised \in BOOLEAN, AfterPublish(r, raised)
       PROVE  \A o \in Runs \ {r} : pc'[o] = pc[o] /\ why'[o] = why[o] /\ exit'[o] = exit[o]
  BY <1>2, Afterwards
<1>3. CASE Start(r)
  BY <1>3 DEF Start, mine
<1>4. CASE MarkRunStarted(r) \/ Preflight(r) \/ RunSuites(r)
  BY <1>4 DEF MarkRunStarted, Preflight, RunSuites, marks
<1>5. CASE Prepare(r) \/ Collect(r) \/ Report(r) \/ ReportInterruptedRun(r)
  BY <1>5 DEF Prepare, Collect, Report, ReportInterruptedRun, mine, marks
<1>6. CASE Publish(r)
  <2>1. CASE AfterPublish(r, TRUE) /\ UNCHANGED <<dir, todo, published>>
    BY <1>6, <1>2, <2>1 DEF Publish
  <2>2. CASE /\ dir' = [dir EXCEPT ![r] = [dir[r] EXCEPT !.here = TRUE, !.index = Status(r)]]
             /\ published' = published \cup {r} /\ UNCHANGED <<why, exit>>
             /\ todo' = [todo EXCEPT ![r] = {d \in Dirs : dir[d].here} \ {r}]
             /\ pc' = [pc EXCEPT ![r] = "prune"]
    BY <1>6, <2>2 DEF Publish
  <2>3. QED
    BY <1>6, <2>1, <2>2 DEF Publish
<1>7. CASE Prune(r)
  <2>1. CASE \E d \in todo[r] : LooksAtChild(r, d) /\ UNCHANGED <<why, exit>>
    BY <1>7, <2>1 DEF Prune, LooksAtChild
  <2>2. ASSUME NEW raised \in BOOLEAN, AfterPublish(r, raised),
               GiveUp(r) \/ UNCHANGED <<todo, target, listed>>
        PROVE  \A o \in Runs \ {r} :
                /\ pc'[o] = pc[o] /\ why'[o] = why[o] /\ exit'[o] = exit[o]
                /\ todo'[o] = todo[o] /\ target'[o] = target[o]
    BY <1>2, <2>2, GivenUp
  <2>3. QED
    BY <1>7, <2>1, <2>2 DEF Prune
<1>8. CASE Remove(r)
  <2>1. /\ target[r] \in Dirs \ {r, User} /\ pc[r] = "remove" /\ dir[target[r]] \in Record
        /\ collected' = collected /\ published' = published /\ shared' = shared
    BY <1>8 DEF Remove, Retention
  <2>2. CASE UnlinkEntry(r)
    <3>1. PICK e \in listed[r] : dir' = [dir EXCEPT ![target[r]] = Without(dir[target[r]], e)]
      BY <2>2 DEF UnlinkEntry
    <3>2. Without(dir[target[r]], e).index \in {dir[target[r]].index, "none"}
      BY <2>1, Unlinked
    <3>3. QED
      BY <2>1, <2>2, <3>1, <3>2 DEF UnlinkEntry
  <2>3. CASE RemoveDirectory(r)
    BY <2>1, <2>3 DEF RemoveDirectory, Nowhere
  <2>4. CASE AfterPublish(r, TRUE) /\ GiveUp(r) /\ UNCHANGED <<dir, cut>>
    BY <1>2, <2>1, <2>4, GivenUp
  <2>5. QED
    BY <1>8, <2>2, <2>3, <2>4 DEF Remove
<1>9. CASE Interrupt(r)
  <2>1. \A o \in Runs \ {r} : pc'[o] = pc[o] /\ why'[o] = why[o] /\ exit'[o] = exit[o]
    BY <1>9 DEF Interrupt
  <2>2. QED
    BY <1>9, <2>1, GivenUp DEF Interrupt, marks
<1>10. CASE Kill(r)
  BY <1>10, GivenUp DEF Kill, marks
<1>11. QED
  BY <1>3, <1>4, <1>5, <1>6, <1>7, <1>8, <1>9, <1>10 DEF Moves, Step

\* A command's writes before its publication leave its index and its marker.
LEMMA OwnWrite ==
    ASSUME DirsTyped, NEW r \in Runs,
           \/ dir' = dir
           \/ \E f \in {[dir[r] EXCEPT !.here = TRUE, !.marker = TRUE],
                       [dir[r] EXCEPT !.here = TRUE, !.files = TRUE]} : dir' = [dir EXCEPT ![r] = f]
    PROVE  dir'[r].index = dir[r].index /\ (dir[r].marker => dir'[r].marker)
<1>1. dir[r] \in Record /\ r \in Dirs /\ DOMAIN dir = Dirs
  BY DEF DirsTyped, Dirs
<1>2. CASE dir' = dir
  BY <1>2
<1>3. CASE dir' = [dir EXCEPT ![r] = [dir[r] EXCEPT !.here = TRUE, !.marker = TRUE]]
  BY <1>1, <1>3 DEF Record
<1>4. CASE dir' = [dir EXCEPT ![r] = [dir[r] EXCEPT !.here = TRUE, !.files = TRUE]]
  BY <1>1, <1>4 DEF Record
<1>5. QED
  BY <1>2, <1>3, <1>4

\* What a step does to the command that takes it.
LEMMA StepOwn ==
    ASSUME TypeOK, Safe, NEW r \in Runs, Moves(r)
    PROVE  Publication(r)' /\ Finished(r)' /\ Retention(r)'
<1>1. /\ DirsTyped /\ CommandsTyped /\ r \in Dirs /\ dir[r] \in Record
      /\ Publication(r) /\ Finished(r) /\ Retention(r) /\ r # User
  BY TypeParts, ArtifactsAssumption DEF Safe, Dirs, DirsTyped
<1> USE <1>1 DEF DirsTyped, CommandsTyped, Goto, Exit, Write, At, Publication, Finished, Retention
<1>2. ASSUME NEW raised \in BOOLEAN, AfterPublish(r, raised)
       PROVE /\ pc'[r] \in {"publish", "report", "interrupted", "exited"}
             /\ pc'[r] = "publish" => why'[r] = "again"
             /\ pc'[r] = "report" /\ why'[r] = "final" => why[r] = "final"
  BY <1>2, Afterwards
<1>3. CASE Start(r)
  BY <1>3 DEF Start, mine, Nowhere
<1>4. CASE MarkRunStarted(r) \/ Preflight(r) \/ RunSuites(r)
  <2>1. dir'[r].index = dir[r].index /\ collected' = collected /\ todo' = todo
    <3>1. dir' = dir \/ \E f \in {[dir[r] EXCEPT !.here = TRUE, !.marker = TRUE],
                                  [dir[r] EXCEPT !.here = TRUE, !.files = TRUE]} :
                dir' = [dir EXCEPT ![r] = f]
      BY <1>4 DEF MarkRunStarted, Preflight, RunSuites
    <3>2. dir'[r].index = dir[r].index
      BY <3>1, OwnWrite
    <3>3. QED
      BY <1>4, <3>2 DEF MarkRunStarted, Preflight, RunSuites
  <2>2. pc[r] \in {"mark", "preflight", "suites"}
        /\ pc'[r] \in {"preflight", "prepare", "publish", "collect", "exited"}
        /\ (pc'[r] = "publish" => why'[r] = "preflight")
    BY <1>4 DEF MarkRunStarted, Preflight, RunSuites
  <2>3. QED
    BY <2>1, <2>2
<1>5. CASE Prepare(r)
  BY <1>5 DEF Prepare, mine, marks
<1>6. CASE Collect(r)
  <2>1. PICK s \in (IF dir[r].files THEN Verdicts ELSE {"error"}) :
            collected' = [collected EXCEPT ![r] = s]
    BY <1>6 DEF Collect
  <2>2. s \in Final
    BY ArtifactsAssumption DEF Final
  <2>3. QED
    BY <1>6, <2>1, <2>2 DEF Collect, marks, Final
<1>7. CASE Publish(r)
  <2>1. CASE AfterPublish(r, TRUE) /\ UNCHANGED <<dir, todo, published>>
    BY <1>2, <1>7, <2>1 DEF Publish
  <2>2. CASE /\ dir' = [dir EXCEPT ![r] = [dir[r] EXCEPT !.here = TRUE, !.index = Status(r)]]
             /\ published' = published \cup {r} /\ UNCHANGED <<why, exit>>
             /\ todo' = [todo EXCEPT ![r] = {d \in Dirs : dir[d].here} \ {r}]
             /\ pc' = [pc EXCEPT ![r] = "prune"]
    <3>1. collected' = collected /\ pc[r] = "publish"
      BY <1>7 DEF Publish
    <3>2. Status(r) \in {"passed", "failed"} => Status(r) = collected[r]
      BY DEF Status, Purposes
    <3>3. dir'[r].index = Status(r)
      BY <2>2 DEF Record
    <3>4. QED
      BY <2>2, <3>1, <3>2, <3>3
  <2>3. QED
    BY <1>7, <2>1, <2>2 DEF Publish
<1>8. CASE Prune(r)
  <2>1. CASE \E d \in todo[r] : LooksAtChild(r, d) /\ UNCHANGED <<why, exit>>
    <3>1. PICK d \in todo[r] : LooksAtChild(r, d) /\ UNCHANGED <<why, exit>>
      BY <2>1
    <3>2. d \in Dirs \ {r}
      OBVIOUS
    <3>3. CASE IsRunDirectory(dir[d])
      <4>1. d # User
        BY <3>3 DEF Safe
      <4>2. QED
        BY <1>8, <3>1, <3>2, <3>3, <4>1 DEF Prune, LooksAtChild
    <3>4. CASE ~IsRunDirectory(dir[d])
      BY <1>8, <3>1, <3>2, <3>4 DEF Prune, LooksAtChild
    <3>5. QED
      BY <3>3, <3>4
  <2>2. ASSUME NEW raised \in BOOLEAN, AfterPublish(r, raised), UNCHANGED cut,
               GiveUp(r) \/ UNCHANGED <<todo, target, listed>>
        PROVE  Publication(r)' /\ Finished(r)' /\ Retention(r)'
    BY <1>2, <1>8, <2>2, GivenUp DEF Prune
  <2>3. QED
    BY <1>8, <2>1, <2>2 DEF Prune
<1>9. CASE Remove(r)
  <2>1. target[r] \in Dirs \ {r, User} /\ pc[r] = "remove"
        /\ collected' = collected /\ published' = published
    BY <1>9 DEF Remove
  <2>2. CASE UnlinkEntry(r)
    BY <2>1, <2>2 DEF UnlinkEntry
  <2>3. CASE RemoveDirectory(r)
    BY <2>1, <2>3 DEF RemoveDirectory
  <2>4. CASE AfterPublish(r, TRUE) /\ GiveUp(r) /\ UNCHANGED <<dir, cut>>
    BY <1>2, <2>1, <2>4, GivenUp
  <2>5. QED
    BY <1>9, <2>2, <2>3, <2>4 DEF Remove
<1>10. CASE Report(r)
  BY <1>10 DEF Report, marks
<1>14. CASE Kill(r)
  BY <1>14, GivenUp DEF Kill, marks
<1>11. CASE ReportInterruptedRun(r)
  BY <1>11 DEF ReportInterruptedRun, NeedsReport, marks, Nowhere
<1>12. CASE Interrupt(r)
  BY <1>12, GivenUp DEF Interrupt, marks
<1>13. QED
  BY <1>3, <1>4, <1>5, <1>6, <1>7, <1>8, <1>9, <1>10, <1>11, <1>12, <1>14 DEF Moves, Step

\* ... and with Locality, to all.
LEMMA StepSafe ==
    ASSUME TypeOK, Safe, [Next]_vars
    PROVE  Safe'
<1>1. CASE UNCHANGED vars
  BY <1>1 DEF vars, mine, marks, Safe, Publication, Finished, Retention, EvidenceOutlivesFailedRuns
<1>2. ASSUME NEW r \in Runs, Moves(r) PROVE Safe'
  <2>1. ASSUME NEW o \in Runs \ {r}
        PROVE  Publication(o)' /\ Finished(o)' /\ Retention(o)'
    <3>1. Publication(o) /\ Finished(o) /\ Retention(o) /\ o \in Dirs \ {r}
      BY DEF Safe, Dirs
    <3>2. dir'[o].index \in {dir[o].index, "none"}
      BY <1>2, <3>1, Locality
    <3>3. QED
      BY <1>2, <3>1, <3>2, Locality DEF Publication, Finished, Retention
  <2>2. User \in Dirs \ {r} /\ Old \in Dirs \ {r}
    BY ArtifactsAssumption DEF Dirs
  <2>3. dir'[User] = dir[User]
    BY <1>2, <2>2, Locality
  <2>4. EvidenceOutlivesFailedRuns'
    <3>1. dir'[Old] = dir[Old] \/ published # {}
      BY <1>2, <2>2, Locality DEF Safe, Retention
    <3>2. QED
      BY <1>2, <3>1, Locality DEF Safe, EvidenceOutlivesFailedRuns
  <2>5. QED
    BY <1>2, <2>1, <2>3, <2>4, StepOwn DEF Safe
<1>3. QED
  BY <1>1, <1>2 DEF Next, Moves, AllOver

\* Commands that take turns leave each other's directories as the last one left them.
LEMMA StepTurns ==
    ASSUME TypeOK, Safe, Turns, NEW r \in Runs, Moves(r)
    PROVE  Turns'
<1> SUFFICES ASSUME shared' = {} PROVE Turns'
  BY DEF Turns
<1>1. shared = {}
  BY Locality
<1>2. /\ DirsTyped /\ CommandsTyped /\ r \in Dirs \ {User} /\ dir[r] \in Record
      /\ Publication(r) /\ Retention(r)
  BY TypeParts, ArtifactsAssumption DEF Safe, Dirs, DirsTyped
<1>3. \A o \in Runs \ {r} : ~Live(o) /\ ~Live(o)'
  <2>1. \A o \in Runs \ {r} : ~Live(o)
    <3>1. CASE Start(r)
      BY <1>1, <3>1 DEF Start
    <3>2. CASE ~Start(r)
      <4>1. Live(r)
        BY <3>2 DEF Moves, Step, Interrupt, Kill, MarkRunStarted, Preflight, Prepare, RunSuites,
                    Collect, Publish, Prune, Remove, Report, ReportInterruptedRun, At, Live
      <4>2. QED
        BY <1>1, <4>1 DEF Turns
    <3>3. QED
      BY <3>1, <3>2
  <2>2. QED
    BY <2>1, Locality DEF Live
\* What is left to show, about r alone.
<1> DEFINE Marked ==
               \A d \in Dirs \ {User} : dir[d].files => dir[d].marker \/ dir[d].index # "none" \/ d \in cut
           Left == \A d \in Dirs \ {r, User} : d \in todo[r] \/ Passed(d)
           Turn == /\ pc[r] \in {"preflight", "prepare", "suites", "collect"} => dir[r].marker
                   /\ pc[r] \in {"prune", "remove", "report"} /\ why[r] = "final" =>
                           dir[r].index = collected[r]
                   /\ pc[r] = "prune" => Left
                   /\ pc[r] = "remove" =>
                           /\ target[r] \in cut /\ dir[target[r]].here
                           /\ Entries(dir[target[r]]) \subseteq listed[r]
                           /\ \A d \in Dirs \ {r, User} : d \in todo[r] \/ d = target[r] \/ Passed(d)
                   /\ pc[r] = "report" /\ why[r] = "final" => \A d \in Dirs \ {r, User} : Passed(d)
<1>4. Marked /\ Turn
  BY <1>1 DEF Turns
<1>5. SUFFICES Marked' /\ Turn'
  BY <1>3, <1>5 DEF Turns, Live
<1> USE <1>2 DEF DirsTyped, CommandsTyped, Goto, Exit, At
\* A step that writes at most r's own directory.
<1>6. ASSUME \A d \in Dirs \ {r} : dir'[d] = dir[d], cut \subseteq cut'
      PROVE  /\ \A d \in Dirs \ {r} : Passed(d) => Passed(d)'
             /\ (dir'[r].marker \/ dir'[r].index # "none" \/ ~dir'[r].files) => Marked'
  BY <1>4, <1>6 DEF Passed
<1>7. ASSUME dir' = dir, cut \subseteq cut' PROVE Marked' /\ \A d \in Dirs \ {r} : Passed(d) => Passed(d)'
  BY <1>4, <1>7 DEF Passed
<1>8. ASSUME NEW raised \in BOOLEAN, AfterPublish(r, raised)
      PROVE /\ pc'[r] \in {"publish", "report", "interrupted", "exited"}
            /\ pc'[r] = "report" /\ why'[r] = "final" => ~raised /\ why[r] = "final"
  BY <1>8, Afterwards
<1>9. CASE Start(r)
  <2>1. /\ dir' = [dir EXCEPT ![r] = [Nowhere EXCEPT !.here = TRUE]] /\ pc'[r] = "mark" /\ cut' = cut
    BY <1>9 DEF Start, Write
  <2>2. QED
    BY <1>6, <2>1 DEF Nowhere
<1>10. CASE MarkRunStarted(r)
  <2>1. CASE pc'[r] = "preflight"
    <3>1. dir' = [dir EXCEPT ![r] = [dir[r] EXCEPT !.here = TRUE, !.marker = TRUE]] /\ cut' = cut
      BY <1>10, <2>1 DEF MarkRunStarted, Write, marks
    <3>2. dir'[r].marker
      BY <3>1 DEF Record
    <3>3. QED
      BY <1>6, <2>1, <3>1, <3>2
  <2>2. CASE pc'[r] # "preflight"
    BY <1>7, <1>10, <2>2 DEF MarkRunStarted, marks
  <2>3. QED
    BY <2>1, <2>2
<1>11. CASE Preflight(r) \/ RunSuites(r)
  <2>1. /\ dir' = dir \/ dir' = [dir EXCEPT ![r] = [dir[r] EXCEPT !.here = TRUE, !.files = TRUE]]
        /\ cut' = cut
    BY <1>11 DEF Preflight, RunSuites, Write, marks
  <2>2. (dir[r].marker => dir'[r].marker)
    BY <2>1, OwnWrite
  <2>3. pc[r] \in {"preflight", "suites"} /\ pc'[r] \in {"prepare", "collect", "publish", "exited"}
    BY <1>11 DEF Preflight, RunSuites
  <2>4. QED
    BY <1>4, <1>6, <2>1, <2>2, <2>3
<1>12. CASE Prepare(r) \/ Collect(r)
  BY <1>4, <1>7, <1>12 DEF Prepare, Collect, marks
<1>15. CASE Publish(r)
  <2>1. CASE AfterPublish(r, TRUE) /\ UNCHANGED <<dir, cut>>
    BY <1>7, <1>8, <2>1
  <2>2. CASE /\ dir' = [dir EXCEPT ![r] = [dir[r] EXCEPT !.here = TRUE, !.index = Status(r)]]
             /\ todo' = [todo EXCEPT ![r] = {d \in Dirs : dir[d].here} \ {r}]
             /\ why' = why /\ pc' = [pc EXCEPT ![r] = "prune"] /\ collected' = collected
             /\ pc[r] = "publish" /\ cut' = cut
    <3>1. dir'[r].index = Status(r)
      BY <2>2 DEF Record
    <3>2. Status(r) # "none" /\ (why[r] = "final" => Status(r) = collected[r])
      BY <2>2 DEF Status, Publication, Purposes, Final
    <3>3. \A d \in Dirs \ {r, User} : d \in todo'[r] \/ Passed(d)'
      BY <2>2 DEF Passed, IsRunDirectory
    <3>4. QED
      BY <1>6, <2>2, <3>1, <3>2, <3>3
  <2>3. QED
    BY <1>15, <2>1, <2>2 DEF Publish, Write
<1>16. CASE Prune(r)
  <2>1. pc[r] = "prune" /\ collected' = collected /\ dir' = dir
    BY <1>16 DEF Prune
  <2>2. ASSUME NEW d \in todo[r], LooksAtChild(r, d), why' = why PROVE Marked' /\ Turn'
    <3>1. d \in Dirs \ {r} /\ todo'[r] = todo[r] \ {d} /\ cut \subseteq cut'
      BY <2>2 DEF Retention, LooksAtChild
    <3>2. CASE IsRunDirectory(dir[d])
      <4>1. /\ pc'[r] = "remove" /\ target'[r] = d /\ d \in cut' /\ dir[d].here
            /\ listed'[r] = Entries(dir[d])
        BY <2>2, <3>2 DEF LooksAtChild, IsRunDirectory
      <4>2. \A e \in Dirs \ {r, User} : e \in todo'[r] \/ e = d \/ Passed(e)'
        BY <1>4, <1>7, <2>1, <3>1
      <4>3. QED
        BY <1>4, <1>7, <2>1, <2>2, <3>1, <4>1, <4>2
    <3>3. CASE ~IsRunDirectory(dir[d])
      <4>1. pc' = pc
        BY <2>2, <3>3 DEF LooksAtChild
      <4>2. d = User \/ Passed(d)
        BY <1>4, <3>1, <3>3 DEF Passed, Empty, IsRunDirectory
      <4>3. \A e \in Dirs \ {r, User} : e \in todo'[r] \/ Passed(e)'
        BY <1>4, <1>7, <2>1, <3>1, <4>2
      <4>4. QED
        BY <1>4, <1>7, <2>1, <2>2, <3>1, <4>1, <4>3
    <3>4. QED
      BY <3>2, <3>3
  <2>3. CASE AfterPublish(r, TRUE) /\ UNCHANGED cut
    BY <1>7, <1>8, <2>1, <2>3
  <2>4. CASE AfterPublish(r, FALSE) /\ UNCHANGED cut /\ todo[r] = {}
    BY <1>4, <1>7, <1>8, <2>1, <2>4
  <2>5. QED
    BY <1>16, <2>2, <2>3, <2>4 DEF Prune
<1>17. CASE Remove(r)
  <2>0. PICK t : t = target[r]
    OBVIOUS
  <2>1. /\ pc[r] = "remove" /\ t \in Dirs \ {r, User} /\ collected' = collected
        /\ t \in cut /\ dir[t].here /\ dir[t] \in Record
        /\ \A d \in Dirs \ {r, User} : d \in todo[r] \/ d = t \/ Passed(d)
        /\ Entries(dir[t]) \subseteq listed[r]
    BY <1>4, <1>17, <2>0 DEF Remove, Retention
  <2>2. CASE UnlinkEntry(r)
    <3>1. PICK e \in listed[r] :
              /\ dir' = [dir EXCEPT ![t] = Without(dir[t], e)]
              /\ listed' = [listed EXCEPT ![r] = @ \ {e}]
      BY <2>0, <2>2 DEF UnlinkEntry, Write
    <3>2. pc' = pc /\ why' = why /\ todo' = todo /\ target' = target /\ cut' = cut
      BY <2>2 DEF UnlinkEntry
    <3>3. dir'[t] = Without(dir[t], e) /\ \A d \in Dirs \ {t} : dir'[d] = dir[d]
      BY <2>1, <3>1
    <3>4. dir'[t].here /\ Entries(dir'[t]) \subseteq listed'[r]
      <4>1. Without(dir[t], e).here /\ Entries(Without(dir[t], e)) \subseteq Entries(dir[t]) \ {e}
        BY <2>1, Unlinked DEF Names
      <4>2. listed'[r] = listed[r] \ {e}
        BY <3>1
      <4>3. QED
        BY <2>1, <3>3, <4>1, <4>2
    <3>5. Marked'
      BY <1>4, <2>1, <3>2, <3>3
    <3>6. \A d \in Dirs \ {r, User} : d \in todo'[r] \/ d = target'[r] \/ Passed(d)'
      BY <2>0, <2>1, <3>2, <3>3 DEF Passed
    <3>7. QED
      BY <1>4, <2>0, <2>1, <3>2, <3>3, <3>4, <3>5, <3>6
  <2>3. CASE RemoveDirectory(r)
    <3>1. /\ dir' = [dir EXCEPT ![t] = Nowhere] /\ cut' = cut \ {t}
          /\ pc' = [pc EXCEPT ![r] = "prune"] /\ why' = why /\ todo' = todo
      BY <2>0, <2>3 DEF RemoveDirectory, Write
    <3>2. dir'[t] = Nowhere /\ \A d \in Dirs \ {t} : dir'[d] = dir[d]
      BY <2>1, <3>1
    <3>3. Passed(t)' /\ \A d \in Dirs \ {t} : Passed(d) => Passed(d)'
      BY <3>1, <3>2 DEF Passed, IsRunDirectory, Nowhere
    <3>4. Marked'
      BY <1>4, <3>1, <3>2 DEF Nowhere
    <3>5. QED
      BY <1>4, <2>1, <3>1, <3>2, <3>3, <3>4
  <2>4. CASE AfterPublish(r, TRUE) /\ UNCHANGED <<dir, cut>>
    BY <1>7, <1>8, <2>4
  <2>5. QED
    BY <1>17, <2>2, <2>3, <2>4 DEF Remove
<1>18. CASE Report(r) \/ ReportInterruptedRun(r) \/ Interrupt(r) \/ Kill(r)
  <2>1. dir' = dir /\ cut' = cut /\ pc'[r] \in {"publish", "interrupted", "exited", "dead"}
    BY <1>18 DEF Report, ReportInterruptedRun, Interrupt, Kill, marks
  <2>2. QED
    BY <1>7, <2>1
<1>19. QED
  BY <1>9, <1>10, <1>11, <1>12, <1>15, <1>16, <1>17, <1>18 DEF Moves, Step

\* All parts together, in every behaviour.
LEMMA Invariant == Spec => []IInv
<1>1. IInv /\ [Next]_vars => IInv'
  <2>1. CASE IInv /\ UNCHANGED vars
    BY <2>1, StepTypes, StepSafe DEF IInv, Turns, vars, mine, marks, Live, Passed
  <2>2. ASSUME IInv, NEW r \in Runs, Moves(r) PROVE IInv'
    <3>1. [Next]_vars
      BY <2>2 DEF Next, Moves
    <3>2. QED
      BY <2>2, <3>1, StepTypes, StepSafe, StepTurns DEF IInv
  <2>3. QED
    BY <2>1, <2>2 DEF Next, Moves, AllOver
<1>2. QED
  BY InvInit, <1>1, PTL DEF Spec

\* Every variable has the values a command can give it, for any number of commands
\* (native_test/artifacts.py and the command around it).
THEOREM Typing == Spec => []TypeOK
<1>1. IInv => TypeOK
  BY DEF IInv
<1>2. QED
  BY Invariant, <1>1, PTL

\* An index that says passed or failed belongs to a run that collected exactly that,
\* whatever stopped the run and whoever pruned around it (command.py:333).
THEOREM FinishedWasCollected == Spec => []FinishedMeansCollected
<1>1. IInv => FinishedMeansCollected
  BY DEF IInv, Safe, Finished, FinishedMeansCollected
<1>2. QED
  BY Invariant, <1>1, PTL

\* The old run's evidence is deleted only after some newer run has published
\* (ARCHITECTURE.md:1422, artifacts.py:259).
THEOREM EvidenceOutlives == Spec => []EvidenceOutlivesFailedRuns
<1>1. IInv => EvidenceOutlivesFailedRuns
  BY DEF IInv, Safe
<1>2. QED
  BY Invariant, <1>1, PTL

\* No interleaving of retentions touches a directory the user made (artifacts.py:277).
THEOREM UserKept == Spec => UserDirectoryKept
<1>1. ASSUME IInv, [Next]_vars PROVE [dir'[User] = dir[User]]_vars
  <2>1. CASE UNCHANGED vars
    BY <2>1
  <2>2. ASSUME NEW r \in Runs, Moves(r) PROVE dir'[User] = dir[User]
    <3>1. User \in Dirs \ {r}
      BY ArtifactsAssumption DEF Dirs
    <3>2. QED
      BY <1>1, <2>2, <3>1, Locality DEF IInv
  <2>3. QED
    BY <1>1, <2>1, <2>2 DEF Next, Moves, AllOver
<1>2. QED
  BY Invariant, <1>1, PTL DEF Spec, UserDirectoryKept

\* The index of a run that passed or failed is never replaced by the poorer one that
\* an interrupt publishes, wherever the interrupt lands (command.py:455).
THEOREM RicherKept == Spec => RicherIndexKept
<1>1. ASSUME IInv, [Next]_vars
      PROVE  [\A r \in Runs : dir[r].index \in {"passed", "failed"} => dir'[r].index # "incomplete"]_vars
  <2>1. CASE UNCHANGED vars
    BY <2>1
  <2>2. ASSUME NEW o \in Runs, Moves(o), NEW r \in Runs, dir[r].index \in {"passed", "failed"}
        PROVE  dir'[r].index # "incomplete"
    <3>1. TypeOK /\ Safe /\ Publication(r) /\ Retention(r) /\ r \in Dirs /\ DirsTyped
      BY <1>1, TypeParts DEF IInv, Safe, Dirs
    <3>2. CASE o # r
      BY <2>2, <3>1, <3>2, Locality
    <3>3. CASE o = r /\ Publish(r)
      <4>1. DirsTyped /\ CommandsTyped /\ pc[r] = "publish"
        BY <3>1, <3>3, TypeParts DEF Publish, At
      <4>2. Status(r) # "incomplete"
        BY <2>2, <3>1, <4>1 DEF Status, Publication, CommandsTyped, Purposes, Final
      <4>3. dir' = dir \/ dir'[r].index = Status(r)
        BY <3>1, <3>3, <4>1 DEF Publish, Write, DirsTyped, Record
      <4>4. QED
        BY <2>2, <4>2, <4>3
    <3>4. CASE o = r /\ ~Publish(r)
      <4>1. pc[r] \notin {"idle", "mark", "preflight", "suites"}
        BY <2>2, <3>1 DEF Publication
      <4>2. dir'[r] = dir[r]
        <5>1. CASE Prune(r)
          BY <5>1 DEF Prune
        <5>2. CASE Remove(r)
          BY <3>1, <5>2 DEF Remove, UnlinkEntry, RemoveDirectory, Write, Retention, At, DirsTyped
        <5>3. CASE ~Prune(r) /\ ~Remove(r)
          BY <2>2, <3>4, <4>1, <5>3
          DEF Moves, Step, Start, MarkRunStarted, Preflight, Prepare, RunSuites, Collect, Report,
              ReportInterruptedRun, Interrupt, Kill, At
        <5>4. QED
          BY <5>1, <5>2, <5>3
      <4>3. QED
        BY <2>2, <4>2
    <3>5. QED
      BY <3>2, <3>3, <3>4
  <2>3. QED
    BY <1>1, <2>1, <2>2 DEF Next, Moves, AllOver
<1>2. QED
  BY Invariant, <1>1, PTL DEF Spec, RicherIndexKept

\* As long as commands take turns, one that ends with its suites run leaves its own
\* index and no other run that retention could tell, and nothing of one but the remains
\* of a removal that was stopped (artifacts.py:259 and 274).
THEOREM LatestOnly == Spec => LatestRunOnly
<1> DEFINE Ends(r) == exit[r] = NoExit /\ exit'[r] \in {0, 1} /\ collected[r] # "none" /\ shared = {}
           Latest(r) ==
                /\ IsRunDirectory(dir'[r]) /\ dir'[r].index = collected[r]
                /\ \A d \in Dirs \ {r, User} :
                      /\ ~IsRunDirectory(dir'[d])
                      /\ ~dir'[d].here \/ Empty(dir'[d]) \/ d \in cut'
<1>1. ASSUME IInv, [Next]_vars
      PROVE  [\A r \in Runs : Ends(r) => Latest(r)]_vars
  <2>1. CASE UNCHANGED vars
    BY <2>1
  <2>2. ASSUME NEW o \in Runs, Moves(o), NEW r \in Runs, exit[r] = NoExit, exit'[r] \in {0, 1},
               collected[r] # "none", shared = {}
        PROVE  Latest(r)
    <3>1. TypeOK /\ Safe /\ Publication(r) /\ r \in Dirs /\ Turns /\ DirsTyped /\ CommandsTyped
      BY <1>1, TypeParts DEF IInv, Safe, Dirs
    <3>2. o = r
      BY <2>2, <3>1, Locality DEF NoExit
    <3>3. exit'[r] \notin {exit[r], 2, 130}
      BY <2>2 DEF NoExit
    <3>4. Report(r)
      <4>1. \A raised \in BOOLEAN : ~AfterPublish(r, raised)
        BY <3>1, <3>3, Afterwards
      <4>2. pc[r] \notin {"idle", "mark", "preflight", "prepare", "suites", "collect"}
        BY <2>2, <3>1 DEF Publication
      <4>3. ~Publish(r) /\ ~Prune(r) /\ ~Remove(r)
        BY <3>3, <4>1 DEF Publish, Prune, Remove, UnlinkEntry, RemoveDirectory
      <4>4. ~Interrupt(r) /\ ~ReportInterruptedRun(r) /\ ~Kill(r)
        BY <3>1, <3>3 DEF Interrupt, ReportInterruptedRun, Kill, mine, Exit, CommandsTyped
      <4>5. QED
        BY <2>2, <3>2, <4>2, <4>3, <4>4
        DEF Moves, Step, Start, MarkRunStarted, Preflight, Prepare, RunSuites, Collect, At
    <3>5. pc[r] = "report" /\ dir' = dir /\ cut' = cut
      BY <3>4 DEF Report, At, marks
    <3>6. why[r] = "final"
      BY <3>1, <3>3, <3>4, <3>5 DEF Report, Exit, Status, CommandsTyped, Purposes
    <3>7. collected[r] \in Final /\ dir[r].index = collected[r] /\ dir[r].here
      BY <2>2, <3>1, <3>5, <3>6 DEF Publication, Turns, DirsTyped, Nowhere, Final
    <3>8. QED
      BY <2>2, <3>1, <3>5, <3>6, <3>7 DEF Turns, Passed, IsRunDirectory, Final
  <2>3. QED
    BY <1>1, <2>1, <2>2 DEF Next, Moves, AllOver
<1>2. QED
  BY Invariant, <1>1, PTL DEF Spec, LatestRunOnly
=============================================================================
