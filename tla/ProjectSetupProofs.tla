--------------------------- MODULE ProjectSetupProofs ---------------------------
(***************************************************************************)
(* For any versions, layouts, suites, settings and edits, and wherever     *)
(* commands are stopped: what the user made of a managed file is in the    *)
(* file or in its backup, what the user wrote into gd-tools.toml stays     *)
(* there, an addon that passes the gate is whole but for two ways round    *)
(* it, and two `migrate --apply' that complete leave nothing that the      *)
(* rewrite could change.                                                   *)
(*                                                                         *)
(* The first two need the state of the files only.  The other two need the *)
(* steps a command still has before it: what the sequences hold that init  *)
(* and migrate plan is proved first.                                       *)
(***************************************************************************)
EXTENDS ProjectSetup, FiniteSetTheorems, TLAPS

\* TypeOK in parts, one per group of actions.
AddonType ==
    /\ installed \in Versions
    /\ disk \in [ManagedFiles -> Contents] /\ bak \in [ManagedFiles -> Contents]
    /\ stamp \in [Addons -> Versions \cup {Absent, Torn}]
    /\ edit \in [ManagedFiles -> Edits \cup {Absent, None}]
    /\ opened \in [Addons -> {0, Blind} \cup Versions]
ProjectType ==
    /\ toml \in Settings \cup {None, Broken} /\ wish \in Settings
    /\ suites \in [Suites -> Kinds] /\ gut \in Gutconfigs
    /\ filled \in BOOLEAN
CommandType ==
    /\ running \in {"nothing", "init", "apply", "config only"}
    /\ half \in {"look", "backing up", "backed up", "copying", "stamping", "saving", "rewriting"}
    /\ config \in [Keys -> Values]

\* A migrate that completed, or is under way, was counted as a command.
Counting ==
    /\ counts \in [{"edits", "commands"} -> Nat] /\ counts["commands"] <= MaxCommands
    /\ applies \in Nat /\ applies <= counts["commands"]
    /\ running = "apply" => applies < counts["commands"]

\* Between commands nothing is to be done, and what is not to be done is not half done.
Resting == (Idle => todo = << >>) /\ (todo = << >> => half = "look")

\* A copy is torn while it is made; a file is overwritten only when its copy is
\* complete, and is torn meanwhile.
HalfDone ==
    /\ half = "backing up" /\ File \in ManagedFiles => bak[File] = Torn
    /\ half = "backed up" /\ File \in ManagedFiles => bak[File] = disk[File]
    /\ half = "copying" /\ File \in ManagedFiles => disk[File] = Torn

\* What a running command will save has every setting the user wrote ...
Carried == ~Idle => \A k \in Keys : wish[k] # Unset => config[k] = wish[k]

\* ... and what is there has it, unless it is being written.
Written ==
    half # "saving" => \A k \in Keys : wish[k] # Unset =>
        toml \notin {None, Broken} /\ toml[k] = wish[k]

Types == AddonType /\ ProjectType /\ CommandType /\ Counting /\ Resting
IInv == Types /\ HalfDone /\ EditKept /\ Carried /\ Written

\* Names of the assumption's parts.
LEMMA Assumed ==
    /\ MaxCommands \in Nat /\ Default \in [Keys -> Values]
    /\ Gutconfigs \subseteq Settings \cup {None}
    /\ \A t \in Settings : t \notin {None, Broken}
    /\ SuiteStarts \subseteq [Suites -> Kinds]
    /\ Absent \notin Edits /\ Torn \notin Edits /\ None \notin Edits
    /\ \A v \in Versions : v \notin Edits
  BY SetupAssumption DEF Kinds

LEMMA AssumedOfFiles ==
    /\ \A f \in ManagedFiles : f[1] \in Addons
    /\ Gated \subseteq Addons
    /\ Blind # 0 /\ \A v \in Versions : v \notin {Blind, Absent, Torn, None, 0} /\ v \in Nat
    /\ Absent \notin Edits /\ None \notin Edits
<1>1. NumVersions \in Nat
  BY SetupAssumption
<1>2. \A v \in Versions : v \in Nat /\ v # 0
  BY <1>1 DEF Versions
<1>3. QED
  BY <1>2, SetupAssumption, Zenon

LEMMA AssumedOfSettings ==
    /\ "dirs" \in Keys /\ Default \in [Keys -> Values] /\ Unset \notin Values
    /\ Gutconfigs \subseteq Settings \cup {None}
    /\ \A t \in Settings : t \notin {None, Broken}
  BY SetupAssumption

\* The parts and the count are TypeOK.
LEMMA Parts == Types => TypeOK
<1> SUFFICES ASSUME Types PROVE TypeOK
  OBVIOUS
<1>1. applies \in 0 .. MaxCommands
  BY Assumed DEF Types, Counting
<1>2. QED
  BY <1>1 DEF Types, TypeOK, AddonType, ProjectType, CommandType

\* A project before its first gd-tools init.
LEMMA InvInit == Init => IInv
<1> SUFFICES ASSUME Init PROVE IInv
  OBVIOUS
<1> USE Assumed DEF Init
<1>1. AddonType
  BY DEF AddonType, Contents
<1>2. ProjectType
  BY DEF ProjectType, Settings, Empty
<1>3. CommandType /\ Counting /\ Resting
  BY DEF CommandType, Counting, Resting, Idle
<1>4. HalfDone /\ EditKept /\ Carried
  BY DEF HalfDone, EditKept, Carried, Idle
<1>5. Written
  BY DEF Written, Empty
<1>6. QED
  BY <1>1, <1>2, <1>3, <1>4, <1>5 DEF IInv, Types

\* No step leaves its domain, and no count its bound.
LEMMA StepTypes ==
    ASSUME Types, [Next]_vars
    PROVE  Types'
<1>1. AddonType /\ ProjectType /\ CommandType /\ Counting /\ Resting
  BY DEF Types
<1>2. AddonType'
  <2>1. CASE UNCHANGED <<installed, disk, bak, stamp, edit, opened>>
    BY <1>1, <2>1 DEF AddonType
  <2>2. CASE BackUpBegins
    BY <1>1, <2>2 DEF BackUpBegins, AddonType, Contents
  <2>3. CASE BackUpEnds
    <3>1. bak' \in [ManagedFiles -> Contents]
      BY <1>1, <2>3 DEF BackUpEnds, AddonType
    <3>2. QED
      BY <1>1, <2>3, <3>1 DEF BackUpEnds, AddonType, history
  <2>4. CASE CopyBegins
    BY <1>1, <2>4 DEF CopyBegins, AddonType, Contents, Opens
  <2>5. CASE CopyEnds
    BY <1>1, <2>5 DEF CopyEnds, AddonType, Contents, history
  <2>6. CASE RemoveStale
    BY <1>1, <2>6 DEF RemoveStale, AddonType, Contents, Opens
  <2>7. CASE StampBegins
    BY <1>1, <2>7 DEF StampBegins, AddonType, history
  <2>8. CASE StampEnds
    BY <1>1, <2>8 DEF StampEnds, AddonType
  <2>9. CASE Install
    BY <1>1, <2>9 DEF Install, AddonType, history, addons
  <2>10. ASSUME NEW f \in ManagedFiles, EditFile(f) PROVE AddonType'
    BY <1>1, <2>10 DEF EditFile, AddonType, Contents
  <2>11. CASE RunInit \/ SaveBegins \/ SaveEnds \/ RewriteBegins \/ RewriteEnds
                \/ Finish \/ Stop \/ Repair
    BY <2>1, <2>11 DEF RunInit, SaveBegins, SaveEnds, RewriteBegins, RewriteEnds, Finish, Stop,
                      Repair, addons, history
  <2>12. ASSUME NEW configOnly \in BOOLEAN, Migrate(configOnly) PROVE AddonType'
    BY <2>1, <2>12 DEF Migrate, addons, history
  <2>13. ASSUME NEW k \in Keys, Set(k) PROVE AddonType'
    BY <2>1, <2>13 DEF Set, addons
  <2>14. ASSUME NEW s \in Suites, EditSuite(s) PROVE AddonType'
    BY <2>1, <2>14 DEF EditSuite, addons
  <2>15. CASE UNCHANGED vars
    BY <2>1, <2>15 DEF vars, addons, history
  <2>16. QED
    BY <2>2, <2>3, <2>4, <2>5, <2>6, <2>7, <2>8, <2>9, <2>10, <2>11, <2>12, <2>13, <2>14, <2>15
    DEF Next
<1>3. ProjectType'
  <2>1. CASE UNCHANGED <<toml, wish, suites, gut, filled>>
    BY <1>1, <2>1 DEF ProjectType
  <2>2. CASE SaveBegins
    BY <1>1, <2>2 DEF SaveBegins, ProjectType, Settings, Empty
  <2>3. CASE SaveEnds
    <3>1. toml' \in Settings
      BY <1>1, <2>3 DEF SaveEnds, CommandType, Settings
    <3>2. QED
      BY <1>1, <2>3, <3>1 DEF SaveEnds, ProjectType
  <2>4. CASE RewriteBegins \/ RewriteEnds
    <3>1. suites' \in [Suites -> Kinds]
      BY <1>1, <2>4 DEF RewriteBegins, RewriteEnds, ProjectType, Kinds
    <3>2. QED
      BY <1>1, <2>4, <3>1 DEF RewriteBegins, RewriteEnds, ProjectType, history
  <2>5. CASE Stop
    BY <1>1, <2>5 DEF Stop, ProjectType, Settings, Empty, project
  <2>6. ASSUME NEW k \in Keys, Set(k) PROVE ProjectType'
    <3>1. PICK v \in Values :
             /\ toml' = [(IF toml = None THEN Empty ELSE toml) EXCEPT ![k] = v]
             /\ wish' = [wish EXCEPT ![k] = v]
      BY <2>6 DEF Set
    <3>2. (IF toml = None THEN Empty ELSE toml) \in Settings
      BY <1>1, <2>6 DEF Set, ProjectType, Settings, Empty
    <3>3. toml' \in Settings /\ wish' \in Settings
      BY <1>1, <3>1, <3>2 DEF ProjectType, Settings
    <3>4. QED
      BY <1>1, <2>6, <3>3 DEF Set, ProjectType
  <2>7. CASE Repair
    BY <1>1, <2>7 DEF Repair, ProjectType, Settings, Empty
  <2>8. ASSUME NEW s \in Suites, EditSuite(s) PROVE ProjectType'
    <3>1. suites' \in [Suites -> Kinds]
      BY <1>1, <2>8 DEF EditSuite, ProjectType, Kinds
    <3>2. QED
      BY <1>1, <2>8, <3>1 DEF EditSuite, ProjectType
  <2>9. CASE RunInit \/ BackUpBegins \/ BackUpEnds \/ CopyBegins \/ CopyEnds \/ RemoveStale
               \/ StampBegins \/ StampEnds \/ Finish \/ Install
    BY <2>1, <2>9 DEF RunInit, BackUpBegins, BackUpEnds, CopyBegins, CopyEnds, RemoveStale,
                     StampBegins, StampEnds, Finish, Install, project, history
  <2>10. ASSUME NEW configOnly \in BOOLEAN, Migrate(configOnly) PROVE ProjectType'
    BY <2>1, <2>10 DEF Migrate, project, history
  <2>11. ASSUME NEW f \in ManagedFiles, EditFile(f) PROVE ProjectType'
    BY <2>1, <2>11 DEF EditFile, project
  <2>12. CASE UNCHANGED vars
    BY <2>1, <2>12 DEF vars, project, history
  <2>13. QED
    BY <2>2, <2>3, <2>4, <2>5, <2>6, <2>7, <2>8, <2>9, <2>10, <2>11, <2>12 DEF Next
<1>4. CommandType' /\ Resting'
  <2>1. CASE UNCHANGED command
    BY <1>1, <2>1 DEF CommandType, Resting, Idle, command
  <2>2. CASE RunInit
    <3>1. config' \in [Keys -> Values]
      <4>1. toml \in Settings \/ toml = None
        BY <1>1, <2>2 DEF RunInit, ProjectType
      <4>2. QED
        BY <2>2, <4>1, Assumed DEF RunInit, Created, Loaded, Settings
    <3>2. QED
      BY <2>2, <3>1 DEF RunInit, CommandType, Resting, Idle
  <2>3. ASSUME NEW configOnly \in BOOLEAN, Migrate(configOnly) PROVE CommandType' /\ Resting'
    <3>1. Loaded(toml) \in [Keys -> Values]
      <4>1. toml \in Settings \/ toml = None
        BY <1>1, <2>3 DEF Migrate, ProjectType
      <4>2. QED
        BY <4>1, Assumed DEF Loaded, Settings
    <3>2. \A k \in Keys : Update[k] \in Values \cup {Unset}
      BY <1>1, Assumed DEF ProjectType, Update, Settings, Empty
    <3>3. config' \in [Keys -> Values]
      BY <2>3, <3>1, <3>2 DEF Migrate
    <3>4. QED
      BY <2>3, <3>3 DEF Migrate, CommandType, Resting, Idle
  <2>4. CASE BackUpBegins \/ BackUpEnds \/ CopyBegins \/ CopyEnds \/ RemoveStale \/ StampBegins
               \/ StampEnds \/ SaveBegins \/ SaveEnds \/ RewriteBegins \/ RewriteEnds
    <3>1. UNCHANGED <<running, config>>
      BY <2>4 DEF BackUpBegins, BackUpEnds, CopyBegins, CopyEnds, RemoveStale, StampBegins,
                  StampEnds, SaveBegins, SaveEnds, RewriteBegins, RewriteEnds
    <3>2. half' \in {"look", "backing up", "backed up", "copying", "stamping", "saving", "rewriting"}
      BY <2>4 DEF BackUpBegins, BackUpEnds, CopyBegins, CopyEnds, RemoveStale, StampBegins,
                  StampEnds, SaveBegins, SaveEnds, RewriteBegins, RewriteEnds, Done
    <3>3. ~Idle
      BY <1>1, <2>4 DEF BackUpBegins, BackUpEnds, CopyBegins, CopyEnds, RemoveStale, StampBegins,
                        StampEnds, SaveBegins, SaveEnds, RewriteBegins, RewriteEnds, Now, Resting
    <3>4. todo' # << >> \/ half' = "look"
      BY <2>4 DEF BackUpBegins, BackUpEnds, CopyBegins, CopyEnds, RemoveStale, StampBegins,
                  StampEnds, SaveBegins, SaveEnds, RewriteBegins, RewriteEnds, Now, Done
    <3>5. QED
      BY <1>1, <3>1, <3>2, <3>3, <3>4 DEF CommandType, Resting, Idle
  <2>5. CASE Finish \/ Stop
    BY <2>5, Assumed DEF Finish, Stop, CommandType, Resting, Idle
  <2>6. CASE Install \/ Repair
    BY <2>1, <2>6 DEF Install, Repair
  <2>7. ASSUME NEW f \in ManagedFiles, EditFile(f) PROVE CommandType' /\ Resting'
    BY <2>1, <2>7 DEF EditFile
  <2>8. ASSUME NEW k \in Keys, Set(k) PROVE CommandType' /\ Resting'
    BY <2>1, <2>8 DEF Set
  <2>9. ASSUME NEW s \in Suites, EditSuite(s) PROVE CommandType' /\ Resting'
    BY <2>1, <2>9 DEF EditSuite
  <2>10. CASE UNCHANGED vars
    BY <2>1, <2>10 DEF vars
  <2>11. QED
    BY <2>2, <2>3, <2>4, <2>5, <2>6, <2>7, <2>8, <2>9, <2>10 DEF Next
<1>5. Counting'
  <2>1. counts["commands"] \in Nat /\ applies \in Nat /\ MaxCommands \in Nat
    BY <1>1, Assumed DEF Counting
  <2>2. ASSUME NEW what \in {"edits", "commands"}, Counted(what)
        PROVE  /\ counts' \in [{"edits", "commands"} -> Nat] /\ counts'["commands"] <= MaxCommands
               /\ counts["commands"] <= counts'["commands"]
               /\ what = "commands" => counts["commands"] < counts'["commands"]
    <3>1. counts \in [{"edits", "commands"} -> Nat] /\ counts' = [counts EXCEPT ![what] = @ + 1]
      BY <1>1, <2>2 DEF Counting, Counted
    <3>2. CASE what = "edits"
      BY <1>1, <2>1, <3>1, <3>2 DEF Counting
    <3>3. CASE what = "commands"
      BY <1>1, <2>1, <2>2, <3>1, <3>3 DEF Counting, Counted
    <3>4. QED
      BY <3>2, <3>3
  <2>3. CASE UNCHANGED <<counts, running>> /\ applies' \in {0, applies}
    BY <1>1, <2>1, <2>3 DEF Counting
  <2>4. CASE RunInit
    BY <1>1, <2>1, <2>2, <2>4 DEF RunInit, Counting, history
  <2>5. ASSUME NEW configOnly \in BOOLEAN, Migrate(configOnly) PROVE Counting'
    <3>1. Counted("commands") /\ applies' = applies
      BY <2>5 DEF Migrate, history
    <3>2. QED
      BY <1>1, <2>1, <2>2, <3>1 DEF Counting
  <2>6. CASE Install
    BY <1>1, <2>1, <2>2, <2>6 DEF Install, Counting, history, command, Idle
  <2>7. CASE Finish
    BY <1>1, <2>1, <2>7 DEF Finish, Counting
  <2>8. CASE Stop
    BY <1>1, <2>1, <2>8 DEF Stop, Counting
  <2>9. ASSUME NEW f \in ManagedFiles, EditFile(f) PROVE Counting'
    BY <1>1, <2>1, <2>2, <2>9 DEF EditFile, Counting, command, Idle
  <2>10. ASSUME NEW k \in Keys, Set(k) PROVE Counting'
    BY <1>1, <2>1, <2>2, <2>10 DEF Set, Counting, command, Idle
  <2>11. ASSUME NEW s \in Suites, EditSuite(s) PROVE Counting'
    BY <1>1, <2>1, <2>2, <2>11 DEF EditSuite, Counting, command, Idle
  <2>12. CASE BackUpBegins \/ BackUpEnds \/ CopyBegins \/ CopyEnds \/ RemoveStale \/ StampBegins
                \/ StampEnds \/ SaveBegins \/ SaveEnds \/ RewriteBegins \/ RewriteEnds \/ Repair
    BY <2>3, <2>12 DEF BackUpBegins, BackUpEnds, CopyBegins, CopyEnds, RemoveStale, StampBegins,
                      StampEnds, SaveBegins, SaveEnds, RewriteBegins, RewriteEnds, Repair,
                      history, command
  <2>13. CASE UNCHANGED vars
    BY <2>3, <2>13 DEF vars, history, command
  <2>14. QED
    BY <2>4, <2>5, <2>6, <2>7, <2>8, <2>9, <2>10, <2>11, <2>12, <2>13 DEF Next
<1>6. QED
  BY <1>2, <1>3, <1>4, <1>5 DEF Types

\* A file is overwritten only once what the user made of it is in its backup.
LEMMA StepEdits ==
    ASSUME Types, HalfDone, EditKept, [Next]_vars
    PROVE  HalfDone' /\ EditKept'
<1>1. AddonType /\ Resting
  BY DEF Types
<1>2. CASE UNCHANGED <<disk, bak, edit>> /\ half' \notin {"backing up", "backed up", "copying"}
  BY <1>2 DEF HalfDone, EditKept
<1>3. CASE BackUpBegins
  <2>1. half' = "backing up" /\ disk' = disk /\ bak' = [bak EXCEPT ![File] = Torn]
    BY <1>3 DEF BackUpBegins
  <2>2. ASSUME NEW f \in ManagedFiles, edit'[f] \in Edits
        PROVE  edit'[f] \in {disk'[f], bak'[f]}
    <3>1. CASE f # File
      BY <1>1, <1>3, <2>2, <3>1 DEF BackUpBegins, EditKept, AddonType
    <3>2. CASE f = File
      BY <1>1, <1>3, <2>2, <3>2, Assumed DEF BackUpBegins, AddonType
    <3>3. QED
      BY <3>1, <3>2
  <2>3. HalfDone'
    BY <1>1, <1>3, <2>1 DEF BackUpBegins, HalfDone, AddonType, File
  <2>4. QED
    BY <2>2, <2>3 DEF EditKept
<1>4. CASE BackUpEnds
  <2>1. half' = "backed up" /\ todo' = todo /\ disk' = disk /\ edit' = edit
        /\ bak' = [bak EXCEPT ![File] = disk[File]]
    BY <1>4 DEF BackUpEnds, history
  <2>2. HalfDone'
    BY <1>1, <2>1 DEF HalfDone, AddonType, File
  <2>3. ASSUME NEW f \in ManagedFiles, edit[f] \in Edits
        PROVE  edit[f] \in {disk[f], bak'[f]}
    <3>1. CASE f = File
      <4>1. bak[f] = Torn
        BY <1>4, <3>1 DEF BackUpEnds, Now, HalfDone
      <4>2. QED
        BY <1>1, <2>1, <2>3, <3>1, <4>1, Assumed DEF EditKept, AddonType
    <3>2. CASE f # File
      BY <1>1, <2>1, <2>3, <3>2 DEF EditKept, AddonType
    <3>3. QED
      BY <3>1, <3>2
  <2>4. QED
    BY <2>1, <2>2, <2>3 DEF EditKept
<1>5. ASSUME MayReplace, Now({"deploy", "remove"}, half),
             NEW f \in ManagedFiles, f = File, edit[f] \in Edits
      PROVE  edit[f] = bak[f]
  <2>1. CASE Differs
    BY <1>5, <2>1 DEF MayReplace, HalfDone, EditKept
  <2>2. CASE ~Differs
    <3>1. disk[f] \notin Edits
      BY <1>1, <1>5, <2>2, Assumed DEF Differs, AddonType, Now
    <3>2. QED
      BY <1>5, <3>1 DEF EditKept
  <2>3. QED
    BY <2>1, <2>2
<1>6. CASE CopyBegins
  <2>1. half' = "copying" /\ todo' = todo /\ bak' = bak /\ edit' = edit
        /\ disk' = [disk EXCEPT ![File] = Torn]
    BY <1>6 DEF CopyBegins
  <2>2. HalfDone'
    BY <1>1, <2>1 DEF HalfDone, AddonType, File
  <2>3. ASSUME NEW f \in ManagedFiles, edit[f] \in Edits
        PROVE  edit[f] \in {disk'[f], bak[f]}
    BY <1>1, <1>5, <1>6, <2>1, <2>3 DEF EditKept, AddonType, CopyBegins, Now
  <2>4. QED
    BY <2>1, <2>2, <2>3 DEF EditKept
<1>7. CASE CopyEnds
  <2>1. half' = "look" /\ bak' = bak /\ edit' = edit /\ disk' = [disk EXCEPT ![File] = installed]
    BY <1>7 DEF CopyEnds, Done, history
  <2>2. ASSUME NEW f \in ManagedFiles, edit[f] \in Edits
        PROVE  edit[f] \in {disk'[f], bak[f]}
    <3>1. f = File => disk[f] = Torn
      BY <1>7, <2>2 DEF CopyEnds, Now, HalfDone
    <3>2. QED
      BY <1>1, <2>1, <2>2, <3>1, Assumed DEF EditKept, AddonType
  <2>3. QED
    BY <2>1, <2>2 DEF HalfDone, EditKept
<1>8. CASE RemoveStale
  <2>1. half' = "look" /\ bak' = bak /\ edit' = edit /\ disk' = [disk EXCEPT ![File] = Absent]
    BY <1>8 DEF RemoveStale, Done
  <2>2. ASSUME NEW f \in ManagedFiles, edit[f] \in Edits
        PROVE  edit[f] \in {disk'[f], bak[f]}
    BY <1>1, <1>5, <1>8, <2>1, <2>2 DEF EditKept, AddonType, RemoveStale, Now
  <2>3. QED
    BY <2>1, <2>2 DEF HalfDone, EditKept
<1>9. ASSUME NEW f \in ManagedFiles, EditFile(f) PROVE HalfDone' /\ EditKept'
  <2>1. half = "look" /\ half' = half /\ bak' = bak
    BY <1>1, <1>9 DEF EditFile, Resting, command
  <2>2. PICK c \in Edits \cup {Absent} :
              disk' = [disk EXCEPT ![f] = c] /\ edit' = [edit EXCEPT ![f] = c]
    BY <1>9 DEF EditFile
  <2>3. ASSUME NEW g \in ManagedFiles, edit'[g] \in Edits
        PROVE  edit'[g] \in {disk'[g], bak[g]}
    BY <1>1, <2>2, <2>3 DEF EditKept, AddonType
  <2>4. QED
    BY <2>1, <2>3 DEF HalfDone, EditKept
<1>10. CASE Idle /\ UNCHANGED <<disk, bak, edit, half>>
  BY <1>1, <1>2, <1>10 DEF Resting
<1>11. CASE RunInit \/ StampBegins \/ StampEnds \/ SaveBegins \/ SaveEnds \/ RewriteBegins
              \/ RewriteEnds \/ Finish \/ Stop
  BY <1>2, <1>11 DEF RunInit, StampBegins, StampEnds, SaveBegins, SaveEnds, RewriteBegins,
                    RewriteEnds, Finish, Stop, Done, addons, history
<1>12. ASSUME NEW configOnly \in BOOLEAN, Migrate(configOnly) PROVE HalfDone' /\ EditKept'
  <2>1. UNCHANGED <<disk, bak, edit>> /\ half' = "look"
    BY <1>12 DEF Migrate, addons, history
  <2>2. QED
    BY <1>2, <2>1
<1>13. CASE Install \/ Repair
  BY <1>10, <1>13 DEF Install, Repair, addons, command, history
<1>14. ASSUME NEW k \in Keys, Set(k) PROVE HalfDone' /\ EditKept'
  BY <1>10, <1>14 DEF Set, addons, command
<1>15. ASSUME NEW s \in Suites, EditSuite(s) PROVE HalfDone' /\ EditKept'
  BY <1>10, <1>15 DEF EditSuite, addons, command
<1>16. CASE UNCHANGED vars
  BY <1>16 DEF vars, addons, command, history, HalfDone, EditKept, File
<1>17. QED
  BY <1>3, <1>4, <1>6, <1>7, <1>8, <1>9, <1>11, <1>12, <1>13, <1>14, <1>15, <1>16 DEF Next

\* What a command will write has the user's settings, and so has what it wrote.
LEMMA StepSettings ==
    ASSUME Types, Carried, Written, [Next]_vars
    PROVE  Carried' /\ Written'
<1>1. ProjectType /\ CommandType /\ Resting
  BY DEF Types
<1>2. CASE UNCHANGED <<running, half, config, toml, wish>>
  BY <1>2 DEF Carried, Written, Idle
<1>3. ASSUME half # "saving", toml # Broken, NEW k \in Keys, wish[k] # Unset
      PROVE  toml \in Settings /\ toml[k] = wish[k] /\ Loaded(toml)[k] = wish[k]
  BY <1>1, <1>3 DEF Written, ProjectType, Loaded
<1>4. CASE RunInit
  BY <1>1, <1>3, <1>4 DEF RunInit, Resting, Carried, Written, Idle, Created, project, history
<1>5. ASSUME NEW configOnly \in BOOLEAN, Migrate(configOnly) PROVE Carried' /\ Written'
  <2>1. /\ half = "look" /\ half' = "look" /\ toml' = toml /\ wish' = wish /\ toml # Broken
        /\ config' = [k \in Keys |-> IF Update[k] # Unset THEN Update[k] ELSE Loaded(toml)[k]]
    BY <1>1, <1>5 DEF Migrate, Resting, project, history
  <2>2. ASSUME NEW k \in Keys, wish[k] # Unset PROVE config'[k] = wish[k]
    <3>1. toml \in Settings /\ toml # None /\ toml[k] = wish[k] /\ Loaded(toml)[k] = wish[k]
      BY <1>3, <2>1, <2>2, Assumed
    <3>2. Update[k] = Unset
      BY <2>2, <3>1 DEF Update, Empty
    <3>3. QED
      BY <2>1, <3>1, <3>2
  <2>3. QED
    BY <2>1, <2>2 DEF Carried, Written
<1>6. CASE SaveBegins
  BY <1>1, <1>6 DEF SaveBegins, Carried, Written, Idle
<1>7. CASE SaveEnds
  <2>1. ~Idle
    BY <1>1, <1>7 DEF SaveEnds, Now, Resting
  <2>2. toml' = config /\ config' = config /\ wish' = wish /\ running' = running
    BY <1>7 DEF SaveEnds
  <2>3. config \in Settings /\ config \notin {None, Broken}
    BY <1>1, Assumed DEF CommandType, Settings
  <2>4. QED
    BY <2>1, <2>2, <2>3 DEF Carried, Written, Idle
<1>8. CASE Finish
  BY <1>1, <1>8 DEF Finish, Resting, Carried, Written, Idle, project
<1>9. CASE Stop
  BY <1>1, <1>9 DEF Stop, Carried, Written, Idle, project, Empty
<1>10. ASSUME NEW k \in Keys, Set(k) PROVE Carried' /\ Written'
  <2>1. Idle /\ half = "look" /\ toml # Broken /\ running' = running
    BY <1>1, <1>10 DEF Set, Resting, command
  <2>2. PICK v \in Values :
             /\ toml' = [(IF toml = None THEN Empty ELSE toml) EXCEPT ![k] = v]
             /\ wish' = [wish EXCEPT ![k] = v]
    BY <1>10 DEF Set
  <2>3. (IF toml = None THEN Empty ELSE toml) \in Settings
    BY <1>1, <2>1 DEF ProjectType, Settings, Empty
  <2>4. toml' \in Settings /\ toml' \notin {None, Broken}
    BY <2>2, <2>3, Assumed DEF Settings
  <2>5. ASSUME NEW j \in Keys, wish'[j] # Unset PROVE toml'[j] = wish'[j]
    <3>1. CASE j = k
      BY <1>1, <2>2, <2>3, <3>1 DEF ProjectType, Settings
    <3>2. CASE j # k
      <4>1. wish'[j] = wish[j] /\ wish[j] # Unset
        BY <1>1, <2>2, <2>5, <3>2 DEF ProjectType, Settings
      <4>2. toml # None /\ toml[j] = wish[j]
        BY <2>1, <4>1 DEF Written
      <4>3. QED
        BY <1>1, <2>1, <2>2, <3>2, <4>1, <4>2 DEF ProjectType, Settings
    <3>3. QED
      BY <3>1, <3>2
  <2>6. QED
    BY <2>1, <2>4, <2>5 DEF Carried, Written, Idle
<1>11. CASE Repair
  <2>1. \A k \in Keys : wish[k] = Unset
    BY <1>1, <1>11 DEF Repair, Resting, Written
  <2>2. QED
    BY <1>11, <2>1 DEF Repair, Carried, Written, Idle, command
<1>12. ASSUME UNCHANGED <<running, config, toml, wish>>, half' # "saving", half # "saving"
       PROVE  Carried' /\ Written'
  BY <1>12 DEF Carried, Written, Idle
<1>13. CASE BackUpBegins \/ BackUpEnds \/ CopyBegins \/ CopyEnds \/ RemoveStale \/ StampBegins
               \/ StampEnds \/ RewriteBegins \/ RewriteEnds
  <2>1. half # "saving" /\ half' # "saving"
    BY <1>13 DEF BackUpBegins, BackUpEnds, CopyBegins, CopyEnds, RemoveStale, StampBegins,
                StampEnds, RewriteBegins, RewriteEnds, Done, Now, MayReplace
  <2>2. UNCHANGED <<running, config, toml, wish>>
    BY <1>13 DEF BackUpBegins, BackUpEnds, CopyBegins, CopyEnds, RemoveStale, StampBegins,
                StampEnds, RewriteBegins, RewriteEnds, project, history
  <2>3. QED
    BY <1>12, <2>1, <2>2
<1>14. CASE Install
  BY <1>2, <1>14 DEF Install, project, command, history
<1>15. ASSUME NEW f \in ManagedFiles, EditFile(f) PROVE Carried' /\ Written'
  BY <1>2, <1>15 DEF EditFile, project, command
<1>16. ASSUME NEW s \in Suites, EditSuite(s) PROVE Carried' /\ Written'
  BY <1>2, <1>16 DEF EditSuite, command
<1>17. CASE UNCHANGED vars
  BY <1>2, <1>17 DEF vars, project, command, history
<1>18. QED
  BY <1>4, <1>5, <1>6, <1>7, <1>8, <1>9, <1>10, <1>11, <1>13, <1>14, <1>15, <1>16, <1>17 DEF Next

-----------------------------------------------------------------------------
(* Sequences. *)

\* A set that has zero, and with every number the next one, has all numbers.
LEMMA Induction ==
    ASSUME NEW S, 0 \in S, \A n \in Nat : n \in S => n + 1 \in S
    PROVE  Nat \subseteq S
<1> DEFINE T == Nat \ S
<1>1. SUFFICES ASSUME T # {} PROVE FALSE
  OBVIOUS
<1>2. IsWellFoundedOn(OpToRel(<, Nat), Nat)
  BY NatLessThanWellFounded, Zenon
<1>3. PICK x \in T : \A y \in T : ~(<<y, x>> \in OpToRel(<, Nat))
  BY <1>1, <1>2, WFMin, Zenon
<1>4. \A y \in T : ~(y < x)
  BY <1>3 DEF OpToRel
<1>5. x \in Nat /\ x # 0
  OBVIOUS
<1>6. x - 1 \in Nat /\ x - 1 < x /\ (x - 1) + 1 = x
  BY <1>5
<1>7. x - 1 \in S
  BY <1>4, <1>6
<1>8. QED
  BY <1>6, <1>7

\* q is made of the first n sequences of ss, one after the other.
Joins(q, ss, n) ==
    \E start \in [1 .. n -> Nat] :
        /\ \A i \in 1 .. n : \A j \in DOMAIN ss[i] :
               start[i] + j \in DOMAIN q /\ q[start[i] + j] = ss[i][j]
        /\ \A k \in DOMAIN q : \E i \in 1 .. n : \E j \in DOMAIN ss[i] : k = start[i] + j

LEMMA JoinsOne ==
    ASSUME NEW ss, NEW S, ss[1] \in Seq(S)
    PROVE  Joins(ss[1], ss, 1)
<1> DEFINE start == [i \in 1 .. 1 |-> 0]
<1>1. start \in [1 .. 1 -> Nat] /\ \A i \in 1 .. 1 : i = 1 /\ start[i] = 0
  OBVIOUS
<1>2. DOMAIN ss[1] \subseteq Nat
  OBVIOUS
<1>3. \A i \in 1 .. 1 : \A j \in DOMAIN ss[i] :
          start[i] + j \in DOMAIN ss[1] /\ ss[1][start[i] + j] = ss[i][j]
  BY <1>1, <1>2
<1>4. \A k \in DOMAIN ss[1] : \E i \in 1 .. 1 : \E j \in DOMAIN ss[i] : k = start[i] + j
  BY <1>1, <1>2
<1> HIDE DEF start
<1>5. QED
  BY <1>1, <1>3, <1>4 DEF Joins

LEMMA JoinsNext ==
    ASSUME NEW ss, NEW S, NEW n \in Nat, NEW q \in Seq(S), ss[n + 1] \in Seq(S), Joins(q, ss, n)
    PROVE  Joins(q \o ss[n + 1], ss, n + 1)
<1> DEFINE s == ss[n + 1]
           r == q \o s
<1>1. PICK start \in [1 .. n -> Nat] :
          /\ \A i \in 1 .. n : \A j \in DOMAIN ss[i] :
                 start[i] + j \in DOMAIN q /\ q[start[i] + j] = ss[i][j]
          /\ \A k \in DOMAIN q : \E i \in 1 .. n : \E j \in DOMAIN ss[i] : k = start[i] + j
  BY DEF Joins
<1> DEFINE next == [i \in 1 .. n + 1 |-> IF i = n + 1 THEN Len(q) ELSE start[i]]
<1>2. next \in [1 .. n + 1 -> Nat]
  OBVIOUS
<1>3. /\ next[n + 1] = Len(q)
      /\ \A i \in 1 .. n : next[i] = start[i] /\ i \in 1 .. n + 1
      /\ \A i \in 1 .. n + 1 : i = n + 1 \/ i \in 1 .. n
      /\ n + 1 \in 1 .. n + 1
  OBVIOUS
<1>4. /\ DOMAIN q = 1 .. Len(q) /\ DOMAIN s = 1 .. Len(s) /\ DOMAIN r = 1 .. Len(q) + Len(s)
      /\ \A k \in DOMAIN q : k \in DOMAIN r /\ r[k] = q[k]
      /\ \A j \in DOMAIN s : Len(q) + j \in DOMAIN r /\ r[Len(q) + j] = s[j]
      /\ \A k \in DOMAIN r : k \in DOMAIN q \/ \E j \in DOMAIN s : k = Len(q) + j
  <2>1. q \in Seq(S) /\ s \in Seq(S)
    OBVIOUS
  <2> HIDE DEF s
  <2>2. /\ Len(q) \in Nat /\ Len(s) \in Nat
        /\ DOMAIN q = 1 .. Len(q) /\ DOMAIN s = 1 .. Len(s) /\ DOMAIN r = 1 .. Len(q) + Len(s)
    BY <2>1
  <2>3. \A k \in DOMAIN q : k \in DOMAIN r /\ r[k] = q[k]
    BY <2>1, <2>2
  <2>4. \A j \in DOMAIN s : Len(q) + j \in DOMAIN r /\ r[Len(q) + j] = s[j]
    BY <2>1, <2>2
  <2>5. ASSUME NEW k \in DOMAIN r, k \notin DOMAIN q PROVE \E j \in DOMAIN s : k = Len(q) + j
    <3>1. k - Len(q) \in DOMAIN s /\ k = Len(q) + (k - Len(q))
      BY <2>2, <2>5
    <3>2. QED
      BY <3>1
  <2>6. QED
    BY <2>2, <2>3, <2>4, <2>5
<1>5. ASSUME NEW i \in 1 .. n + 1, NEW j \in DOMAIN ss[i]
      PROVE  next[i] + j \in DOMAIN r /\ r[next[i] + j] = ss[i][j]
  <2> HIDE DEF r, next
  <2>1. CASE i = n + 1
    BY <1>3, <1>4, <2>1
  <2>2. CASE i \in 1 .. n
    BY <1>1, <1>3, <1>4, <2>2
  <2>3. QED
    BY <1>3, <2>1, <2>2
<1>6. ASSUME NEW k \in DOMAIN r
      PROVE  \E i \in 1 .. n + 1 : \E j \in DOMAIN ss[i] : k = next[i] + j
  <2> HIDE DEF r, next
  <2>1. CASE k \in DOMAIN q
    <3>1. PICK i \in 1 .. n : \E j \in DOMAIN ss[i] : k = start[i] + j
      BY <1>1, <2>1
    <3>2. QED
      BY <1>3, <3>1
  <2>2. CASE \E j \in DOMAIN s : k = Len(q) + j
    BY <1>3, <2>2
  <2>3. QED
    BY <1>4, <2>1, <2>2
<1> HIDE DEF r, next
<1>7. QED
  BY <1>2, <1>5, <1>6 DEF Joins, r

\* FlattenSeq joins the sequences.
LEMMA Flattened ==
    ASSUME NEW S, NEW ss \in Seq(Seq(S)), ss # << >>
    PROVE  FlattenSeq(ss) \in Seq(S) /\ Joins(FlattenSeq(ss), ss, Len(ss))
<1> DEFINE IsPrefixes(g, n) == g = [i \in 1 .. n |-> IF i = 1 THEN ss[i] ELSE g[i - 1] \o ss[i]]
           Exists == {n \in Nat : \E g : IsPrefixes(g, n)}
<1>1. 0 \in Exists
  <2> DEFINE g == [i \in 1 .. 0 |-> 0]
  <2>1. 1 .. 0 = {}
    OBVIOUS
  <2>2. IsPrefixes(g, 0)
    BY <2>1
  <2> HIDE DEF g, IsPrefixes
  <2>3. QED
    BY <2>2
<1>2. ASSUME NEW n \in Nat, n \in Exists PROVE n + 1 \in Exists
  <2>1. PICK g : IsPrefixes(g, n)
    BY <1>2
  <2> DEFINE h == [i \in 1 .. n + 1 |->
                      IF i \in 1 .. n THEN g[i] ELSE IF i = 1 THEN ss[i] ELSE g[n] \o ss[i]]
  <2>2. ASSUME NEW i \in 1 .. n + 1
        PROVE  h[i] = IF i = 1 THEN ss[i] ELSE h[i - 1] \o ss[i]
    <3>1. CASE i \in 1 .. n
      <4>1. h[i] = g[i] /\ (i # 1 => h[i - 1] = g[i - 1])
        BY <3>1
      <4>2. g[i] = IF i = 1 THEN ss[i] ELSE g[i - 1] \o ss[i]
        BY <2>1, <3>1
      <4>3. QED
        BY <4>1, <4>2
    <3>2. CASE i = n + 1
      <4>1. i \notin 1 .. n /\ (i # 1 => i - 1 \in 1 .. n /\ i - 1 = n)
        BY <3>2
      <4>2. QED
        BY <4>1
    <3>3. QED
      BY <3>1, <3>2
  <2>3. IsPrefixes(h, n + 1)
    BY <2>2
  <2> HIDE DEF h, IsPrefixes
  <2>4. QED
    BY <2>3
<1>3. Len(ss) \in Nat /\ Len(ss) >= 1 /\ DOMAIN ss = 1 .. Len(ss) /\ \A i \in 1 .. Len(ss) : ss[i] \in Seq(S)
  OBVIOUS
<1>4. \E g : IsPrefixes(g, Len(ss))
  <2> HIDE DEF IsPrefixes
  <2>1. Nat \subseteq Exists
    <3> HIDE DEF Exists
    <3>1. QED
      BY <1>1, <1>2, Induction
  <2>2. QED
    BY <1>3, <2>1
<1>5. PICK g : IsPrefixes(g, Len(ss)) /\ FlattenSeq(ss) = g[Len(ss)]
  <2> DEFINE g == CHOOSE h : IsPrefixes(h, Len(ss))
  <2>1. IsPrefixes(g, Len(ss))
    <3> HIDE DEF IsPrefixes
    <3>1. QED
      BY <1>4
  <2>2. FlattenSeq(ss) = g[Len(ss)]
    BY <1>3 DEF FlattenSeq
  <2> HIDE DEF g, IsPrefixes
  <2>3. QED
    BY <2>1, <2>2
<1>6. \A i \in 1 .. Len(ss) : g[i] = IF i = 1 THEN ss[i] ELSE g[i - 1] \o ss[i]
  BY <1>5
<1> DEFINE Good == {n \in Nat : n + 1 <= Len(ss) => g[n + 1] \in Seq(S) /\ Joins(g[n + 1], ss, n + 1)}
<1>7. 0 \in Good
  <2>1. g[1] = ss[1] /\ ss[1] \in Seq(S)
    BY <1>3, <1>6
  <2>2. QED
    BY <2>1, JoinsOne
<1>8. ASSUME NEW n \in Nat, n \in Good PROVE n + 1 \in Good
  <2>1. SUFFICES ASSUME (n + 1) + 1 <= Len(ss)
                 PROVE  g[(n + 1) + 1] \in Seq(S) /\ Joins(g[(n + 1) + 1], ss, (n + 1) + 1)
    OBVIOUS
  <2>2. g[n + 1] \in Seq(S) /\ Joins(g[n + 1], ss, n + 1)
    BY <1>3, <1>8, <2>1
  <2>3. /\ ss[(n + 1) + 1] \in Seq(S)
        /\ g[(n + 1) + 1] = g[n + 1] \o ss[(n + 1) + 1]
    <3>1. (n + 1) + 1 \in 1 .. Len(ss) /\ (n + 1) + 1 # 1 /\ ((n + 1) + 1) - 1 = n + 1
      BY <1>3, <2>1
    <3>2. QED
      BY <1>3, <1>6, <3>1
  <2>4. n + 1 \in Nat
    OBVIOUS
  <2>5. QED
    BY <2>2, <2>3, <2>4, JoinsNext
<1>9. Nat \subseteq Good
  <2> HIDE DEF Good
  <2>1. QED
    BY <1>7, <1>8, Induction
<1>10. Len(ss) - 1 \in Good
  <2>1. Len(ss) - 1 \in Nat
    BY <1>3
  <2> HIDE DEF Good
  <2>2. QED
    BY <1>9, <2>1
<1>11. (Len(ss) - 1) + 1 = Len(ss)
  BY <1>3
<1>12. QED
  BY <1>3, <1>5, <1>10, <1>11

\* Taking the first element off a sequence, and putting sequences together.
LEMMA TailParts ==
    ASSUME NEW S, NEW q \in Seq(S), q # << >>
    PROVE  /\ Tail(q) \in Seq(S) /\ 1 \in DOMAIN q /\ q[1] \in S
           /\ \A k \in DOMAIN Tail(q) : k \in Nat /\ k + 1 \in DOMAIN q /\ Tail(q)[k] = q[k + 1]
           /\ \A k \in DOMAIN q : k \in Nat /\ (k = 1 \/ (k - 1 \in DOMAIN Tail(q) /\ Tail(q)[k - 1] = q[k]))
<1>1. /\ Len(q) \in Nat /\ Len(q) >= 1 /\ DOMAIN q = 1 .. Len(q)
      /\ Tail(q) \in Seq(S) /\ DOMAIN Tail(q) = 1 .. Len(q) - 1
  OBVIOUS
<1>2. \A k \in 1 .. Len(q) - 1 : Tail(q)[k] = q[k + 1]
  BY <1>1
<1>3. QED
  BY <1>1, <1>2

LEMMA JoinParts ==
    ASSUME NEW S, NEW q \in Seq(S), NEW r \in Seq(S)
    PROVE  /\ q \o r \in Seq(S) /\ Len(q \o r) = Len(q) + Len(r)
           /\ DOMAIN q \subseteq Nat /\ DOMAIN r \subseteq Nat
           /\ \A k \in DOMAIN q : k \in DOMAIN (q \o r) /\ (q \o r)[k] = q[k]
           /\ \A j \in DOMAIN r : Len(q) + j \in DOMAIN (q \o r) /\ (q \o r)[Len(q) + j] = r[j]
           /\ \A k \in DOMAIN (q \o r) : k \in DOMAIN q \/ \E j \in DOMAIN r : k = Len(q) + j
<1>1. /\ Len(q) \in Nat /\ Len(r) \in Nat /\ q \o r \in Seq(S)
      /\ DOMAIN q = 1 .. Len(q) /\ DOMAIN r = 1 .. Len(r)
      /\ Len(q \o r) = Len(q) + Len(r) /\ DOMAIN (q \o r) = 1 .. Len(q) + Len(r)
  OBVIOUS
<1>2. \A k \in DOMAIN q : k \in DOMAIN (q \o r) /\ (q \o r)[k] = q[k]
  BY <1>1
<1>3. \A j \in DOMAIN r : Len(q) + j \in DOMAIN (q \o r) /\ (q \o r)[Len(q) + j] = r[j]
  BY <1>1
<1>4. ASSUME NEW k \in DOMAIN (q \o r), k \notin DOMAIN q PROVE \E j \in DOMAIN r : k = Len(q) + j
  <2>1. k - Len(q) \in DOMAIN r /\ k = Len(q) + (k - Len(q))
    BY <1>1, <1>4
  <2>2. QED
    BY <2>1
<1>5. QED
  BY <1>1, <1>2, <1>3, <1>4

-----------------------------------------------------------------------------
(* What a command has to write. *)

Steps == {"deploy", "remove", "stamp", "create", "settings", "suite"}
            \X (ManagedFiles \cup Addons \cup Suites \cup {"gd-tools.toml"})
Bundle == [addon : Addons, files : Seq(ManagedFiles), removed : Seq(ManagedFiles)]

Has(q, t) == \E k \in DOMAIN q : q[k] = t

\* A step of init is one of the version that is installed.
InitStep(t) ==
    \/ t[1] = "deploy" /\ \E i \in DOMAIN Layout[installed] : t[2] \in Range(Layout[installed][i].files)
    \/ t[1] = "remove" /\ \E i \in DOMAIN Layout[installed] : t[2] \in Range(Layout[installed][i].removed)
    \/ t[1] = "stamp" /\ t[2] \in Addons
    \/ t[1] = "create"

\* An addon's version is written once, after all of its files.
Ordered(q) ==
    /\ \A k \in DOMAIN q : q[k][1] \in {"deploy", "remove"} =>
           \E m \in DOMAIN q : k < m /\ q[m] = <<"stamp", q[k][2][1]>>
    /\ \A k, m \in DOMAIN q : q[k][1] = "stamp" /\ q[m] = q[k] => k = m

LEMMA Layouts ==
    ASSUME NEW v \in Versions
    PROVE  /\ Layout[v] \in Seq(Bundle)
           /\ \A i, j \in DOMAIN Layout[v] : Layout[v][i].addon = Layout[v][j].addon => i = j
           /\ \A i \in DOMAIN Layout[v] :
                  /\ \A f \in Range(Layout[v][i].files) : f[1] = Layout[v][i].addon
                  /\ \A f \in Range(Layout[v][i].removed) : f[1] = Layout[v][i].addon
                  /\ Range(Layout[v][i].files) \cap Range(Layout[v][i].removed) = {}
<1>1. Layout[v] \in Seq(Bundle)
  BY SetupAssumption DEF Bundle
<1>2. \A i, j \in DOMAIN Layout[v] : Layout[v][i].addon = Layout[v][j].addon => i = j
  BY SetupAssumption
<1>3. ASSUME NEW i \in DOMAIN Layout[v]
      PROVE  /\ \A f \in Range(Layout[v][i].files) \cup Range(Layout[v][i].removed) : f[1] = Layout[v][i].addon
             /\ Range(Layout[v][i].files) \cap Range(Layout[v][i].removed) = {}
  BY SetupAssumption, Zenon
<1>4. QED
  BY <1>1, <1>2, <1>3

LEMMA RangeParts ==
    ASSUME NEW S, NEW q \in Seq(S)
    PROVE  /\ Range(q) \subseteq S /\ \A k \in DOMAIN q : q[k] \in Range(q)
           /\ \A x \in Range(q) : \E k \in DOMAIN q : q[k] = x
BY DEF Range

LEMMA WritesParts ==
    ASSUME NEW what \in {"deploy", "remove", "suite"}, NEW names \in Seq(ManagedFiles \cup Suites)
    PROVE  /\ Writes(what, names) \in Seq(Steps) /\ DOMAIN Writes(what, names) = DOMAIN names
           /\ \A k \in DOMAIN names : Writes(what, names)[k] = <<what, names[k]>>
<1>1. Len(names) \in Nat /\ DOMAIN names = 1 .. Len(names)
  OBVIOUS
<1>2. Writes(what, names) = [k \in 1 .. Len(names) |-> <<what, names[k]>>]
  BY <1>1 DEF Writes
<1>3. \A k \in 1 .. Len(names) : <<what, names[k]>> \in Steps
  BY <1>1 DEF Steps
<1>4. QED
  BY <1>1, <1>2, <1>3

\* The steps for one addon: its files, then its version.
LEMMA TasksParts ==
    ASSUME NEW a \in Bundle
    PROVE  /\ Tasks(a) \in Seq(Steps) /\ Len(Tasks(a)) \in DOMAIN Tasks(a) /\ DOMAIN Tasks(a) \subseteq Nat
           /\ Tasks(a)[Len(Tasks(a))] = <<"stamp", a.addon>>
           /\ \A j \in DOMAIN Tasks(a) : j # Len(Tasks(a)) =>
                  /\ j < Len(Tasks(a))
                  /\ \/ \E f \in Range(a.files) : Tasks(a)[j] = <<"deploy", f>>
                     \/ \E f \in Range(a.removed) : Tasks(a)[j] = <<"remove", f>>
           /\ \A f \in Range(a.files) : Has(Tasks(a), <<"deploy", f>>)
           /\ \A f \in Range(a.removed) : Has(Tasks(a), <<"remove", f>>)
<1> DEFINE d == Writes("deploy", a.files)
           r == Writes("remove", a.removed)
           s == <<<<"stamp", a.addon>>>>
           dr == d \o r
           t == dr \o s
<1>1. a.addon \in Addons /\ a.files \in Seq(ManagedFiles) /\ a.removed \in Seq(ManagedFiles)
  BY DEF Bundle
<1>2. a.files \in Seq(ManagedFiles \cup Suites) /\ a.removed \in Seq(ManagedFiles \cup Suites)
  BY <1>1
<1>3. /\ d \in Seq(Steps) /\ DOMAIN d = DOMAIN a.files
      /\ \A k \in DOMAIN d : d[k] = <<"deploy", a.files[k]>>
  BY <1>2, WritesParts
<1>4. /\ r \in Seq(Steps) /\ DOMAIN r = DOMAIN a.removed
      /\ \A k \in DOMAIN r : r[k] = <<"remove", a.removed[k]>>
  BY <1>2, WritesParts
<1>5. s \in Seq(Steps) /\ Len(s) = 1 /\ DOMAIN s = {1} /\ s[1] = <<"stamp", a.addon>>
  BY <1>1 DEF Steps
<1>6. Tasks(a) = t
  BY DEF Tasks
<1> HIDE DEF d, r, s
<1>7. /\ dr \in Seq(Steps)
      /\ \A k \in DOMAIN d : k \in DOMAIN dr /\ dr[k] = d[k]
      /\ \A j \in DOMAIN r : Len(d) + j \in DOMAIN dr /\ dr[Len(d) + j] = r[j]
      /\ \A k \in DOMAIN dr : k \in DOMAIN d \/ \E j \in DOMAIN r : k = Len(d) + j
  BY <1>3, <1>4, JoinParts
<1> HIDE DEF dr
<1>8. /\ t \in Seq(Steps) /\ Len(t) = Len(dr) + 1 /\ DOMAIN dr = 1 .. Len(dr) /\ Len(dr) \in Nat
      /\ \A k \in DOMAIN dr : k \in DOMAIN t /\ t[k] = dr[k]
      /\ Len(t) \in DOMAIN t /\ t[Len(t)] = s[1]
      /\ \A k \in DOMAIN t : k \in DOMAIN dr \/ k = Len(t)
      /\ DOMAIN t \subseteq Nat
  <2>1. /\ t \in Seq(Steps) /\ Len(t) = Len(dr) + Len(s)
        /\ \A k \in DOMAIN dr : k \in DOMAIN t /\ t[k] = dr[k]
        /\ \A j \in DOMAIN s : Len(dr) + j \in DOMAIN t /\ t[Len(dr) + j] = s[j]
        /\ \A k \in DOMAIN t : k \in DOMAIN dr \/ \E j \in DOMAIN s : k = Len(dr) + j
    <3>1. dr \in Seq(Steps) /\ s \in Seq(Steps)
      BY <1>5, <1>7
    <3>2. QED
      BY <3>1, JoinParts
  <2>2. DOMAIN dr = 1 .. Len(dr) /\ Len(dr) \in Nat
    BY <1>7
  <2>3. DOMAIN t \subseteq Nat
    BY <2>1
  <2> HIDE DEF t
  <2>4. QED
    BY <1>5, <2>1, <2>2, <2>3
<1> HIDE DEF t
<1>9. ASSUME NEW j \in DOMAIN t, j # Len(t)
      PROVE  /\ j < Len(t)
             /\ \/ \E f \in Range(a.files) : t[j] = <<"deploy", f>>
                \/ \E f \in Range(a.removed) : t[j] = <<"remove", f>>
  <2>1. j \in DOMAIN dr /\ j < Len(t) /\ t[j] = dr[j]
    BY <1>8, <1>9
  <2>2. CASE j \in DOMAIN d
    <3>1. t[j] = <<"deploy", a.files[j]>> /\ a.files[j] \in Range(a.files)
      BY <1>1, <1>3, <1>7, <2>1, <2>2, RangeParts
    <3>2. QED
      BY <2>1, <3>1
  <2>3. ASSUME NEW k \in DOMAIN r, j = Len(d) + k
        PROVE  \E f \in Range(a.removed) : t[j] = <<"remove", f>>
    <3>1. t[j] = <<"remove", a.removed[k]>> /\ a.removed[k] \in Range(a.removed)
      BY <1>1, <1>4, <1>7, <2>1, <2>3, RangeParts
    <3>2. QED
      BY <3>1
  <2>4. QED
    BY <1>7, <2>1, <2>2, <2>3
<1>10. ASSUME NEW f \in Range(a.files) PROVE Has(t, <<"deploy", f>>)
  <2>1. PICK k \in DOMAIN a.files : a.files[k] = f
    BY <1>1, RangeParts
  <2>2. k \in DOMAIN t /\ t[k] = <<"deploy", f>>
    BY <1>3, <1>7, <1>8, <2>1
  <2>3. QED
    BY <2>2 DEF Has
<1>11. ASSUME NEW f \in Range(a.removed) PROVE Has(t, <<"remove", f>>)
  <2>1. PICK k \in DOMAIN a.removed : a.removed[k] = f
    BY <1>1, RangeParts
  <2>2. Len(d) + k \in DOMAIN t /\ t[Len(d) + k] = <<"remove", f>>
    BY <1>4, <1>7, <1>8, <2>1
  <2>3. QED
    BY <2>2 DEF Has
<1>12. QED
  BY <1>5, <1>6, <1>8, <1>9, <1>10, <1>11

\* What is still to be done for addons of which the version is not yet written.
Present(q) ==
    \A i \in DOMAIN Layout[installed] :
        /\ \A f \in Range(Layout[installed][i].files) : Has(q, <<"deploy", f>>)
        /\ \A f \in Range(Layout[installed][i].removed) : Has(q, <<"remove", f>>)

\* The steps of all addons, one after the other: no addon's steps come twice.
LEMMA DeploymentParts ==
    ASSUME installed \in Versions
    PROVE  LET q == FlattenSeq([i \in DOMAIN Layout[installed] |-> Tasks(Layout[installed][i])])
           IN  /\ q \in Seq(Steps) /\ Ordered(q) /\ Present(q)
               /\ \A k \in DOMAIN q : InitStep(q[k])
<1> DEFINE L == Layout[installed]
           ss == [i \in DOMAIN L |-> Tasks(L[i])]
           q == FlattenSeq(ss)
<1>1. L \in Seq(Bundle) /\ Len(L) \in Nat /\ DOMAIN L = 1 .. Len(L)
  BY Layouts
<1>2. \A i \in DOMAIN L : L[i] \in Bundle
  BY <1>1
<1>3. \A i \in DOMAIN L : ss[i] = Tasks(L[i]) /\ ss[i] \in Seq(Steps)
  BY <1>2, TasksParts
<1>4. ss \in Seq(Seq(Steps)) /\ Len(ss) = Len(L) /\ DOMAIN ss = DOMAIN L
  <2>1. ss = [i \in 1 .. Len(L) |-> Tasks(L[i])]
    BY <1>1
  <2>2. ss \in [1 .. Len(L) -> Seq(Steps)]
    BY <1>1, <1>3, <2>1
  <2>3. ASSUME NEW n \in Nat, NEW t \in [1 .. n -> Seq(Steps)]
        PROVE  t \in Seq(Seq(Steps)) /\ Len(t) = n /\ DOMAIN t = 1 .. n
    OBVIOUS
  <2> HIDE DEF ss
  <2>4. QED
    BY <1>1, <2>2, <2>3
<1> HIDE DEF ss
<1>5. CASE ss = << >>
  <2>1. q = << >>
    BY <1>5 DEF FlattenSeq
  <2>2. DOMAIN L = {}
    BY <1>4, <1>5
  <2>3. q \in Seq(Steps) /\ DOMAIN q = {}
    BY <2>1
  <2> HIDE DEF q
  <2>4. QED
    BY <2>2, <2>3 DEF Ordered, Present, ss, q
<1>6. CASE ss # << >>
  <2>1. q \in Seq(Steps) /\ Joins(q, ss, Len(L))
    BY <1>4, <1>6, Flattened
  <2> HIDE DEF q
  <2>2. PICK start \in [DOMAIN L -> Nat] :
            /\ \A i \in DOMAIN L : \A j \in DOMAIN ss[i] :
                   start[i] + j \in DOMAIN q /\ q[start[i] + j] = ss[i][j]
            /\ \A k \in DOMAIN q : \E i \in DOMAIN L : \E j \in DOMAIN ss[i] : k = start[i] + j
    BY <1>1, <2>1 DEF Joins
  <2>3. ASSUME NEW i \in DOMAIN L, NEW t, Has(ss[i], t) PROVE Has(q, t)
    BY <2>2, <2>3 DEF Has
  <2>4. Present(q)
    <3>1. ASSUME NEW i \in DOMAIN L
          PROVE  /\ \A f \in Range(L[i].files) : Has(q, <<"deploy", f>>)
                 /\ \A f \in Range(L[i].removed) : Has(q, <<"remove", f>>)
      <4>1. /\ \A f \in Range(L[i].files) : Has(ss[i], <<"deploy", f>>)
            /\ \A f \in Range(L[i].removed) : Has(ss[i], <<"remove", f>>)
        BY <1>2, <1>3, TasksParts
      <4>2. QED
        BY <2>3, <4>1
    <3>2. QED
      BY <3>1 DEF Present
  <2> DEFINE last == [i \in DOMAIN L |-> start[i] + Len(ss[i])]
  <2>5. ASSUME NEW k \in DOMAIN q
        PROVE  \E i \in DOMAIN L :
                   /\ last[i] \in DOMAIN q /\ q[last[i]] = <<"stamp", L[i].addon>>
                   /\ \/ k = last[i]
                      \/ /\ k < last[i]
                         /\ \/ \E f \in Range(L[i].files) : q[k] = <<"deploy", f>>
                            \/ \E f \in Range(L[i].removed) : q[k] = <<"remove", f>>
    <3>1. PICK i \in DOMAIN L : \E j \in DOMAIN ss[i] : k = start[i] + j
      BY <2>2
    <3>2. PICK j \in DOMAIN ss[i] : k = start[i] + j
      BY <3>1
    <3>3. q[k] = ss[i][j]
      BY <2>2, <3>2
    <3>4. /\ Len(ss[i]) \in DOMAIN ss[i] /\ DOMAIN ss[i] \subseteq Nat
          /\ ss[i][Len(ss[i])] = <<"stamp", L[i].addon>>
          /\ j # Len(ss[i]) =>
                  /\ j < Len(ss[i])
                  /\ \/ \E f \in Range(L[i].files) : ss[i][j] = <<"deploy", f>>
                     \/ \E f \in Range(L[i].removed) : ss[i][j] = <<"remove", f>>
      BY <1>2, <1>3, TasksParts
    <3>5. last[i] = start[i] + Len(ss[i]) /\ last[i] \in DOMAIN q
          /\ q[last[i]] = <<"stamp", L[i].addon>>
      BY <2>2, <3>4
    <3>6. j # Len(ss[i]) => k < last[i]
      <4>1. start[i] \in Nat /\ j \in Nat /\ Len(ss[i]) \in Nat
        BY <3>4
      <4>2. QED
        BY <3>2, <3>4, <3>5, <4>1
    <3> HIDE DEF last
    <3>7. QED
      BY <3>2, <3>3, <3>4, <3>5, <3>6
  <2> HIDE DEF last
  <2>6. ASSUME NEW k \in DOMAIN q PROVE InitStep(q[k])
    <3>1. PICK i \in DOMAIN L :
             \/ q[k] = <<"stamp", L[i].addon>>
             \/ \E f \in Range(L[i].files) : q[k] = <<"deploy", f>>
             \/ \E f \in Range(L[i].removed) : q[k] = <<"remove", f>>
      BY <2>5
    <3>2. CASE q[k] = <<"stamp", L[i].addon>>
      <4>1. L[i].addon \in Addons
        BY <1>2 DEF Bundle
      <4>2. QED
        BY <3>2, <4>1 DEF InitStep
    <3>3. CASE \E f \in Range(L[i].files) : q[k] = <<"deploy", f>>
      <4>1. q[k][1] = "deploy" /\ q[k][2] \in Range(L[i].files)
        BY <3>3
      <4>2. QED
        BY <4>1 DEF InitStep
    <3>4. CASE \E f \in Range(L[i].removed) : q[k] = <<"remove", f>>
      <4>1. q[k][1] = "remove" /\ q[k][2] \in Range(L[i].removed)
        BY <3>4
      <4>2. QED
        BY <4>1 DEF InitStep
    <3>5. QED
      BY <3>1, <3>2, <3>3, <3>4
  <2>7. ASSUME NEW k \in DOMAIN q, q[k][1] \in {"deploy", "remove"}
        PROVE  \E m \in DOMAIN q : k < m /\ q[m] = <<"stamp", q[k][2][1]>>
    <3>1. PICK i \in DOMAIN L :
             /\ last[i] \in DOMAIN q /\ q[last[i]] = <<"stamp", L[i].addon>>
             /\ \/ k = last[i]
                \/ /\ k < last[i]
                   /\ \/ \E f \in Range(L[i].files) : q[k] = <<"deploy", f>>
                      \/ \E f \in Range(L[i].removed) : q[k] = <<"remove", f>>
      BY <2>5
    <3>2. k # last[i]
      BY <2>7, <3>1
    <3>3. PICK f \in Range(L[i].files) \cup Range(L[i].removed) : q[k][2] = f
      BY <3>1, <3>2
    <3>4. q[k][2][1] = L[i].addon
      BY <3>3, Layouts
    <3>5. QED
      BY <3>1, <3>2, <3>4
  <2>8. ASSUME NEW k \in DOMAIN q, NEW m \in DOMAIN q, q[k][1] = "stamp", q[m] = q[k] PROVE k = m
    <3>1. ASSUME NEW n \in DOMAIN q, q[n][1] = "stamp"
          PROVE  \E i \in DOMAIN L : n = last[i] /\ q[n] = <<"stamp", L[i].addon>>
      <4>1. PICK i \in DOMAIN L :
               /\ q[last[i]] = <<"stamp", L[i].addon>>
               /\ \/ n = last[i]
                  \/ \E f \in Range(L[i].files) : q[n] = <<"deploy", f>>
                  \/ \E f \in Range(L[i].removed) : q[n] = <<"remove", f>>
        BY <2>5
      <4>2. n = last[i]
        BY <3>1, <4>1
      <4>3. QED
        BY <4>1, <4>2
    <3>2. PICK i \in DOMAIN L : k = last[i] /\ q[k] = <<"stamp", L[i].addon>>
      BY <2>8, <3>1
    <3>3. PICK j \in DOMAIN L : m = last[j] /\ q[m] = <<"stamp", L[j].addon>>
      BY <2>8, <3>1
    <3>4. L[i].addon = L[j].addon
      BY <2>8, <3>2, <3>3
    <3>5. i = j
      BY <3>4, Layouts
    <3>6. QED
      BY <3>2, <3>3, <3>5
  <2>9. Ordered(q)
    BY <2>7, <2>8 DEF Ordered
  <2>10. QED
    BY <2>1, <2>4, <2>6, <2>9 DEF ss, q
<1>7. QED
  BY <1>5, <1>6

\* A sequence of the set's elements: the i-th is the one with i elements up to it.
LEMMA SortedParts ==
    ASSUME NEW S \in SUBSET Suites
    PROVE  /\ Sorted(S) \in Seq(S)
           /\ \A s \in S : \E i \in DOMAIN Sorted(S) : Sorted(S)[i] = s
<1> DEFINE below(s) == {t \in S : t <= s}
           n == Cardinality(S)
           rank == [s \in S |-> Cardinality(below(s))]
<1>1. S \subseteq Nat /\ IsFiniteSet(S) /\ n \in Nat
  <2>1. NumSuites \in Nat
    BY SetupAssumption
  <2>2. IsFiniteSet(Suites)
    BY <2>1, FS_Interval DEF Suites
  <2>3. IsFiniteSet(S)
    BY <2>2, FS_Subset
  <2>4. S \subseteq Nat
    BY <2>1 DEF Suites
  <2>5. QED
    BY <2>3, <2>4, FS_CardinalityType
<1>2. \A s \in S : /\ IsFiniteSet(below(s)) /\ Cardinality(below(s)) \in Nat
                   /\ Cardinality(below(s)) <= n /\ Cardinality(below(s)) # 0
  <2> SUFFICES ASSUME NEW s \in S
               PROVE  /\ IsFiniteSet(below(s)) /\ Cardinality(below(s)) \in Nat
                      /\ Cardinality(below(s)) <= n /\ Cardinality(below(s)) # 0
    OBVIOUS
  <2>1. IsFiniteSet(below(s)) /\ Cardinality(below(s)) <= n
    <3>1. below(s) \in SUBSET S
      OBVIOUS
    <3> HIDE DEF below
    <3>2. QED
      BY <1>1, <3>1, FS_Subset
  <2>2. s \in below(s)
    BY <1>1
  <2> HIDE DEF below
  <2>3. QED
    BY <2>1, <2>2, FS_CardinalityType, FS_EmptySet
<1>3. ASSUME NEW s \in S, NEW u \in S, s < u PROVE Cardinality(below(s)) < Cardinality(below(u))
  <2>1. below(s) \cup {u} \in SUBSET below(u) /\ u \notin below(s)
    <3>1. s \in Nat /\ u \in Nat
      BY <1>1
    <3>2. \A t \in S : t <= s => t <= u /\ t # u
      BY <1>1, <1>3, <3>1
    <3>3. u <= u /\ ~(u <= s)
      BY <1>3, <3>1
    <3>4. QED
      BY <3>2, <3>3
  <2>2. IsFiniteSet(below(u)) /\ IsFiniteSet(below(s)) /\ Cardinality(below(s)) \in Nat /\ Cardinality(below(u)) \in Nat
    BY <1>2
  <2> HIDE DEF below
  <2>3. Cardinality(below(s) \cup {u}) = Cardinality(below(s)) + 1
    BY <2>1, <2>2, FS_AddElement
  <2>4. Cardinality(below(s) \cup {u}) <= Cardinality(below(u))
    BY <2>1, <2>2, FS_Subset
  <2>5. QED
    BY <2>2, <2>3, <2>4
<1> HIDE DEF below
<1>4. rank \in [S -> 1 .. n] /\ \A s \in S : rank[s] = Cardinality(below(s))
  BY <1>1, <1>2
<1>5. \A s, u \in S : rank[s] = rank[u] => s = u
  <2> SUFFICES ASSUME NEW s \in S, NEW u \in S, rank[s] = rank[u], s # u PROVE FALSE
    OBVIOUS
  <2>1. s < u \/ u < s
    BY <1>1
  <2>2. Cardinality(below(s)) \in Nat /\ Cardinality(below(s)) = Cardinality(below(u))
    BY <1>2
  <2>3. QED
    BY <1>3, <2>1, <2>2
<1> HIDE DEF rank
<1>6. \A i \in 1 .. n : \E s \in S : rank[s] = i
  <2>1. rank \in Injection(S, 1 .. n)
    BY <1>4, <1>5 DEF Injection, IsInjective
  <2>2. IsFiniteSet(1 .. n) /\ Cardinality(1 .. n) = n
    BY <1>1, FS_Interval
  <2>3. rank \in Surjection(S, 1 .. n)
    BY <1>1, <2>1, <2>2, FS_Injection
  <2>4. QED
    BY <2>3 DEF Surjection
<1>7. Sorted(S) = [i \in 1 .. n |-> CHOOSE s \in S : Cardinality(below(s)) = i]
  BY DEF Sorted, below
<1>8. ASSUME NEW i \in 1 .. n PROVE Sorted(S)[i] \in S /\ rank[Sorted(S)[i]] = i
  <2>1. \E s \in S : Cardinality(below(s)) = i
    BY <1>4, <1>6
  <2>2. QED
    BY <1>4, <1>7, <2>1
<1> HIDE DEF n
<1>9. Sorted(S) \in [1 .. n -> S]
  <2>1. Sorted(S) = [i \in 1 .. n |-> Sorted(S)[i]]
    BY <1>7
  <2>2. QED
    BY <1>8, <2>1
<1>10. Sorted(S) \in Seq(S) /\ DOMAIN Sorted(S) = 1 .. n
  BY <1>1, <1>9
<1>11. ASSUME NEW s \in S PROVE \E i \in DOMAIN Sorted(S) : Sorted(S)[i] = s
  <2>1. rank[s] \in 1 .. n
    BY <1>4
  <2>2. Sorted(S)[rank[s]] \in S /\ rank[Sorted(S)[rank[s]]] = rank[s]
    BY <1>8, <2>1
  <2>3. QED
    BY <1>5, <1>10, <2>1, <2>2
<1>12. QED
  BY <1>10, <1>11

\* More steps at the end, none of them for an addon.
LEMMA AppendParts ==
    ASSUME NEW q \in Seq(Steps), Ordered(q), NEW r \in Seq(Steps),
           \A k \in DOMAIN r : r[k][1] \notin {"deploy", "remove", "stamp"}
    PROVE  /\ q \o r \in Seq(Steps) /\ Ordered(q \o r)
           /\ \A t : Has(q, t) => Has(q \o r, t)
           /\ \A k \in DOMAIN (q \o r) :
                  (\E j \in DOMAIN q : (q \o r)[k] = q[j]) \/ (\E j \in DOMAIN r : (q \o r)[k] = r[j])
<1> DEFINE t == q \o r
<1>1. /\ t \in Seq(Steps)
      /\ DOMAIN q \subseteq Nat
      /\ \A k \in DOMAIN q : k \in DOMAIN t /\ t[k] = q[k]
      /\ \A j \in DOMAIN r : Len(q) + j \in DOMAIN t /\ t[Len(q) + j] = r[j]
      /\ \A k \in DOMAIN t : k \in DOMAIN q \/ \E j \in DOMAIN r : k = Len(q) + j
  BY JoinParts
<1> HIDE DEF t
<1>2. \A k \in DOMAIN t : t[k][1] \in {"deploy", "remove", "stamp"} => k \in DOMAIN q
  BY <1>1
<1>3. ASSUME NEW k \in DOMAIN t, t[k][1] \in {"deploy", "remove"}
      PROVE  \E m \in DOMAIN t : k < m /\ t[m] = <<"stamp", t[k][2][1]>>
  <2>1. k \in DOMAIN q /\ t[k] = q[k]
    BY <1>1, <1>2, <1>3
  <2>2. PICK m \in DOMAIN q : k < m /\ q[m] = <<"stamp", q[k][2][1]>>
    BY <1>3, <2>1 DEF Ordered
  <2>3. QED
    BY <1>1, <2>1, <2>2
<1>4. ASSUME NEW k \in DOMAIN t, NEW m \in DOMAIN t, t[k][1] = "stamp", t[m] = t[k] PROVE k = m
  <2>1. k \in DOMAIN q /\ t[k] = q[k] /\ m \in DOMAIN q /\ t[m] = q[m]
    BY <1>1, <1>2, <1>4
  <2>2. QED
    BY <1>4, <2>1 DEF Ordered
<1>5. Ordered(t)
  BY <1>3, <1>4 DEF Ordered
<1>6. \A x : Has(q, x) => Has(t, x)
  BY <1>1 DEF Has
<1>7. \A k \in DOMAIN t : (\E j \in DOMAIN q : t[k] = q[j]) \/ (\E j \in DOMAIN r : t[k] = r[j])
  BY <1>1
<1>8. QED
  BY <1>1, <1>5, <1>6, <1>7 DEF t

\* One step less.
LEMMA OrderedTail ==
    ASSUME NEW q \in Seq(Steps), q # << >>, Ordered(q)
    PROVE  Ordered(Tail(q))
<1> DEFINE t == Tail(q)
<1>1. /\ \A k \in DOMAIN t : k \in Nat /\ k + 1 \in DOMAIN q /\ t[k] = q[k + 1]
      /\ \A k \in DOMAIN q : k \in Nat /\ (k = 1 \/ (k - 1 \in DOMAIN t /\ t[k - 1] = q[k]))
  BY TailParts
<1> HIDE DEF t
<1>2. ASSUME NEW k \in DOMAIN t, t[k][1] \in {"deploy", "remove"}
      PROVE  \E m \in DOMAIN t : k < m /\ t[m] = <<"stamp", t[k][2][1]>>
  <2>1. PICK m \in DOMAIN q : k + 1 < m /\ q[m] = <<"stamp", t[k][2][1]>>
    BY <1>1, <1>2 DEF Ordered
  <2>2. m - 1 \in DOMAIN t /\ t[m - 1] = q[m] /\ k < m - 1
    BY <1>1, <2>1
  <2>3. QED
    BY <2>1, <2>2
<1>3. ASSUME NEW k \in DOMAIN t, NEW m \in DOMAIN t, t[k][1] = "stamp", t[m] = t[k] PROVE k = m
  <2>1. k + 1 \in DOMAIN q /\ m + 1 \in DOMAIN q /\ q[k + 1][1] = "stamp" /\ q[m + 1] = q[k + 1]
    BY <1>1, <1>3
  <2>2. k + 1 = m + 1
    BY <2>1 DEF Ordered
  <2>3. QED
    BY <1>1, <2>2
<1>4. QED
  BY <1>2, <1>3 DEF Ordered, t

\* What is left when the first step is done.
LEMMA HasTail ==
    ASSUME NEW q \in Seq(Steps), q # << >>, NEW t
    PROVE  /\ Has(q, t) /\ t # q[1] => Has(Tail(q), t)
           /\ Has(Tail(q), t) => Has(q, t)
           /\ Has(q, q[1])
<1>1. /\ \A k \in DOMAIN Tail(q) : k \in Nat /\ k + 1 \in DOMAIN q /\ Tail(q)[k] = q[k + 1]
      /\ \A k \in DOMAIN q : k \in Nat /\ (k = 1 \/ (k - 1 \in DOMAIN Tail(q) /\ Tail(q)[k - 1] = q[k]))
      /\ 1 \in DOMAIN q
  BY TailParts
<1>2. QED
  BY <1>1 DEF Has

\* The steps that are left are of the command that runs, an addon's version last.
Belongs ==
    /\ todo \in Seq(Steps) /\ Ordered(todo)
    /\ running = "init" => \A k \in DOMAIN todo : InitStep(todo[k])
    /\ running \in {"apply", "config only"} => \A k \in DOMAIN todo : todo[k][1] \in {"suite", "settings"}

\* What a step does to them.
LEMMA TodoStep ==
    ASSUME Types, [Next]_vars
    PROVE  \/ UNCHANGED <<todo, running, installed>>
           \/ todo # << >> /\ todo' = Tail(todo) /\ UNCHANGED <<running, installed>>
           \/ todo' = << >> /\ running' = "nothing"
           \/ RunInit
           \/ \E configOnly \in BOOLEAN : Migrate(configOnly)
<1>1. CASE CopyEnds \/ RemoveStale \/ StampEnds \/ SaveEnds \/ RewriteEnds
  BY <1>1 DEF CopyEnds, RemoveStale, StampEnds, SaveEnds, RewriteEnds, Now, Done
<1>2. CASE BackUpBegins \/ BackUpEnds \/ CopyBegins \/ StampBegins \/ SaveBegins \/ RewriteBegins
  BY <1>2 DEF BackUpBegins, BackUpEnds, CopyBegins, StampBegins, SaveBegins, RewriteBegins
<1>3. CASE Finish \/ Stop
  BY <1>3 DEF Finish, Stop
<1>4. CASE Install
  BY <1>4 DEF Install, command, Idle, Types, Resting
<1>5. CASE Repair \/ UNCHANGED vars
  BY <1>5 DEF Repair, vars, command
<1>6. ASSUME NEW f \in ManagedFiles, EditFile(f) PROVE UNCHANGED <<todo, running, installed>>
  BY <1>6 DEF EditFile, command
<1>7. ASSUME NEW k \in Keys, Set(k) PROVE UNCHANGED <<todo, running, installed>>
  BY <1>7 DEF Set, command
<1>8. ASSUME NEW s \in Suites, EditSuite(s) PROVE UNCHANGED <<todo, running, installed>>
  BY <1>8 DEF EditSuite, command
<1>9. QED
  BY <1>1, <1>2, <1>3, <1>4, <1>5, <1>6, <1>7, <1>8 DEF Next

\* The writes that gd-tools init plans.
LEMMA InitTodo ==
    ASSUME Types, RunInit
    PROVE  /\ todo' \in Seq(Steps) /\ Ordered(todo') /\ Present(todo')
           /\ \A k \in DOMAIN todo' : InitStep(todo'[k])
<1> DEFINE q == FlattenSeq([i \in DOMAIN Layout[installed] |-> Tasks(Layout[installed][i])])
           r == IF toml = None THEN <<<<"create", "gd-tools.toml">>>> ELSE << >>
<1>1. q \in Seq(Steps) /\ Ordered(q) /\ Present(q) /\ \A k \in DOMAIN q : InitStep(q[k])
  BY DeploymentParts DEF Types, AddonType
<1>2. r \in Seq(Steps) /\ \A k \in DOMAIN r : r[k][1] = "create"
  <2>1. <<"create", "gd-tools.toml">> \in Steps
    BY DEF Steps
  <2>2. CASE toml = None
    BY <2>1, <2>2
  <2>3. CASE toml # None
    BY <2>3
  <2>4. QED
    BY <2>2, <2>3
<1>3. todo' = q \o r
  BY DEF RunInit
<1> HIDE DEF q, r
<1>4. /\ todo' \in Seq(Steps) /\ Ordered(todo')
      /\ \A t : Has(q, t) => Has(todo', t)
      /\ \A k \in DOMAIN todo' :
             (\E j \in DOMAIN q : todo'[k] = q[j]) \/ (\E j \in DOMAIN r : todo'[k] = r[j])
  BY <1>1, <1>2, <1>3, AppendParts
<1>5. Present(todo')
  BY <1>1, <1>4 DEF Present
<1>6. \A k \in DOMAIN todo' : InitStep(todo'[k])
  <2>1. \A j \in DOMAIN r : InitStep(r[j])
    BY <1>2 DEF InitStep
  <2>2. QED
    BY <1>1, <1>4, <2>1
<1>7. QED
  BY <1>4, <1>5, <1>6

\* The writes that gd-tools migrate plans: the suites, and then the settings.
LEMMA MigrateTodo ==
    ASSUME NEW configOnly \in BOOLEAN, Migrate(configOnly)
    PROVE  /\ todo' \in Seq(Steps) /\ Ordered(todo')
           /\ \A k \in DOMAIN todo' : todo'[k][1] \in {"suite", "settings"}
           /\ ~configOnly => \A s \in Plans : Has(todo', <<"suite", s>>)
           /\ Update # Empty => \E k \in DOMAIN todo' : todo'[k][1] = "settings"
           /\ Update = Empty => \A k \in DOMAIN todo' : todo'[k][1] # "settings"
<1> DEFINE q == IF configOnly THEN << >> ELSE Writes("suite", Sorted(Plans))
           r == IF Update = Empty THEN << >> ELSE <<<<"settings", "gd-tools.toml">>>>
<1>1. /\ q \in Seq(Steps) /\ \A k \in DOMAIN q : q[k][1] = "suite"
      /\ ~configOnly => \A s \in Plans : Has(q, <<"suite", s>>)
  <2>1. CASE configOnly
    BY <2>1
  <2>2. CASE ~configOnly
    <3>1. Plans \in SUBSET Suites
      BY DEF Plans, Reported
    <3>2. /\ Sorted(Plans) \in Seq(Plans)
          /\ \A s \in Plans : \E i \in DOMAIN Sorted(Plans) : Sorted(Plans)[i] = s
      BY <3>1, SortedParts
    <3>3. Sorted(Plans) \in Seq(ManagedFiles \cup Suites)
      BY <3>1, <3>2
    <3>4. /\ q \in Seq(Steps) /\ DOMAIN q = DOMAIN Sorted(Plans)
          /\ \A k \in DOMAIN q : q[k] = <<"suite", Sorted(Plans)[k]>>
      BY <2>2, <3>3, WritesParts
    <3> HIDE DEF q
    <3>5. \A s \in Plans : Has(q, <<"suite", s>>)
      BY <3>2, <3>4 DEF Has
    <3>6. QED
      BY <3>4, <3>5
  <2>3. QED
    BY <2>1, <2>2
<1>2. /\ r \in Seq(Steps) /\ \A k \in DOMAIN r : r[k][1] = "settings"
      /\ Update = Empty => DOMAIN r = {}
      /\ Update # Empty => 1 \in DOMAIN r
  BY DEF Steps
<1>3. todo' = q \o r
  BY DEF Migrate
<1> HIDE DEF q, r
<1>4. Ordered(q)
  BY <1>1 DEF Ordered
<1>5. /\ todo' \in Seq(Steps) /\ Ordered(todo')
      /\ \A t : Has(q, t) => Has(todo', t)
      /\ \A k \in DOMAIN todo' :
             (\E j \in DOMAIN q : todo'[k] = q[j]) \/ (\E j \in DOMAIN r : todo'[k] = r[j])
  BY <1>1, <1>2, <1>3, <1>4, AppendParts
<1>6. \A j \in DOMAIN r : Len(q) + j \in DOMAIN todo' /\ todo'[Len(q) + j] = r[j]
  BY <1>1, <1>2, <1>3, JoinParts
<1>7. Update # Empty => \E k \in DOMAIN todo' : todo'[k][1] = "settings"
  BY <1>2, <1>6
<1>8. QED
  BY <1>1, <1>2, <1>5, <1>7

LEMMA StepBelongs ==
    ASSUME Types, Belongs, [Next]_vars
    PROVE  Belongs'
<1>1. CASE UNCHANGED <<todo, running, installed>>
  BY <1>1 DEF Belongs, InitStep, Ordered
<1>2. CASE todo # << >> /\ todo' = Tail(todo) /\ UNCHANGED <<running, installed>>
  <2>1. todo' \in Seq(Steps) /\ Ordered(todo')
    BY <1>2, TailParts, OrderedTail DEF Belongs
  <2>2. \A k \in DOMAIN todo' : k + 1 \in DOMAIN todo /\ todo'[k] = todo[k + 1]
    BY <1>2, TailParts DEF Belongs
  <2>3. running' = "init" => \A k \in DOMAIN todo' : InitStep(todo'[k])
    BY <1>2, <2>2 DEF Belongs
  <2>4. running' \in {"apply", "config only"} => \A k \in DOMAIN todo' : todo'[k][1] \in {"suite", "settings"}
    BY <1>2, <2>2 DEF Belongs
  <2>5. installed' = installed
    BY <1>2
  <2>6. QED
    BY <2>1, <2>3, <2>4, <2>5 DEF Belongs, InitStep, Ordered
<1>3. CASE todo' = << >> /\ running' = "nothing"
  <2>1. todo' \in Seq(Steps) /\ DOMAIN todo' = {}
    BY <1>3
  <2>2. Ordered(todo')
    BY <2>1, Zenon DEF Ordered
  <2>3. QED
    BY <1>3, <2>1, <2>2 DEF Belongs, Ordered
<1>4. CASE RunInit
  <2>1. /\ todo' \in Seq(Steps) /\ Ordered(todo')
        /\ \A k \in DOMAIN todo' : InitStep(todo'[k])
    BY <1>4, InitTodo
  <2>2. installed' = installed /\ running' = "init"
    BY <1>4 DEF RunInit
  <2>3. QED
    BY <2>1, <2>2 DEF Belongs, InitStep, Ordered
<1>5. ASSUME NEW configOnly \in BOOLEAN, Migrate(configOnly) PROVE Belongs'
  <2>1. /\ todo' \in Seq(Steps) /\ Ordered(todo')
        /\ \A k \in DOMAIN todo' : todo'[k][1] \in {"suite", "settings"}
    BY <1>5, MigrateTodo
  <2>2. running' # "init"
    BY <1>5 DEF Migrate
  <2>3. QED
    BY <2>1, <2>2 DEF Belongs, Ordered
<1>6. QED
  BY <1>1, <1>2, <1>3, <1>4, <1>5, TodoStep

-----------------------------------------------------------------------------
(* An upgrade is whole, or noticed. *)

\* While init runs: what an addon of which the version is not yet written still lacks
\* is among the steps.
Pending ==
    running = "init" => \A i \in DOMAIN Layout[installed] :
        Has(todo, <<"stamp", Layout[installed][i].addon>>) =>
            /\ \A f \in Range(Layout[installed][i].files) :
                   Has(todo, <<"deploy", f>>) \/ disk[f] = installed
            /\ \A f \in Range(Layout[installed][i].removed) :
                   Has(todo, <<"remove", f>>) \/ disk[f] = Absent

AsDeployed(v, a) ==
    \A i \in DOMAIN Layout[v] : Layout[v][i].addon = a =>
        /\ \A f \in Range(Layout[v][i].files) : disk[f] \in {v, edit[f]}
        /\ \A f \in Range(Layout[v][i].removed) : disk[f] \in {Absent, edit[f]}

\* An addon nobody wrote into since its version was is as that version deploys it; an
\* init that did and was of a later version is seen by that version.
WholeAt(a) ==
    /\ opened[a] = 0 /\ stamp[a] \in Versions => AsDeployed(stamp[a], a)
    /\ opened[a] \in Versions /\ stamp[a] \in Versions => stamp[a] < opened[a]
Whole == \A a \in Addons : WholeAt(a)

Opening == half = "copying" => opened[File[1]] # 0

UpgradeInv == Belongs /\ Pending /\ Whole /\ Opening

\* The first step, when it is one for a file or a version.
LEMMA First ==
    ASSUME Types, Belongs, todo # << >>, todo[1][1] \in {"deploy", "remove", "stamp"}
    PROVE  /\ running = "init" /\ todo[1] = <<todo[1][1], File>> /\ installed \in Versions
           /\ todo[1][1] = "stamp" => File \in Addons
           /\ todo[1][1] # "stamp" =>
                  /\ File \in ManagedFiles /\ File[1] \in Addons
                  /\ \E i \in DOMAIN Layout[installed] :
                         IF todo[1][1] = "deploy" THEN File \in Range(Layout[installed][i].files)
                         ELSE File \in Range(Layout[installed][i].removed)
<1>1. 1 \in DOMAIN todo /\ todo[1] \in Steps
  BY TailParts DEF Belongs
<1>2. running = "init"
  BY <1>1 DEF Types, CommandType, Resting, Idle, Belongs
<1>3. InitStep(todo[1])
  BY <1>1, <1>2 DEF Belongs
<1>4. installed \in Versions
  BY DEF Types, AddonType
<1>5. todo[1] = <<todo[1][1], File>>
  BY <1>1 DEF Steps, File
<1>6. CASE todo[1][1] = "stamp"
  BY <1>2, <1>3, <1>4, <1>5, <1>6 DEF InitStep, File
<1>7. CASE todo[1][1] # "stamp"
  <2>1. PICK i \in DOMAIN Layout[installed] :
            IF todo[1][1] = "deploy" THEN File \in Range(Layout[installed][i].files)
            ELSE File \in Range(Layout[installed][i].removed)
    BY <1>3, <1>7 DEF InitStep, File
  <2>2. Layout[installed][i] \in Bundle
    BY <1>4, Layouts
  <2>3. File \in ManagedFiles
    <3>1. /\ Layout[installed][i].files \in Seq(ManagedFiles)
          /\ Layout[installed][i].removed \in Seq(ManagedFiles)
      BY <2>2 DEF Bundle
    <3>2. QED
      BY <2>1, <3>1, RangeParts
  <2>4. File[1] \in Addons
    BY <2>3, AssumedOfFiles
  <2>5. QED
    BY <1>2, <1>4, <1>5, <1>7, <2>1, <2>3, <2>4
<1>8. QED
  BY <1>6, <1>7

\* What an addon lacks is the same when nothing happens to its steps and files.
LEMMA StepPending ==
    ASSUME Types, Belongs, Pending, [Next]_vars
    PROVE  Pending'
<1> DEFINE Missing(q, d) ==
        \A i \in DOMAIN Layout[installed] :
            Has(q, <<"stamp", Layout[installed][i].addon>>) =>
                /\ \A f \in Range(Layout[installed][i].files) :
                       Has(q, <<"deploy", f>>) \/ d[f] = installed
                /\ \A f \in Range(Layout[installed][i].removed) :
                       Has(q, <<"remove", f>>) \/ d[f] = Absent
<1>1. installed \in Versions /\ disk \in [ManagedFiles -> Contents] /\ todo \in Seq(Steps)
  BY DEF Types, AddonType, Belongs
<1>2. running = "init" => Missing(todo, disk)
  BY DEF Pending
<1>3. ASSUME installed' = installed, Missing(todo', disk') PROVE Pending'
  BY <1>3 DEF Pending, Has
<1>4. \A i \in DOMAIN Layout[installed] :
          /\ \A f \in Range(Layout[installed][i].files) : f \in ManagedFiles /\ f[1] = Layout[installed][i].addon
          /\ \A f \in Range(Layout[installed][i].removed) : f \in ManagedFiles /\ f[1] = Layout[installed][i].addon
  <2> SUFFICES ASSUME NEW i \in DOMAIN Layout[installed]
               PROVE  /\ \A f \in Range(Layout[installed][i].files) : f \in ManagedFiles /\ f[1] = Layout[installed][i].addon
                      /\ \A f \in Range(Layout[installed][i].removed) : f \in ManagedFiles /\ f[1] = Layout[installed][i].addon
    OBVIOUS
  <2>1. Layout[installed][i] \in Bundle
    BY <1>1, Layouts
  <2>2. /\ Layout[installed][i].files \in Seq(ManagedFiles)
        /\ Layout[installed][i].removed \in Seq(ManagedFiles)
    BY <2>1 DEF Bundle
  <2>3. QED
    BY <1>1, <2>2, RangeParts, Layouts
<1>5. \A i, j \in DOMAIN Layout[installed] :
          \A f \in Range(Layout[installed][i].files) : f \notin Range(Layout[installed][j].removed)
  <2> SUFFICES ASSUME NEW i \in DOMAIN Layout[installed], NEW j \in DOMAIN Layout[installed],
                      NEW f \in Range(Layout[installed][i].files), f \in Range(Layout[installed][j].removed)
               PROVE  FALSE
    OBVIOUS
  <2>1. Layout[installed][i].addon = Layout[installed][j].addon
    BY <1>4
  <2>2. i = j
    BY <1>1, <2>1, Layouts
  <2>3. QED
    BY <1>1, <2>2, Layouts
<1> HIDE DEF Missing
<1>6. ASSUME UNCHANGED <<todo, disk, running, installed>> PROVE Pending'
  BY <1>2, <1>3, <1>6 DEF Missing, Pending
<1>7. ASSUME running' # "init" PROVE Pending'
  BY <1>7 DEF Pending
<1>8. CASE RunInit
  <2>1. installed' = installed /\ Present(todo')
    BY <1>8, InitTodo DEF RunInit
  <2>2. Missing(todo', disk')
    BY <2>1 DEF Present, Missing
  <2>3. QED
    BY <1>3, <2>1, <2>2
<1>9. CASE CopyBegins
  <2>1. /\ todo # << >> /\ todo[1][1] = "deploy"
        /\ disk' = [disk EXCEPT ![File] = Torn] /\ UNCHANGED <<todo, running, installed>>
    BY <1>9 DEF CopyBegins, Now
  <2>2. running = "init" /\ todo[1] = <<"deploy", File>>
    BY <2>1, First
  <2>3. Has(todo, <<"deploy", File>>)
    BY <1>1, <2>1, <2>2, HasTail
  <2>4. \A i \in DOMAIN Layout[installed] : File \notin Range(Layout[installed][i].removed)
    BY <1>5, <2>1, First
  <2>5. Missing(todo, disk')
    <3>1. \A f \in ManagedFiles : f # File => disk'[f] = disk[f]
      BY <1>1, <2>1
    <3>2. QED
      BY <1>2, <1>4, <2>2, <2>3, <2>4, <3>1 DEF Missing
  <2>6. QED
    BY <1>3, <2>1, <2>5
<1>10. CASE CopyEnds
  <2>1. /\ todo # << >> /\ todo[1][1] = "deploy" /\ todo' = Tail(todo)
        /\ disk' = [disk EXCEPT ![File] = installed] /\ UNCHANGED <<running, installed>>
    BY <1>10 DEF CopyEnds, Now, Done
  <2>2. running = "init" /\ todo[1] = <<"deploy", File>> /\ File \in ManagedFiles
    BY <2>1, First
  <2>3. \A i \in DOMAIN Layout[installed] : File \notin Range(Layout[installed][i].removed)
    BY <1>5, <2>1, First
  <2>4. /\ \A t : Has(todo, t) /\ t # <<"deploy", File>> => Has(todo', t)
        /\ \A t : Has(todo', t) => Has(todo, t)
    BY <1>1, <2>1, <2>2, HasTail
  <2>5. \A f \in ManagedFiles : IF f = File THEN disk'[f] = installed ELSE disk'[f] = disk[f]
    BY <1>1, <2>1
  <2>6. ASSUME NEW i \in DOMAIN Layout[installed],
               Has(todo', <<"stamp", Layout[installed][i].addon>>)
        PROVE  /\ \A f \in Range(Layout[installed][i].files) :
                      Has(todo', <<"deploy", f>>) \/ disk'[f] = installed
               /\ \A f \in Range(Layout[installed][i].removed) :
                      Has(todo', <<"remove", f>>) \/ disk'[f] = Absent
    <3>1. /\ \A f \in Range(Layout[installed][i].files) :
                 Has(todo, <<"deploy", f>>) \/ disk[f] = installed
          /\ \A f \in Range(Layout[installed][i].removed) :
                 Has(todo, <<"remove", f>>) \/ disk[f] = Absent
      BY <1>2, <2>2, <2>4, <2>6 DEF Missing
    <3>2. ASSUME NEW f \in Range(Layout[installed][i].files)
          PROVE  Has(todo', <<"deploy", f>>) \/ disk'[f] = installed
      BY <1>4, <2>4, <2>5, <3>1
    <3>3. ASSUME NEW f \in Range(Layout[installed][i].removed)
          PROVE  Has(todo', <<"remove", f>>) \/ disk'[f] = Absent
      BY <1>4, <2>3, <2>4, <2>5, <3>1
    <3>4. QED
      BY <3>2, <3>3
  <2>7. QED
    BY <1>3, <2>1, <2>6 DEF Missing
<1>11. CASE RemoveStale
  <2>1. /\ todo # << >> /\ todo[1][1] = "remove" /\ todo' = Tail(todo)
        /\ disk' = [disk EXCEPT ![File] = Absent] /\ UNCHANGED <<running, installed>>
    BY <1>11 DEF RemoveStale, Now, Done
  <2>2. running = "init" /\ todo[1] = <<"remove", File>> /\ File \in ManagedFiles
    BY <2>1, First
  <2>3. \A i \in DOMAIN Layout[installed] : File \notin Range(Layout[installed][i].files)
    BY <1>5, <2>1, First
  <2>4. /\ \A t : Has(todo, t) /\ t # <<"remove", File>> => Has(todo', t)
        /\ \A t : Has(todo', t) => Has(todo, t)
    BY <1>1, <2>1, <2>2, HasTail
  <2>5. \A f \in ManagedFiles : IF f = File THEN disk'[f] = Absent ELSE disk'[f] = disk[f]
    BY <1>1, <2>1
  <2>6. ASSUME NEW i \in DOMAIN Layout[installed],
               Has(todo', <<"stamp", Layout[installed][i].addon>>)
        PROVE  /\ \A f \in Range(Layout[installed][i].files) :
                      Has(todo', <<"deploy", f>>) \/ disk'[f] = installed
               /\ \A f \in Range(Layout[installed][i].removed) :
                      Has(todo', <<"remove", f>>) \/ disk'[f] = Absent
    <3>1. /\ \A f \in Range(Layout[installed][i].files) :
                 Has(todo, <<"deploy", f>>) \/ disk[f] = installed
          /\ \A f \in Range(Layout[installed][i].removed) :
                 Has(todo, <<"remove", f>>) \/ disk[f] = Absent
      BY <1>2, <2>2, <2>4, <2>6 DEF Missing
    <3>2. ASSUME NEW f \in Range(Layout[installed][i].files)
          PROVE  Has(todo', <<"deploy", f>>) \/ disk'[f] = installed
      BY <1>4, <2>3, <2>4, <2>5, <3>1
    <3>3. ASSUME NEW f \in Range(Layout[installed][i].removed)
          PROVE  Has(todo', <<"remove", f>>) \/ disk'[f] = Absent
      BY <1>4, <2>4, <2>5, <3>1
    <3>4. QED
      BY <3>2, <3>3
  <2>7. QED
    BY <1>3, <2>1, <2>6 DEF Missing
<1>12. ASSUME todo # << >>, todo[1][1] \notin {"deploy", "remove"}, todo' = Tail(todo),
              UNCHANGED <<disk, running, installed>>
       PROVE  Pending'
  <2>1. /\ \A t : Has(todo, t) /\ t # todo[1] => Has(todo', t)
        /\ \A t : Has(todo', t) => Has(todo, t)
    BY <1>1, <1>12, HasTail
  <2>2. \A f : todo[1] # <<"deploy", f>> /\ todo[1] # <<"remove", f>>
    BY <1>12
  <2>3. running = "init" => Missing(todo', disk')
    BY <1>2, <1>12, <2>1, <2>2 DEF Missing
  <2>4. QED
    BY <1>3, <1>7, <1>12, <2>3
<1>13. CASE StampEnds \/ SaveEnds \/ RewriteEnds
  BY <1>12, <1>13 DEF StampEnds, SaveEnds, RewriteEnds, Now, Done, addons
<1>14. CASE BackUpBegins \/ BackUpEnds \/ StampBegins \/ SaveBegins \/ RewriteBegins \/ Repair
  BY <1>6, <1>14 DEF BackUpBegins, BackUpEnds, StampBegins, SaveBegins, RewriteBegins, Repair,
                    addons, command
<1>15. CASE Finish \/ Stop \/ Install
  BY <1>7, <1>15 DEF Finish, Stop, Install, Idle, command
<1>16. ASSUME NEW configOnly \in BOOLEAN, Migrate(configOnly) PROVE Pending'
  BY <1>7, <1>16 DEF Migrate
<1>17. ASSUME NEW f \in ManagedFiles, EditFile(f) PROVE Pending'
  BY <1>7, <1>17 DEF EditFile, Idle, command
<1>18. ASSUME NEW k \in Keys, Set(k) PROVE Pending'
  BY <1>7, <1>18 DEF Set, Idle, command
<1>19. ASSUME NEW s \in Suites, EditSuite(s) PROVE Pending'
  BY <1>7, <1>19 DEF EditSuite, Idle, command
<1>20. CASE UNCHANGED vars
  BY <1>6, <1>20 DEF vars, addons, command
<1>21. QED
  BY <1>8, <1>9, <1>10, <1>11, <1>13, <1>14, <1>15, <1>16, <1>17, <1>18, <1>19, <1>20 DEF Next

\* Nothing in an addon's directory changes, and neither do its version and its history.
LEMMA Elsewhere ==
    ASSUME Types, Whole, NEW a \in Addons, stamp'[a] = stamp[a], opened'[a] = opened[a],
           \A f \in ManagedFiles : f[1] = a => disk'[f] = disk[f] /\ edit'[f] = edit[f]
    PROVE  WholeAt(a)'
<1>1. WholeAt(a)
  BY DEF Whole
<1>2. ASSUME opened[a] = 0, stamp[a] \in Versions PROVE AsDeployed(stamp[a], a)'
  <2>1. AsDeployed(stamp[a], a)
    BY <1>1, <1>2 DEF WholeAt
  <2>2. ASSUME NEW i \in DOMAIN Layout[stamp[a]], Layout[stamp[a]][i].addon = a
        PROVE  /\ \A f \in Range(Layout[stamp[a]][i].files) : disk'[f] \in {stamp[a], edit'[f]}
               /\ \A f \in Range(Layout[stamp[a]][i].removed) : disk'[f] \in {Absent, edit'[f]}
    <3>1. Layout[stamp[a]][i] \in Bundle
      BY <1>2, Layouts
    <3>2. /\ Range(Layout[stamp[a]][i].files) \subseteq ManagedFiles
          /\ Range(Layout[stamp[a]][i].removed) \subseteq ManagedFiles
      BY <3>1, RangeParts DEF Bundle
    <3>3. /\ \A f \in Range(Layout[stamp[a]][i].files) : f[1] = a
          /\ \A f \in Range(Layout[stamp[a]][i].removed) : f[1] = a
      BY <1>2, <2>2, Layouts
    <3>4. /\ \A f \in Range(Layout[stamp[a]][i].files) : disk[f] \in {stamp[a], edit[f]}
          /\ \A f \in Range(Layout[stamp[a]][i].removed) : disk[f] \in {Absent, edit[f]}
      BY <2>1, <2>2 DEF AsDeployed
    <3>5. QED
      BY <3>2, <3>3, <3>4
  <2>3. QED
    BY <2>2 DEF AsDeployed
<1>3. QED
  BY <1>1, <1>2 DEF WholeAt

\* An addon that is written into is opened.
LEMMA Opened ==
    ASSUME Types, NEW a \in Addons, Opens(a)
    PROVE  /\ opened'[a] \in {Blind, installed} /\ opened'[a] # 0
           /\ \A b \in Addons : b # a => opened'[b] = opened[b]
           /\ stamp'[a] = stamp[a] => WholeAt(a)'
<1>1. installed \in Versions /\ opened \in [Addons -> {0, Blind} \cup Versions]
  BY DEF Types, AddonType
<1>2. /\ opened'[a] = (IF (stamp[a] \in Versions /\ stamp[a] >= installed) \/ opened[a] = Blind
                       THEN Blind ELSE installed)
      /\ \A b \in Addons : b # a => opened'[b] = opened[b]
  BY <1>1 DEF Opens
<1>3. opened'[a] \in {Blind, installed} /\ opened'[a] # 0
  BY <1>1, <1>2, AssumedOfFiles
<1>4. ASSUME stamp'[a] = stamp[a], opened'[a] \in Versions, stamp'[a] \in Versions
      PROVE  stamp'[a] < opened'[a]
  <2>1. opened'[a] = installed /\ ~(stamp[a] >= installed)
    BY <1>2, <1>4, AssumedOfFiles
  <2>2. stamp[a] \in Nat /\ installed \in Nat
    BY <1>1, <1>4, AssumedOfFiles
  <2>3. QED
    BY <1>4, <2>1, <2>2
<1>5. QED
  BY <1>2, <1>3, <1>4 DEF WholeAt

\* Only an init that is stopped leaves an addon in pieces, and it is opened then.
LEMMA StepWhole ==
    ASSUME Types, Belongs, Pending, Whole, Opening, [Next]_vars
    PROVE  Whole' /\ Opening'
<1>1. AddonType /\ Resting /\ todo \in Seq(Steps)
  BY DEF Types, Belongs
<1>2. ASSUME UNCHANGED <<disk, edit, stamp, opened>> PROVE Whole'
  BY <1>2 DEF Whole, WholeAt, AsDeployed
<1>3. ASSUME half' # "copying" PROVE Opening'
  BY <1>3 DEF Opening
<1>4. ASSUME Idle, UNCHANGED command PROVE Opening'
  BY <1>1, <1>3, <1>4 DEF command, Resting
<1>5. CASE BackUpBegins
  <2>1. /\ half' # "copying" /\ UNCHANGED <<disk, stamp, opened>> /\ File \in ManagedFiles
        /\ edit' = IF disk[File] = edit[File] THEN edit ELSE [edit EXCEPT ![File] = None]
    BY <1>5, First DEF BackUpBegins, Now
  <2>2. \A f \in ManagedFiles : disk[f] = edit[f] => edit'[f] = edit[f]
    BY <1>1, <2>1 DEF AddonType
  <2>3. ASSUME NEW a \in Addons PROVE WholeAt(a)'
    <3>1. ASSUME opened[a] = 0, stamp[a] \in Versions PROVE AsDeployed(stamp[a], a)'
      <4>1. AsDeployed(stamp[a], a)
        BY <3>1 DEF Whole, WholeAt
      <4>2. ASSUME NEW i \in DOMAIN Layout[stamp[a]], Layout[stamp[a]][i].addon = a
            PROVE  /\ \A f \in Range(Layout[stamp[a]][i].files) : disk'[f] \in {stamp[a], edit'[f]}
                   /\ \A f \in Range(Layout[stamp[a]][i].removed) : disk'[f] \in {Absent, edit'[f]}
        <5>1. Layout[stamp[a]][i] \in Bundle
          BY <3>1, Layouts
        <5>2. /\ Range(Layout[stamp[a]][i].files) \subseteq ManagedFiles
              /\ Range(Layout[stamp[a]][i].removed) \subseteq ManagedFiles
          BY <5>1, RangeParts DEF Bundle
        <5>3. QED
          BY <2>1, <2>2, <4>1, <4>2, <5>2 DEF AsDeployed
      <4>3. QED
        BY <2>1, <4>2 DEF AsDeployed
    <3>2. QED
      BY <2>1, <3>1 DEF Whole, WholeAt
  <2>4. QED
    BY <1>3, <2>1, <2>3 DEF Whole
<1>6. CASE CopyBegins
  <2>1. /\ half' = "copying" /\ disk' = [disk EXCEPT ![File] = Torn] /\ Opens(File[1])
        /\ UNCHANGED <<edit, stamp, todo>> /\ File \in ManagedFiles /\ File[1] \in Addons
    BY <1>6, First DEF CopyBegins, Now
  <2>2. PICK d \in Addons : d = File[1] /\ Opens(d)
    BY <2>1
  <2>3. opened'[d] # 0 /\ WholeAt(d)'
    BY <2>1, <2>2, Opened
  <2>4. ASSUME NEW a \in Addons, a # d PROVE WholeAt(a)'
    <3>1. opened'[a] = opened[a]
      BY <2>2, <2>4, Opened
    <3>2. \A f \in ManagedFiles : f[1] = a => disk'[f] = disk[f]
      BY <1>1, <2>1, <2>2, <2>4 DEF AddonType
    <3>3. QED
      BY <2>1, <3>1, <3>2, Elsewhere
  <2>5. Opening'
    BY <2>1, <2>2, <2>3 DEF Opening, File
  <2>6. QED
    BY <2>3, <2>4, <2>5 DEF Whole
<1>7. CASE CopyEnds
  <2>1. /\ half = "copying" /\ half' # "copying" /\ disk' = [disk EXCEPT ![File] = installed]
        /\ UNCHANGED <<edit, stamp, opened>> /\ File \in ManagedFiles /\ File[1] \in Addons
    BY <1>7, First DEF CopyEnds, Now, Done, history
  <2>2. PICK d \in Addons : d = File[1]
    BY <2>1
  <2>3. WholeAt(d)'
    BY <2>1, <2>2 DEF Opening, Whole, WholeAt
  <2>4. ASSUME NEW a \in Addons, a # d PROVE WholeAt(a)'
    <3>1. \A f \in ManagedFiles : f[1] = a => disk'[f] = disk[f]
      BY <1>1, <2>1, <2>2, <2>4 DEF AddonType
    <3>2. QED
      BY <2>1, <3>1, Elsewhere
  <2>5. QED
    BY <1>3, <2>1, <2>3, <2>4 DEF Whole
<1>8. CASE RemoveStale
  <2>1. /\ half' # "copying" /\ disk' = [disk EXCEPT ![File] = Absent]
        /\ IF disk[File] = Absent THEN UNCHANGED opened ELSE Opens(File[1])
        /\ UNCHANGED <<edit, stamp>> /\ File \in ManagedFiles /\ File[1] \in Addons
    BY <1>8, First DEF RemoveStale, Now, Done
  <2>2. CASE disk[File] = Absent
    <3>1. disk' = disk
      BY <1>1, <2>1, <2>2 DEF AddonType
    <3>2. QED
      BY <1>2, <1>3, <2>1, <2>2, <3>1
  <2>3. CASE disk[File] # Absent
    <3>1. PICK d \in Addons : d = File[1] /\ Opens(d)
      BY <2>1, <2>3
    <3>2. WholeAt(d)'
      BY <2>1, <3>1, Opened
    <3>3. ASSUME NEW a \in Addons, a # d PROVE WholeAt(a)'
      <4>1. opened'[a] = opened[a]
        BY <3>1, <3>3, Opened
      <4>2. \A f \in ManagedFiles : f[1] = a => disk'[f] = disk[f]
        BY <1>1, <2>1, <3>1, <3>3 DEF AddonType
      <4>3. QED
        BY <2>1, <4>1, <4>2, Elsewhere
    <3>4. QED
      BY <1>3, <2>1, <3>2, <3>3 DEF Whole
  <2>4. QED
    BY <2>2, <2>3
<1>9. CASE StampBegins
  <2>1. /\ half' # "copying" /\ stamp' = [stamp EXCEPT ![File] = Torn]
        /\ UNCHANGED <<disk, edit, opened>> /\ File \in Addons
    BY <1>9, First DEF StampBegins, Now, history
  <2>2. ASSUME NEW a \in Addons PROVE WholeAt(a)'
    <3>1. CASE a = File
      <4>1. stamp'[a] \notin Versions
        BY <1>1, <2>1, <3>1, AssumedOfFiles DEF AddonType
      <4>2. QED
        BY <4>1 DEF WholeAt
    <3>2. CASE a # File
      BY <1>1, <2>1, <3>2, Elsewhere DEF AddonType
    <3>3. QED
      BY <3>1, <3>2
  <2>3. QED
    BY <1>3, <2>1, <2>2 DEF Whole
<1>10. CASE StampEnds
  <2>1. /\ half' # "copying" /\ stamp' = [stamp EXCEPT ![File] = installed]
        /\ opened' = [opened EXCEPT ![File] = 0] /\ UNCHANGED <<disk, edit>>
        /\ todo # << >> /\ todo[1][1] = "stamp"
    BY <1>10 DEF StampEnds, Now, Done
  <2>2. /\ running = "init" /\ todo[1] = <<"stamp", File>> /\ File \in Addons
        /\ installed \in Versions
    BY <2>1, First
  <2>3. PICK d \in Addons : d = File
    BY <2>2
  <2>4. Has(todo, <<"stamp", d>>)
    BY <1>1, <2>1, <2>2, <2>3, HasTail
  <2>5. \A f : f[1] = d => ~Has(todo, <<"deploy", f>>) /\ ~Has(todo, <<"remove", f>>)
    <3> SUFFICES ASSUME NEW f, f[1] = d, NEW k \in DOMAIN todo,
                        todo[k] = <<"deploy", f>> \/ todo[k] = <<"remove", f>>
                 PROVE  FALSE
      BY DEF Has
    <3>1. todo[k][1] \in {"deploy", "remove"} /\ todo[k][2][1] = d
      OBVIOUS
    <3>2. PICK m \in DOMAIN todo : k < m /\ todo[m] = <<"stamp", d>>
      BY <3>1 DEF Belongs, Ordered
    <3>3. 1 \in DOMAIN todo /\ todo[1][1] = "stamp" /\ todo[m] = todo[1] /\ DOMAIN todo = 1 .. Len(todo)
      BY <1>1, <2>1, <2>2, <2>3, <3>2
    <3>4. m = 1
      BY <3>2, <3>3 DEF Belongs, Ordered
    <3>5. QED
      BY <3>2, <3>3, <3>4
  <2>6. AsDeployed(installed, d)'
    <3>1. ASSUME NEW i \in DOMAIN Layout[installed], Layout[installed][i].addon = d
          PROVE  /\ \A f \in Range(Layout[installed][i].files) : disk[f] = installed
                 /\ \A f \in Range(Layout[installed][i].removed) : disk[f] = Absent
      <4>1. /\ \A f \in Range(Layout[installed][i].files) : f[1] = d
            /\ \A f \in Range(Layout[installed][i].removed) : f[1] = d
        BY <2>2, <3>1, Layouts
      <4>2. /\ \A f \in Range(Layout[installed][i].files) :
                   Has(todo, <<"deploy", f>>) \/ disk[f] = installed
            /\ \A f \in Range(Layout[installed][i].removed) :
                   Has(todo, <<"remove", f>>) \/ disk[f] = Absent
        BY <2>2, <2>4, <3>1 DEF Pending
      <4>3. QED
        BY <2>5, <4>1, <4>2
    <3>2. UNCHANGED <<installed, disk, edit>>
      BY <1>10, <2>1 DEF StampEnds
    <3>3. QED
      BY <3>1, <3>2 DEF AsDeployed
  <2>7. installed' = installed
    BY <1>10 DEF StampEnds
  <2>8. WholeAt(d)'
    <3>1. stamp'[d] = installed /\ opened'[d] = 0 /\ 0 \notin Versions
      BY <1>1, <2>1, <2>3, AssumedOfFiles DEF AddonType
    <3>2. QED
      BY <2>6, <2>7, <3>1 DEF WholeAt, AsDeployed
  <2>9. ASSUME NEW a \in Addons, a # d PROVE WholeAt(a)'
    BY <1>1, <2>1, <2>3, <2>9, Elsewhere DEF AddonType
  <2>10. QED
    BY <1>3, <2>1, <2>8, <2>9 DEF Whole
<1>11. ASSUME NEW g \in ManagedFiles, EditFile(g) PROVE Whole' /\ Opening'
  <2>1. PICK c : disk' = [disk EXCEPT ![g] = c] /\ edit' = [edit EXCEPT ![g] = c]
    BY <1>11 DEF EditFile
  <2>2. UNCHANGED <<stamp, opened, installed>> /\ Opening'
    BY <1>4, <1>11, <1>1 DEF EditFile, Opening, Resting, command
  <2>3. \A f \in ManagedFiles : disk'[f] = edit'[f] \/ (disk'[f] = disk[f] /\ edit'[f] = edit[f])
    BY <1>1, <2>1 DEF AddonType
  <2>4. ASSUME NEW a \in Addons PROVE WholeAt(a)'
    <3>1. ASSUME opened[a] = 0, stamp[a] \in Versions PROVE AsDeployed(stamp[a], a)'
      <4>1. AsDeployed(stamp[a], a)
        BY <3>1 DEF Whole, WholeAt
      <4>2. ASSUME NEW i \in DOMAIN Layout[stamp[a]], Layout[stamp[a]][i].addon = a
            PROVE  /\ \A f \in Range(Layout[stamp[a]][i].files) : disk'[f] \in {stamp[a], edit'[f]}
                   /\ \A f \in Range(Layout[stamp[a]][i].removed) : disk'[f] \in {Absent, edit'[f]}
        <5>1. Layout[stamp[a]][i] \in Bundle
          BY <3>1, Layouts
        <5>2. /\ Range(Layout[stamp[a]][i].files) \subseteq ManagedFiles
              /\ Range(Layout[stamp[a]][i].removed) \subseteq ManagedFiles
          BY <5>1, RangeParts DEF Bundle
        <5>3. QED
          BY <2>3, <4>1, <4>2, <5>2 DEF AsDeployed
      <4>3. QED
        BY <2>2, <4>2 DEF AsDeployed
    <3>2. QED
      BY <2>2, <3>1 DEF Whole, WholeAt
  <2>5. QED
    BY <2>2, <2>4 DEF Whole
<1>12. CASE BackUpEnds \/ SaveBegins \/ SaveEnds \/ RewriteBegins \/ RewriteEnds \/ RunInit
              \/ Finish \/ Stop
  BY <1>2, <1>3, <1>12 DEF BackUpEnds, SaveBegins, SaveEnds, RewriteBegins, RewriteEnds, RunInit,
                          Finish, Stop, Done, addons, history
<1>13. ASSUME NEW configOnly \in BOOLEAN, Migrate(configOnly) PROVE Whole' /\ Opening'
  <2>1. half' = "look" /\ UNCHANGED <<disk, edit, stamp, opened>>
    BY <1>13 DEF Migrate, addons, history
  <2>2. QED
    BY <1>2, <1>3, <2>1
<1>14. CASE Install \/ Repair
  BY <1>2, <1>4, <1>14 DEF Install, Repair, addons, history
<1>15. ASSUME NEW k \in Keys, Set(k) PROVE Whole' /\ Opening'
  BY <1>2, <1>4, <1>15 DEF Set, addons
<1>16. ASSUME NEW s \in Suites, EditSuite(s) PROVE Whole' /\ Opening'
  BY <1>2, <1>4, <1>16 DEF EditSuite, addons
<1>17. CASE UNCHANGED vars
  BY <1>2, <1>17 DEF vars, addons, command, history, Opening, File
<1>18. QED
  BY <1>5, <1>6, <1>7, <1>8, <1>9, <1>10, <1>11, <1>12, <1>13, <1>14, <1>15, <1>16, <1>17 DEF Next

-----------------------------------------------------------------------------
(* migrate --apply gets there. *)

\* Once it has completed, gd-tools.toml has all that .gutconfig.json says.
Settled ==
    applies >= 1 =>
        /\ toml # Broken /\ Update = Empty /\ half # "saving"
        /\ \A k \in DOMAIN todo : todo[k][1] # "settings"

\* While it runs: so it has, or that is still to be saved.
Settling ==
    running = "apply" =>
        (toml # Broken /\ Update = Empty) \/ \E k \in DOMAIN todo : todo[k][1] = "settings"

\* The second looks into the directories that are configured now: there is no file in
\* them that ends it, and a suite that can be rewritten is among its steps ...
Rewriting ==
    running = "apply" /\ applies >= 1 =>
        \A s \in Suites : DirOf[s] \in TestDirs(toml) =>
            suites[s] # "stray" /\ (suites[s] = "gut" => Has(todo, <<"suite", s>>))

\* ... and when it has completed there is neither.
Clean ==
    applies >= 2 => \A s \in Suites : DirOf[s] \in TestDirs(toml) => suites[s] \notin {"gut", "stray"}

\* What a setting of .gutconfig.json becomes, in gd-tools.toml and in what is to be
\* saved there.
Given(k) == IF wish[k] # Unset THEN wish[k] ELSE gut[k]
Emptied == half = "saving" => toml \in {Empty, Broken}
Translated ==
    gut # None /\ ~filled /\ toml \notin {None, Broken} =>
        \A k \in Keys : gut[k] # Unset /\ toml[k] # Unset => toml[k] = Given(k)
Translating ==
    gut # None /\ ~filled /\ running \in {"apply", "config only"} =>
        \A k \in Keys : gut[k] # Unset => config[k] = Given(k)

ApplyInv ==
    /\ Settled /\ Settling /\ Rewriting /\ Clean
    /\ Emptied /\ Translated /\ Translating

\* Which command the first step is of.
LEMMA FirstOf ==
    ASSUME Types, Belongs, todo # << >>
    PROVE  /\ todo[1] = <<todo[1][1], File>> /\ ~Idle
           /\ todo[1][1] \in {"suite", "settings"} => running \in {"apply", "config only"}
           /\ todo[1][1] \notin {"suite", "settings"} => running = "init"
<1>1. 1 \in DOMAIN todo /\ todo[1] \in Steps
  BY TailParts DEF Belongs
<1>2. ~Idle /\ running \in {"nothing", "init", "apply", "config only"}
  BY DEF Types, CommandType, Resting
<1>3. running = "init" => InitStep(todo[1])
  BY <1>1 DEF Belongs
<1>4. running \in {"apply", "config only"} => todo[1][1] \in {"suite", "settings"}
  BY <1>1 DEF Belongs
<1>5. InitStep(todo[1]) => todo[1][1] \in {"deploy", "remove", "stamp", "create"}
  BY DEF InitStep
<1>6. todo[1] = <<todo[1][1], File>>
  BY <1>1 DEF Steps, File
<1>7. QED
  BY <1>2, <1>3, <1>4, <1>5, <1>6 DEF Idle

\* The translation: what migrate saves is what .gutconfig.json says, unless the user
\* said something else.
LEMMA StepTranslation ==
    ASSUME Types, Written, Belongs, Emptied, Translated, Translating, [Next]_vars
    PROVE  Emptied' /\ Translated' /\ Translating'
<1>1. ProjectType /\ CommandType /\ Resting
  BY DEF Types
<1>2. ASSUME UNCHANGED <<toml, wish, gut, filled>> PROVE Translated'
  BY <1>2 DEF Translated, Given
<1>3. ASSUME UNCHANGED <<wish, gut, filled, running, config>> PROVE Translating'
  BY <1>3 DEF Translating, Given
<1>4. ASSUME running' \in {"nothing", "init"} PROVE Translating'
  BY <1>4 DEF Translating
<1>5. ASSUME half' # "saving" PROVE Emptied'
  BY <1>5 DEF Emptied
<1>6. ASSUME toml' \in {Empty, Broken, None} PROVE Translated'
  BY <1>6 DEF Translated, Empty
<1>7. ASSUME Idle, UNCHANGED command PROVE Emptied' /\ Translating'
  BY <1>1, <1>4, <1>5, <1>7 DEF command, Idle, Resting
<1>8. CASE RunInit
  BY <1>2, <1>4, <1>5, <1>8 DEF RunInit, project, history
<1>9. ASSUME NEW configOnly \in BOOLEAN, Migrate(configOnly)
      PROVE  Emptied' /\ Translated' /\ Translating'
  <2>1. /\ half = "look" /\ half' # "saving" /\ toml # Broken /\ UNCHANGED <<toml, wish, gut, filled>>
        /\ config' = [k \in Keys |-> IF Update[k] # Unset THEN Update[k] ELSE Loaded(toml)[k]]
    BY <1>1, <1>9 DEF Migrate, project, history, Resting
  <2>2. ASSUME gut # None, ~filled, NEW k \in Keys, gut[k] # Unset PROVE config'[k] = Given(k)
    <3>1. CASE toml # None /\ toml[k] # Unset
      <4>1. Update[k] = Unset /\ Loaded(toml)[k] = toml[k]
        BY <2>2, <3>1 DEF Update, Loaded
      <4>2. toml[k] = Given(k)
        BY <2>1, <2>2, <3>1 DEF Translated
      <4>3. QED
        BY <2>1, <4>1, <4>2
    <3>2. CASE ~(toml # None /\ toml[k] # Unset)
      <4>1. Update[k] = gut[k]
        BY <2>2, <3>2 DEF Update
      <4>2. wish[k] = Unset
        BY <2>1, <3>2 DEF Written
      <4>3. QED
        BY <2>1, <2>2, <4>1, <4>2 DEF Given
    <3>3. QED
      BY <3>1, <3>2
  <2>3. Translating'
    BY <2>1, <2>2 DEF Translating, Given
  <2>4. QED
    BY <1>2, <1>5, <2>1, <2>3
<1>10. CASE SaveBegins
  <2>1. toml' \in {Empty, Broken} /\ UNCHANGED <<wish, gut, filled, running, config>>
    BY <1>10 DEF SaveBegins
  <2>2. QED
    BY <1>3, <1>6, <2>1 DEF Emptied, Empty
<1>11. CASE SaveEnds
  <2>1. /\ todo # << >> /\ todo[1][1] \in {"create", "settings"} /\ half' # "saving"
        /\ toml' = config /\ filled' = (filled \/ todo[1][1] = "create")
        /\ UNCHANGED <<wish, gut, running, config>>
    BY <1>11 DEF SaveEnds, Now, Done
  <2>2. CASE todo[1][1] = "settings"
    <3>1. running \in {"apply", "config only"} /\ filled' = filled
      BY <1>1, <2>1, <2>2, FirstOf DEF ProjectType
    <3>2. gut # None /\ ~filled => \A k \in Keys : gut[k] # Unset => config[k] = Given(k)
      BY <3>1 DEF Translating
    <3>3. Translated'
      BY <2>1, <3>1, <3>2 DEF Translated, Given
    <3>4. QED
      BY <1>3, <1>5, <2>1, <3>1, <3>3
  <2>3. CASE todo[1][1] = "create"
    <3>1. filled' /\ running = "init"
      BY <2>1, <2>3, FirstOf
    <3>2. QED
      BY <1>4, <1>5, <2>1, <3>1 DEF Translated
  <2>4. QED
    BY <2>1, <2>2, <2>3
<1>12. CASE Finish
  BY <1>2, <1>4, <1>5, <1>12 DEF Finish, project
<1>13. CASE Stop
  <2>1. running' = "nothing" /\ half' # "saving" /\ UNCHANGED <<toml, gut>>
    BY <1>13 DEF Stop, project
  <2>2. Translated'
    BY <1>2, <1>6, <1>13, <2>1 DEF Stop, Emptied
  <2>3. QED
    BY <1>4, <1>5, <2>1, <2>2
<1>14. ASSUME NEW k \in Keys, Set(k) PROVE Emptied' /\ Translated' /\ Translating'
  <2>1. Idle /\ toml # Broken /\ UNCHANGED <<gut, filled, command>>
    BY <1>14 DEF Set
  <2>2. PICK v \in Values :
             /\ toml' = [(IF toml = None THEN Empty ELSE toml) EXCEPT ![k] = v]
             /\ wish' = [wish EXCEPT ![k] = v]
    BY <1>14 DEF Set
  <2>3. toml # None => toml \in Settings
    BY <1>1, <2>1 DEF ProjectType
  <2>4. v # Unset
    BY AssumedOfSettings
  <2>5. ASSUME gut # None, ~filled, NEW j \in Keys, gut[j] # Unset, toml'[j] # Unset
        PROVE  toml'[j] = (IF wish'[j] # Unset THEN wish'[j] ELSE gut[j])
    <3>1. CASE j = k
      BY <1>1, <2>2, <2>3, <2>4, <3>1 DEF ProjectType, Settings, Empty
    <3>2. CASE j # k
      <4>1. wish'[j] = wish[j] /\ toml'[j] = (IF toml = None THEN Unset ELSE toml[j])
        BY <1>1, <2>2, <2>3, <3>2 DEF ProjectType, Settings, Empty
      <4>2. QED
        BY <2>1, <2>5, <4>1 DEF Translated, Given
    <3>3. QED
      BY <3>1, <3>2
  <2>6. Translated'
    BY <2>1, <2>5 DEF Translated, Given
  <2>7. QED
    BY <1>7, <2>1, <2>6
<1>15. CASE Repair
  BY <1>6, <1>7, <1>15 DEF Repair
<1>16. CASE Install
  BY <1>2, <1>7, <1>16 DEF Install, project, history
<1>17. ASSUME NEW f \in ManagedFiles, EditFile(f) PROVE Emptied' /\ Translated' /\ Translating'
  BY <1>2, <1>7, <1>17 DEF EditFile, project
<1>18. ASSUME NEW s \in Suites, EditSuite(s) PROVE Emptied' /\ Translated' /\ Translating'
  BY <1>2, <1>7, <1>18 DEF EditSuite
<1>19. CASE BackUpBegins \/ BackUpEnds \/ CopyBegins \/ CopyEnds \/ RemoveStale \/ StampBegins
               \/ StampEnds \/ RewriteBegins \/ RewriteEnds
  <2>1. half' # "saving" /\ UNCHANGED <<toml, wish, gut, filled, running, config>>
    BY <1>19 DEF BackUpBegins, BackUpEnds, CopyBegins, CopyEnds, RemoveStale, StampBegins,
                StampEnds, RewriteBegins, RewriteEnds, Done, project, history
  <2>2. QED
    BY <1>2, <1>3, <1>5, <2>1
<1>20. CASE UNCHANGED vars
  BY <1>2, <1>3, <1>20 DEF vars, project, command, history, Emptied
<1>21. QED
  BY <1>8, <1>9, <1>10, <1>11, <1>12, <1>13, <1>14, <1>15, <1>16, <1>17, <1>18, <1>19, <1>20 DEF Next

\* The count of completed migrations: nothing that was reached is undone.
LEMMA StepApplies ==
    ASSUME Types, Belongs, Settled, Settling, Rewriting, Clean, [Next]_vars
    PROVE  Settled' /\ Settling' /\ Rewriting' /\ Clean'
<1>1. ProjectType /\ CommandType /\ Counting /\ Resting /\ todo \in Seq(Steps)
  BY DEF Types, Belongs
<1>2. applies \in Nat
  BY <1>1 DEF Counting
<1>3. ASSUME applies' = 0, running' # "apply" PROVE Settled' /\ Settling' /\ Rewriting' /\ Clean'
  BY <1>3 DEF Settled, Settling, Rewriting, Clean
<1>4. ASSUME UNCHANGED <<toml, suites, gut, applies>> PROVE Clean'
  BY <1>4 DEF Clean, TestDirs, Loaded
<1>5. ASSUME running' # "apply" PROVE Settling' /\ Rewriting'
  BY <1>5 DEF Settling, Rewriting
<1>6. ASSUME UNCHANGED <<toml, gut, applies>>, half' # "saving",
             \A k \in DOMAIN todo' : todo'[k][1] # "settings" \/ Has(todo, todo'[k])
      PROVE  Settled'
  <2>1. Update' = Update
    BY <1>6 DEF Update
  <2>2. QED
    BY <1>6, <2>1 DEF Settled, Has
<1>7. ASSUME Idle, UNCHANGED <<toml, suites, gut, applies, command>>
      PROVE  Settled' /\ Settling' /\ Rewriting' /\ Clean'
  <2>1. Update' = Update
    BY <1>7 DEF Update
  <2>2. Settled'
    BY <1>1, <1>7, <2>1 DEF Settled, command, Resting
  <2>3. running' # "apply"
    BY <1>7 DEF Idle, command
  <2>4. QED
    BY <1>4, <1>5, <1>7, <2>2, <2>3
<1>8. CASE RunInit
  <2>1. /\ UNCHANGED <<toml, suites, gut, applies>> /\ half' # "saving" /\ running' # "apply"
    BY <1>8 DEF RunInit, project, history
  <2>2. \A k \in DOMAIN todo' : todo'[k][1] # "settings"
    BY <1>8, InitTodo DEF InitStep
  <2>3. QED
    BY <1>4, <1>5, <1>6, <2>1, <2>2
<1>9. ASSUME NEW configOnly \in BOOLEAN, Migrate(configOnly)
      PROVE  Settled' /\ Settling' /\ Rewriting' /\ Clean'
  <2>1. /\ UNCHANGED <<toml, suites, gut, applies>> /\ half' # "saving" /\ toml # Broken
        /\ running' = "apply" => ~configOnly
        /\ \A s \in Suites : DirOf[s] \in TestDirs(toml) => suites[s] # "stray"
    BY <1>9 DEF Migrate, project, history
  <2>2. /\ ~configOnly => \A s \in Plans : Has(todo', <<"suite", s>>)
        /\ Update # Empty => \E k \in DOMAIN todo' : todo'[k][1] = "settings"
        /\ Update = Empty => \A k \in DOMAIN todo' : todo'[k][1] # "settings"
    BY <1>9, MigrateTodo
  <2>3. Update' = Update
    BY <2>1 DEF Update
  <2>4. Settled' /\ Settling'
    BY <2>1, <2>2, <2>3 DEF Settled, Settling
  <2>5. Rewriting'
    BY <2>1, <2>2 DEF Rewriting, Has, Plans, Reported, Legacy, TestDirs, Loaded
  <2>6. QED
    BY <1>4, <2>1, <2>4, <2>5
<1>10. CASE SaveBegins
  <2>1. /\ todo # << >> /\ todo[1][1] \in {"create", "settings"}
        /\ applies' = (IF todo[1][1] = "create" THEN 0 ELSE applies)
        /\ UNCHANGED <<todo, running>>
    BY <1>10 DEF SaveBegins, Now
  <2>2. applies' = 0
    BY <1>1, <1>2, <2>1, TailParts DEF Settled
  <2>3. Settled' /\ Clean' /\ Rewriting'
    BY <2>2 DEF Settled, Clean, Rewriting
  <2>4. running = "apply" => todo[1][1] = "settings"
    BY <2>1, FirstOf
  <2>5. Settling'
    BY <1>1, <2>1, <2>4, TailParts DEF Settling
  <2>6. QED
    BY <2>3, <2>5
<1>11. CASE SaveEnds
  <2>1. half = "saving" /\ toml' = config /\ UNCHANGED <<applies, gut, config>>
    BY <1>11 DEF SaveEnds, Now
  <2>2. applies' = 0
    BY <1>2, <2>1 DEF Settled
  <2>3. toml' \in Settings /\ toml' \notin {None, Broken} /\ \A k \in Keys : toml'[k] # Unset
    BY <1>1, <2>1, AssumedOfSettings DEF CommandType, Settings
  <2>4. Update' = Empty
    BY <2>3 DEF Update, Empty
  <2>5. QED
    BY <2>2, <2>3, <2>4 DEF Settled, Settling, Rewriting, Clean
<1>12. ASSUME UNCHANGED <<toml, gut, applies, running>>, half' # "saving",
              \/ todo' = todo
              \/ todo # << >> /\ todo[1][1] # "settings" /\ todo' = Tail(todo)
       PROVE  Settled' /\ Settling'
  <2>1. \A k \in DOMAIN todo' : Has(todo, todo'[k])
    BY <1>1, <1>12, HasTail DEF Has
  <2>2. ASSUME NEW k \in DOMAIN todo, todo[k][1] = "settings"
        PROVE  \E j \in DOMAIN todo' : todo'[j][1] = "settings"
    <3>1. Has(todo, todo[k])
      BY DEF Has
    <3>2. Has(todo', todo[k])
      BY <1>1, <1>12, <2>2, <3>1, HasTail
    <3>3. QED
      BY <2>2, <3>2 DEF Has
  <2>3. Update' = Update
    BY <1>12 DEF Update
  <2>4. QED
    BY <1>6, <1>12, <2>1, <2>2, <2>3 DEF Settling
<1>13. CASE RewriteBegins
  <2>1. /\ UNCHANGED <<toml, gut, applies, running, todo>> /\ half' # "saving"
        /\ suites' = [suites EXCEPT ![File] = "torn"]
    BY <1>13 DEF RewriteBegins, history
  <2>2. \A s \in Suites : suites'[s] \in {"torn", suites[s]}
    BY <1>1, <2>1 DEF ProjectType
  <2>3. Rewriting' /\ Clean'
    BY <2>1, <2>2 DEF Rewriting, Clean, TestDirs, Loaded, Has
  <2>4. QED
    BY <1>12, <2>1, <2>3
<1>14. CASE RewriteEnds
  <2>1. /\ UNCHANGED <<toml, gut, applies, running>> /\ half' # "saving"
        /\ todo # << >> /\ todo[1][1] = "suite" /\ todo' = Tail(todo)
        /\ suites' = [suites EXCEPT ![File] = "native"]
    BY <1>14 DEF RewriteEnds, Now, Done, history
  <2>2. \A s \in Suites : IF s = File THEN suites'[s] = "native" ELSE suites'[s] = suites[s]
    BY <1>1, <2>1 DEF ProjectType
  <2>3. todo[1] = <<"suite", File>>
    BY <2>1, FirstOf
  <2>4. ASSUME NEW s, s # File, Has(todo, <<"suite", s>>) PROVE Has(todo', <<"suite", s>>)
    BY <1>1, <2>1, <2>3, <2>4, HasTail
  <2>5. ASSUME running' = "apply", applies' >= 1, NEW s \in Suites, DirOf[s] \in TestDirs(toml)'
        PROVE  suites'[s] # "stray" /\ (suites'[s] = "gut" => Has(todo', <<"suite", s>>))
    <3>1. DirOf[s] \in TestDirs(toml)
      BY <2>1, <2>5 DEF TestDirs, Loaded
    <3>2. suites[s] # "stray" /\ (suites[s] = "gut" => Has(todo, <<"suite", s>>))
      BY <2>1, <2>5, <3>1 DEF Rewriting
    <3>3. QED
      BY <2>2, <2>4, <3>2
  <2>6. Rewriting'
    BY <2>5 DEF Rewriting, Has
  <2>7. Clean'
    BY <2>1, <2>2 DEF Clean, TestDirs, Loaded
  <2>8. QED
    BY <1>12, <2>1, <2>6, <2>7
<1>15. CASE Finish
  <2>1. /\ todo = << >> /\ todo' = << >> /\ running' = "nothing" /\ half' # "saving"
        /\ applies' = (IF running = "apply" THEN applies + 1 ELSE applies)
        /\ UNCHANGED <<toml, suites, gut>>
    BY <1>15 DEF Finish, project
  <2>2. DOMAIN todo = {} /\ DOMAIN todo' = {}
    BY <2>1
  <2>3. Update' = Update
    BY <2>1 DEF Update
  <2>4. CASE running = "apply"
    <3>1. Settled'
      BY <2>1, <2>2, <2>3, <2>4 DEF Settled, Settling
    <3>2. applies' >= 2 => applies >= 1
      BY <1>2, <2>1, <2>4
    <3>3. Clean'
      BY <2>1, <2>2, <2>4, <3>2 DEF Rewriting, Has, Clean, TestDirs, Loaded
    <3>4. QED
      BY <1>5, <2>1, <3>1, <3>3
  <2>5. CASE running # "apply"
    BY <1>4, <1>5, <1>6, <2>1, <2>2, <2>5
  <2>6. QED
    BY <2>4, <2>5
<1>16. CASE Stop
  BY <1>3, <1>16 DEF Stop
<1>17. CASE Repair
  BY <1>3, <1>17 DEF Repair, Idle, command
<1>18. ASSUME NEW k \in Keys, Set(k) PROVE Settled' /\ Settling' /\ Rewriting' /\ Clean'
  BY <1>3, <1>18 DEF Set, Idle, command
<1>19. ASSUME NEW s \in Suites, EditSuite(s) PROVE Settled' /\ Settling' /\ Rewriting' /\ Clean'
  BY <1>3, <1>19 DEF EditSuite, Idle, command
<1>20. CASE Install
  BY <1>7, <1>20 DEF Install, project, history
<1>21. ASSUME NEW f \in ManagedFiles, EditFile(f) PROVE Settled' /\ Settling' /\ Rewriting' /\ Clean'
  BY <1>7, <1>21 DEF EditFile, project
<1>22. CASE BackUpBegins \/ BackUpEnds \/ CopyBegins \/ CopyEnds \/ RemoveStale \/ StampBegins
               \/ StampEnds
  <2>1. /\ UNCHANGED <<toml, suites, gut, applies, running>> /\ half' # "saving" /\ todo # << >>
        /\ todo[1][1] \in {"deploy", "remove", "stamp"} /\ todo' \in {todo, Tail(todo)}
    BY <1>22 DEF BackUpBegins, BackUpEnds, CopyBegins, CopyEnds, RemoveStale, StampBegins,
                StampEnds, Now, Done, project, history
  <2>2. running = "init"
    BY <2>1, First
  <2>3. QED
    BY <1>4, <1>5, <1>12, <2>1, <2>2
<1>23. CASE UNCHANGED vars
  BY <1>23 DEF vars, project, command, history, Settled, Settling, Rewriting, Clean, Update, Has,
              TestDirs, Loaded
<1>24. QED
  BY <1>8, <1>9, <1>10, <1>11, <1>13, <1>14, <1>15, <1>16, <1>17, <1>18, <1>19, <1>20, <1>21,
     <1>22, <1>23 DEF Next

-----------------------------------------------------------------------------
\* All parts together, in every behaviour.
LEMMA Invariant == Spec => []IInv
<1>1. IInv /\ [Next]_vars => IInv'
  BY StepTypes, StepEdits, StepSettings DEF IInv
<1>2. QED
  BY InvInit, <1>1, PTL DEF Spec

\* The steps of the running command, and every addon's files.
LEMMA UpgradeInvariant == Spec => []UpgradeInv
<1>1. Init => UpgradeInv
  <2> SUFFICES ASSUME Init PROVE UpgradeInv
    OBVIOUS
  <2>1. todo \in Seq(Steps) /\ DOMAIN todo = {}
    BY DEF Init
  <2>2. Belongs
    BY <2>1 DEF Init, Belongs, Ordered
  <2>3. Pending /\ Opening
    BY DEF Init, Pending, Opening
  <2>4. \A a \in Addons : stamp[a] \notin Versions
    BY AssumedOfFiles DEF Init
  <2>5. QED
    BY <2>2, <2>3, <2>4 DEF UpgradeInv, Whole, WholeAt
<1>2. Types /\ UpgradeInv /\ [Next]_vars => UpgradeInv'
  BY StepBelongs, StepPending, StepWhole DEF UpgradeInv
<1>3. IInv => Types
  BY DEF IInv
<1>4. QED
  BY <1>1, <1>2, <1>3, Invariant, PTL DEF Spec

\* What migrate has reached, and what it is about to save.
LEMMA ApplyInvariant == Spec => []ApplyInv
<1>1. Init => ApplyInv
  BY DEF Init, ApplyInv, Settled, Settling, Rewriting, Clean, Emptied, Translated, Translating
<1>2. IInv /\ UpgradeInv /\ ApplyInv /\ [Next]_vars => ApplyInv'
  BY StepApplies, StepTranslation DEF IInv, UpgradeInv, ApplyInv
<1>3. QED
  BY <1>1, <1>2, Invariant, UpgradeInvariant, PTL DEF Spec

\* Every variable stays in its domain, and applies stays below the bound of commands
\* (the actions of gd-tools init and migrate, init.py:340 and migration/apply.py:1).
THEOREM Typing == Spec => []TypeOK
<1>1. IInv => TypeOK
  BY Parts DEF IInv
<1>2. QED
  BY Invariant, <1>1, PTL

\* What the user made of a managed file is in the file or in .backups/, for any
\* versions and layouts and wherever gd-tools init was stopped (init.py:107).
THEOREM EditsKept == Spec => []EditKept
<1>1. IInv => EditKept
  BY DEF IInv
<1>2. QED
  BY Invariant, <1>1, PTL

\* A setting the user wrote is never replaced by a default or by .gutconfig.json, for
\* any settings, except where writing gd-tools.toml was stopped (migration/apply.py:1).
THEOREM WishesKept == Spec => []NeverClobbered
<1>1. IInv => NeverClobbered
  BY DEF IInv, Written, NeverClobbered
<1>2. QED
  BY Invariant, <1>1, PTL

\* For any versions, layouts and edits, and wherever gd-tools init was stopped: an addon
\* that the gate passes or that doctor calls current is as its version deploys it or as
\* the user made it, unless an init at or below its version was stopped in it or gd-tools
\* was rolled back below an upgrade that was stopped in it (addon_check.py:56, doctor.py:264).
THEOREM UpgradesAreWhole == Spec => []UpgradeIsWhole
<1>1. Types /\ UpgradeInv => UpgradeIsWhole
  <2> SUFFICES ASSUME Types, UpgradeInv, NEW a \in Gated, Passes(a) \/ Current(a),
                      opened[a] # Blind, opened[a] <= installed
               PROVE  AsDeployed(stamp[a], a)
    BY DEF UpgradeIsWhole, AsDeployed
  <2>1. stamp[a] \in Versions /\ stamp[a] >= installed
    BY DEF Passes, Current
  <2>2. a \in Addons /\ WholeAt(a)
    BY AssumedOfFiles DEF UpgradeInv, Whole
  <2>3. /\ installed \in Nat /\ stamp[a] \in Nat
        /\ opened[a] \in {0} \cup Versions /\ \A v \in Versions : v \in Nat
    BY <2>1, <2>2, AssumedOfFiles DEF Types, AddonType
  <2>4. opened[a] \notin Versions
    BY <2>1, <2>2, <2>3 DEF WholeAt
  <2>5. QED
    BY <2>1, <2>2, <2>3, <2>4 DEF WholeAt
<1>2. IInv => Types
  BY DEF IInv
<1>3. QED
  BY <1>1, <1>2, Invariant, UpgradeInvariant, PTL

\* For any suites, settings and .gutconfig.json, and wherever attempts were stopped: what
\* gd-tools test still refuses after two migrate --apply that complete is reported and
\* the rewrite cannot change it, or is a GutTest file without test methods; and
\* .gutconfig.json is translated (migration/apply.py:126).
THEOREM AppliesConverge == Spec => []ApplyConverges
<1>1. Types /\ ApplyInv => ApplyConverges
  <2> SUFFICES ASSUME Types, ApplyInv, applies >= 2 PROVE ApplyConverges
    BY DEF ApplyConverges
  <2>1. applies >= 1
    BY DEF Types, Counting
  <2>2. toml # Broken /\ Update = Empty
    BY <2>1 DEF ApplyInv, Settled
  <2>3. ASSUME NEW s \in Suites, Refuses(s)
        PROVE  (s \in Reported /\ suites[s] # "gut") \/ suites[s] = "bare"
    BY <2>3 DEF ApplyInv, Clean, Reported, Refuses
  <2>4. ASSUME gut # None, ~filled, NEW k \in Keys, gut[k] # Unset PROVE toml[k] = Given(k)
    <3>1. Update[k] = Unset
      BY <2>2 DEF Empty
    <3>2. toml # None /\ toml[k] # Unset
      BY <2>4, <3>1 DEF Update
    <3>3. QED
      BY <2>2, <2>4, <3>2 DEF ApplyInv, Translated
  <2>5. QED
    BY <2>2, <2>3, <2>4 DEF ApplyConverges, Given
<1>2. IInv => Types
  BY DEF IInv
<1>3. QED
  BY <1>1, <1>2, Invariant, ApplyInvariant, PTL
=============================================================================
