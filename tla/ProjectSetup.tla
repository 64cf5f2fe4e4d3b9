------------------------------ MODULE ProjectSetup ------------------------------
(***************************************************************************)
(* What gd-tools writes into the user's own project: `gd-tools init'       *)
(* deploys the bundled addons and creates gd-tools.toml, `gd-tools migrate *)
(* --apply' rewrites GUT suites and translates .gutconfig.json.  Neither   *)
(* writes atomically: every file is truncated and then filled, and a       *)
(* signal, a full disk or a file that cannot be written ends the command   *)
(* between any two steps.  Between commands the user edits files, and      *)
(* installs another version of gd-tools.  Coverage runs ask for the        *)
(* versions init left, and `gd-tools test' for what migrate left.          *)
(*                                                                         *)
(* A command is the sequence of writes it still has to make.               *)
(***************************************************************************)
EXTENDS Naturals, Sequences, FiniteSets, SequencesExt

CONSTANTS
    NumVersions,  \* versions of gd-tools, in their order
    Addons,       \* addons, of which Gated are asked for by a coverage run
    Gated,
    Layout,       \* Layout[v]: sequence of [addon, files, removed] that version v deploys
    ManagedFiles, \* files that some version deploys: pairs <<addon, name>>
    Edits,        \* what the user may make of a managed file
    NumSuites,    \* test suites, in the order discovery sorts them
    DirOf,        \* DirOf[s]: the test directory of suite s
    SuiteStarts,  \* the kinds of suites a project may start with
    Keys,         \* settings that are translated; "dirs" is one of them
    Values, Default,            \* values of settings, and Default[k]
    Gutconfigs,   \* what .gutconfig.json may say: [Keys -> Values \cup {Unset}], or None
    Unset, None, Absent, Torn, Broken, Blind,
    MaxEdits, MaxCommands       \* bounds

Versions == 1 .. NumVersions
Suites == 1 .. NumSuites
Contents == Versions \cup Edits \cup {Absent, Torn}
Settings == [Keys -> Values \cup {Unset}]
Empty == [k \in Keys |-> Unset]

\* A suite extends GdToolsTest; or GutTest with test methods, and its declaration is one
\* that the rewrite finds or is not, or it uses a construct without a native equivalent;
\* or GutTest without a test method ("bare"); or it has test methods and extends neither.
Kinds == {"native", "gut", "nested", "unsupported", "bare", "stray", "torn"}
Legacy == {"gut", "nested", "unsupported"}

ASSUME SetupAssumption ==
    /\ {NumVersions, NumSuites, MaxEdits, MaxCommands} \subseteq Nat
    /\ Gated \subseteq Addons /\ \A f \in ManagedFiles : f[1] \in Addons
    /\ \A v \in Versions : Layout[v] \in
            Seq([addon : Addons, files : Seq(ManagedFiles), removed : Seq(ManagedFiles)])
    \* Every addon has a directory of its own, and nothing is both deployed and removed.
    /\ \A v \in Versions : \A i, j \in DOMAIN Layout[v] : Layout[v][i].addon = Layout[v][j].addon => i = j
    /\ \A v \in Versions : \A i \in DOMAIN Layout[v] :
            LET a == Layout[v][i]
            IN  /\ \A f \in Range(a.files) \cup Range(a.removed) : f[1] = a.addon
                /\ Range(a.files) \cap Range(a.removed) = {}
    /\ "dirs" \in Keys /\ Default \in [Keys -> Values] /\ Unset \notin Values
    /\ Gutconfigs \subseteq Settings \cup {None}
    /\ \A t \in Settings : t \notin {None, Broken}
    /\ SuiteStarts \subseteq [Suites -> Kinds \ {"torn"}]
    /\ {Absent, Torn, None} \cap (Versions \cup Edits) = {} /\ Versions \cap Edits = {}
    /\ Blind \notin {0} \cup Versions

VARIABLES
    installed,      \* the version of gd-tools on the machine
    disk, bak,      \* managed files, and their copies in .backups/
    stamp,          \* _version.txt of every addon
    toml,           \* gd-tools.toml
    suites, gut,    \* the suites and .gutconfig.json
    running,        \* the command that is running
    todo, half,     \* the writes before it, and where the first one is
    config,         \* the settings the running command will save
    counts,
    edit, opened, wish, applies, filled  \* history, see below

addons == <<disk, bak, stamp>>
project == <<toml, suites>>
command == <<running, todo, half, config>>
\* edit: the user's content of a file, until init backs up something else over it.
\* opened: the version of an init that wrote into an addon since its stamp was last
\* written, Blind when the stamp was not below that version.
\* wish: the settings the user wrote.  applies: `migrate --apply' that completed since
\* anything else happened to suites or settings.  filled: init created gd-tools.toml.
history == <<edit, opened, wish, applies, filled>>
vars == <<installed, addons, project, gut, command, counts, history>>

Init ==
    /\ installed \in Versions
    /\ disk = [f \in ManagedFiles |-> Absent] /\ bak = [f \in ManagedFiles |-> Absent]
    /\ stamp = [a \in Addons |-> Absent]
    /\ toml = None /\ suites \in SuiteStarts /\ gut \in Gutconfigs
    /\ running = "nothing" /\ todo = << >> /\ half = "look" /\ config = Default
    /\ counts = [edits |-> 0, commands |-> 0]
    /\ edit = [f \in ManagedFiles |-> None] /\ opened = [a \in Addons |-> 0]
    /\ wish = Empty /\ applies = 0 /\ filled = FALSE

Idle == running = "nothing"
Counted(what) ==
    /\ counts[what] < (IF what = "edits" THEN MaxEdits ELSE MaxCommands)
    /\ counts' = [counts EXCEPT ![what] = @ + 1]

Now(what, where) == todo # << >> /\ todo[1][1] \in what /\ half = where
File == todo[1][2]

\* The first write is done.
Done == todo' = Tail(todo) /\ half' = "look"

-----------------------------------------------------------------------------
(* gd-tools init. *)

Writes(what, names) == [i \in DOMAIN names |-> <<what, names[i]>>]

\* Mutant: the version is written before the files.
TasksStampFirst(a) ==
    <<<<"stamp", a.addon>>>> \o Writes("deploy", a.files) \o Writes("remove", a.removed)

\* install_coverage_addon, install_native_test_addon, install_editor_plugin.
Tasks(a) == Writes("deploy", a.files) \o Writes("remove", a.removed) \o <<<<"stamp", a.addon>>>>

\* load_config: what is not set has its default.
Loaded(t) == IF t = None THEN Default ELSE [k \in Keys |-> IF t[k] = Unset THEN Default[k] ELSE t[k]]
TestDirs(t) == Loaded(t)["dirs"]

\* Mutant: only what the file sets.
CreatedUnset == Empty

\* create_config_file: every setting, as run_init has loaded it.
Created == Loaded(toml)

\* run_init, when the settings can be loaded and Godot is found.
RunInit ==
    /\ Idle /\ Counted("commands") /\ toml # Broken /\ running' = "init"
    /\ todo' = FlattenSeq([i \in DOMAIN Layout[installed] |-> Tasks(Layout[installed][i])])
                    \o (IF toml = None THEN <<<<"create", "gd-tools.toml">>>> ELSE << >>)
    /\ half' = "look" /\ config' = Created
    /\ UNCHANGED <<installed, addons, project, gut, history>>

\* The first write to addon a since its stamp.
Opens(a) ==
    opened' = [opened EXCEPT ![a] =
        IF (stamp[a] \in Versions /\ stamp[a] >= installed) \/ @ = Blind THEN Blind ELSE installed]

\* Only a file that differs from the bundled one is backed up, and every one that
\* is no longer shipped.
Differs == IF todo[1][1] = "remove" THEN disk[File] # Absent ELSE disk[File] \notin {Absent, installed}

\* shutil.copy2 to <file>.bak, of whatever is there.
BackUpBegins ==
    /\ Now({"deploy", "remove"}, "look") /\ Differs
    /\ bak' = [bak EXCEPT ![File] = Torn] /\ half' = "backing up"
    /\ edit' = IF disk[File] = edit[File] THEN edit ELSE [edit EXCEPT ![File] = None]
    /\ UNCHANGED <<installed, disk, stamp, project, gut, running, todo, config, counts,
                   opened, wish, applies, filled>>

BackUpEnds ==
    /\ Now({"deploy", "remove"}, "backing up")
    /\ bak' = [bak EXCEPT ![File] = disk[File]] /\ half' = "backed up"
    /\ UNCHANGED <<installed, disk, stamp, project, gut, running, todo, config, counts, history>>

\* Mutant: without waiting for that.
MayReplaceAtOnce == half \in {"look", "backed up"}

\* A file is replaced once it is in .backups/, if it has to be.
MayReplace == half = (IF Differs THEN "backed up" ELSE "look")

\* shutil.copy2 of the bundled file truncates what is there, also when it is the same.
CopyBegins ==
    /\ Now({"deploy"}, half) /\ MayReplace
    /\ disk' = [disk EXCEPT ![File] = Torn] /\ half' = "copying" /\ Opens(File[1])
    /\ UNCHANGED <<installed, bak, stamp, project, gut, running, todo, config, counts,
                   edit, wish, applies, filled>>

CopyEnds ==
    /\ Now({"deploy"}, "copying")
    /\ disk' = [disk EXCEPT ![File] = installed] /\ Done
    /\ UNCHANGED <<installed, bak, stamp, project, gut, running, config, counts, history>>

\* _remove_stale_addon_files.
RemoveStale ==
    /\ Now({"remove"}, half) /\ MayReplace
    /\ disk' = [disk EXCEPT ![File] = Absent] /\ Done
    /\ IF disk[File] = Absent THEN UNCHANGED opened ELSE Opens(File[1])
    /\ UNCHANGED <<installed, bak, stamp, project, gut, running, config, counts,
                   edit, wish, applies, filled>>

StampBegins ==
    /\ Now({"stamp"}, "look")
    /\ stamp' = [stamp EXCEPT ![File] = Torn] /\ half' = "stamping"
    /\ UNCHANGED <<installed, disk, bak, project, gut, running, todo, config, counts, history>>

StampEnds ==
    /\ Now({"stamp"}, "stamping")
    /\ stamp' = [stamp EXCEPT ![File] = installed] /\ Done
    /\ opened' = [opened EXCEPT ![File] = 0]
    /\ UNCHANGED <<installed, disk, bak, project, gut, running, config, counts,
                   edit, wish, applies, filled>>

-----------------------------------------------------------------------------
(* gd-tools.toml. *)

\* save_config, by init or migrate: the file is empty, or has a part that does not
\* parse, until every setting is written.
SaveBegins ==
    /\ Now({"create", "settings"}, "look")
    /\ toml' \in {Empty, Broken} /\ half' = "saving"
    /\ applies' = IF todo[1][1] = "create" THEN 0 ELSE applies
    /\ UNCHANGED <<installed, addons, suites, gut, running, todo, config, counts,
                   edit, opened, wish, filled>>

SaveEnds ==
    /\ Now({"create", "settings"}, "saving")
    /\ toml' = config /\ Done
    /\ filled' = (filled \/ todo[1][1] = "create")
    /\ UNCHANGED <<installed, addons, suites, gut, running, config, counts,
                   edit, opened, wish, applies>>

-----------------------------------------------------------------------------
(* gd-tools migrate. *)

\* Mutant: the configured test directories are not asked for.
ReportedByDefault == {s \in Suites : DirOf[s] \in Default["dirs"] /\ suites[s] \in Legacy}

\* discover_native_suites with allow_legacy, and build_migration_report: a file without
\* a test method is passed over.
Reported == {s \in Suites : DirOf[s] \in TestDirs(toml) /\ suites[s] \in Legacy}

\* A set of suites, in the order discovery sorts them.
Sorted(S) == [i \in 1 .. Cardinality(S) |-> CHOOSE s \in S : Cardinality({t \in S : t <= s}) = i]

\* plan_rewrites: clean suites that the rewrite changes.
Plans == {s \in Reported : suites[s] = "gut"}

\* Mutant: the settings of .gutconfig.json, also those that are in gd-tools.toml.
UpdateOfAll == IF gut = None THEN Empty ELSE gut

\* build_config_update: only what gd-tools.toml does not set.
Update ==
    IF gut = None THEN Empty
    ELSE [k \in Keys |-> IF toml # None /\ toml[k] # Unset THEN Unset ELSE gut[k]]

\* migrate --apply, and --config-only; a file with test methods of another base class
\* ends either before it writes.
Migrate(configOnly) ==
    /\ Idle /\ Counted("commands") /\ toml # Broken
    /\ \A s \in Suites : DirOf[s] \in TestDirs(toml) => suites[s] # "stray"
    /\ running' = IF configOnly THEN "config only" ELSE "apply"
    /\ todo' = (IF configOnly THEN << >>
                ELSE Writes("suite", Sorted(Plans)))
                    \o (IF Update = Empty THEN << >> ELSE <<<<"settings", "gd-tools.toml">>>>)
    /\ half' = "look"
    /\ config' = [k \in Keys |-> IF Update[k] # Unset THEN Update[k] ELSE Loaded(toml)[k]]
    /\ UNCHANGED <<installed, addons, project, gut, history>>

\* Path.write_text of the source with the base class renamed.
RewriteBegins ==
    /\ Now({"suite"}, "look")
    /\ suites' = [suites EXCEPT ![File] = "torn"] /\ half' = "rewriting"
    /\ UNCHANGED <<installed, addons, toml, gut, running, todo, config, counts, history>>

RewriteEnds ==
    /\ Now({"suite"}, "rewriting")
    /\ suites' = [suites EXCEPT ![File] = "native"] /\ Done
    /\ UNCHANGED <<installed, addons, toml, gut, running, config, counts, history>>

-----------------------------------------------------------------------------

\* Everything is written.
Finish ==
    /\ ~Idle /\ todo = << >>
    /\ running' = "nothing" /\ half' = "look" /\ config' = Default
    /\ applies' = IF running = "apply" THEN applies + 1 ELSE applies
    /\ UNCHANGED <<installed, addons, project, gut, todo, counts, edit, opened, wish, filled>>

\* A signal, or an error of a write: nothing is undone.
Stop ==
    /\ ~Idle
    /\ running' = "nothing" /\ todo' = << >> /\ half' = "look" /\ config' = Default
    /\ applies' = 0
    /\ IF half = "saving" THEN wish' = Empty /\ filled' = FALSE ELSE UNCHANGED <<wish, filled>>
    /\ UNCHANGED <<installed, addons, project, gut, counts, edit, opened>>

\* pip install.
Install ==
    /\ Idle /\ Counted("commands")
    /\ installed' \in Versions \ {installed}
    /\ UNCHANGED <<addons, project, gut, command, history>>

\* The user changes or deletes a managed file.
EditFile(f) ==
    /\ Idle /\ Counted("edits") /\ disk[f] # Absent
    /\ \E c \in Edits \cup {Absent} :
            disk' = [disk EXCEPT ![f] = c] /\ edit' = [edit EXCEPT ![f] = c]
    /\ UNCHANGED <<installed, bak, stamp, project, gut, command, opened, wish, applies, filled>>

\* ... writes a setting
Set(k) ==
    /\ Idle /\ Counted("edits") /\ toml # Broken
    /\ \E v \in Values :
            /\ toml' = [(IF toml = None THEN Empty ELSE toml) EXCEPT ![k] = v]
            /\ wish' = [wish EXCEPT ![k] = v]
    /\ applies' = 0
    /\ UNCHANGED <<installed, addons, suites, gut, command, edit, opened, filled>>

\* ... removes or empties a gd-tools.toml that does not parse
Repair ==
    /\ Idle /\ toml = Broken /\ toml' \in {None, Empty} /\ applies' = 0
    /\ UNCHANGED <<installed, addons, suites, gut, command, counts, edit, opened, wish, filled>>

\* ... or works on a suite.
EditSuite(s) ==
    /\ Idle /\ Counted("edits")
    /\ \E k \in Kinds \ {"torn"} : suites' = [suites EXCEPT ![s] = k]
    /\ applies' = 0
    /\ UNCHANGED <<installed, addons, toml, gut, command, edit, opened, wish, filled>>

Next ==
    \/ RunInit \/ BackUpBegins \/ BackUpEnds \/ CopyBegins \/ CopyEnds \/ RemoveStale
    \/ StampBegins \/ StampEnds \/ SaveBegins \/ SaveEnds
    \/ (\E configOnly \in BOOLEAN : Migrate(configOnly)) \/ RewriteBegins \/ RewriteEnds
    \/ Finish \/ Stop \/ Install
    \/ (\E f \in ManagedFiles : EditFile(f)) \/ (\E k \in Keys : Set(k)) \/ Repair
    \/ (\E s \in Suites : EditSuite(s))

Spec == Init /\ [][Next]_vars

-----------------------------------------------------------------------------
(* What other commands make of it. *)

\* check_coverage_addon_gate, for one addon: missing, unreadable or older versions
\* refuse the run.
Passes(a) == stamp[a] \in Versions /\ stamp[a] >= installed

\* check_coverage_addon: files that are there, and a version that is not older.
Current(a) ==
    /\ Passes(a)
    /\ \A i \in DOMAIN Layout[installed] : Layout[installed][i].addon = a =>
            \A f \in Range(Layout[installed][i].files) : disk[f] # Absent

\* discover_native_suites, for `gd-tools test': a file that extends GutTest, with or
\* without test methods, or has test methods and extends neither base, refuses the run.
Refuses(s) == DirOf[s] \in TestDirs(toml) /\ suites[s] \in Legacy \cup {"bare", "stray"}

-----------------------------------------------------------------------------
(* Properties. *)

\* Every variable stays in its domain.
TypeOK ==
    /\ installed \in Versions
    /\ disk \in [ManagedFiles -> Contents] /\ bak \in [ManagedFiles -> Contents]
    /\ stamp \in [Addons -> Versions \cup {Absent, Torn}]
    /\ toml \in Settings \cup {None, Broken}
    /\ suites \in [Suites -> Kinds] /\ gut \in Gutconfigs
    /\ running \in {"nothing", "init", "apply", "config only"}
    /\ half \in {"look", "backing up", "backed up", "copying", "stamping", "saving", "rewriting"}
    /\ config \in [Keys -> Values]
    /\ edit \in [ManagedFiles -> Edits \cup {Absent, None}]
    /\ opened \in [Addons -> {0, Blind} \cup Versions] /\ wish \in Settings
    /\ applies \in 0 .. MaxCommands /\ filled \in BOOLEAN

\* init.py:14 and init.py:107: what the user made of a managed file is in the file or
\* in .backups/, wherever init was stopped, as long as init has not backed up
\* something else (a half-written file, or one that another version deployed).
EditKept == \A f \in ManagedFiles : edit[f] \in Edits => edit[f] \in {disk[f], bak[f]}

\* addon_check.py:56 and doctor.py:264: an upgrade that was stopped is noticed.  When
\* the gate passes an addon, or doctor calls it current, every file is as the stamped
\* version deploys it or as the user made it.  Two ways round that are exempt, as they
\* compare versions only: an init at or below the stamped version was stopped in the
\* addon, or gd-tools was rolled back below an upgrade that was stopped in it.
UpgradeIsWhole ==
    \A a \in Gated : (Passes(a) \/ Current(a)) /\ opened[a] # Blind /\ opened[a] <= installed =>
        \A i \in DOMAIN Layout[stamp[a]] : Layout[stamp[a]][i].addon = a =>
            /\ \A f \in Range(Layout[stamp[a]][i].files) : disk[f] \in {stamp[a], edit[f]}
            /\ \A f \in Range(Layout[stamp[a]][i].removed) : disk[f] \in {Absent, edit[f]}

\* migration/apply.py:1 and init.py:340: a setting the user wrote is neither replaced
\* by a default nor by .gutconfig.json, whatever ran since; only a stop in the middle
\* of writing gd-tools.toml loses it.
NeverClobbered ==
    half # "saving" /\ toml \notin {None, Broken} =>
        \A k \in Keys : wish[k] # Unset => toml[k] = wish[k]

\* migration/apply.py:126: whatever stopped earlier attempts, after two migrate --apply
\* that complete what `gd-tools test' still refuses needs a hand: it is reported and the
\* rewrite cannot change it, or it is a GutTest file without test methods, which no
\* report names; and .gutconfig.json is translated.  Two, because the first may change
\* the test directories the second looks into.  A suite that was torn in an attempt is
\* passed over by all of them, and not restored.
ApplyConverges ==
    applies >= 2 =>
        /\ toml # Broken
        /\ \A s \in Suites : Refuses(s) =>
                (s \in Reported /\ suites[s] # "gut") \/ suites[s] = "bare"
        /\ gut # None /\ ~filled => \A k \in Keys : gut[k] # Unset =>
                toml[k] = IF wish[k] # Unset THEN wish[k] ELSE gut[k]
=============================================================================
