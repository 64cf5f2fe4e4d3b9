----------------------------- MODULE FreshnessCaches -----------------------------
(***************************************************************************)
(* The import and preflight caches under .gd-tools/native: test commands   *)
(* that key, look up, run Godot and store, each in steps of its own, while *)
(* the user edits the project, cleans the caches or starts other commands. *)
(*                                                                         *)
(* The project has one of a few contents.  An edit makes any other one of  *)
(* it, also one that was there before: the keys are hashes, and an edit    *)
(* that is undone gives the same key again.  Contents may differ in what   *)
(* discovery sees, or only in the files the preflight key covers (suites,  *)
(* their resources, the addon, project.godot), or only in others.          *)
(***************************************************************************)
EXTENDS Naturals

CONSTANTS
    Commands,         \* test commands that may run at the same time
    NumContents,      \* contents of the project
    MaxEdits,         \* edits of the project (bound)
    Names,            \* per content: what discovery sees of it
    Covered           \* per content: what the preflight key covers of it

Contents == 1 .. NumContents

\* What is seen or covered of a content is named by one of those that agree on it.
ASSUME FreshnessAssumption ==
    /\ NumContents \in Nat \ {0} /\ MaxEdits \in Nat
    /\ Names \in [Contents -> Contents] /\ Covered \in [Contents -> Contents]

VARIABLES
    source,      \* the project's content
    edits,       \* how often it was edited
    sidecars,    \* 1 once the .import files are there: they are inputs too
    imported,    \* the content .godot was last imported from; 0 before the first
    entry,       \* import-cache/state.json
    preflights,  \* preflight-cache/<key>.json: the keys stored, with their results
    pc,          \* per command: its next step
    noCache,     \* whether it was started with --no-cache
    names,       \* the suites a command discovered
    key,         \* the key it has computed and still uses, or NoKey
    metadata,    \* the content its preflight metadata come from; 0 before
    seen,        \* history: the contents of the project since the command began
    past,        \* history: contents that an edit has replaced
    returned,    \* history: those that came back while .godot was of another content,
                 \* since the last import that succeeded
    failed,      \* history: contents that an import has failed on since then
    crossed      \* history: what was covered when a preflight was keyed that then ran
                 \* on something else

caches == <<entry, preflights>>
vars == <<source, edits, sidecars, imported, caches, pc, noCache, names, key, metadata,
          seen, past, returned, failed, crossed>>

NoKey == <<0, 0>>
Keys == (Contents \X (0 .. 1)) \cup {NoKey}

Init ==
    /\ source = 1 /\ edits = 0 /\ sidecars \in 0 .. 1
    /\ imported = 0
    /\ entry = NoKey /\ preflights = {}
    /\ pc = [c \in Commands |-> "idle"]
    /\ noCache = [c \in Commands |-> FALSE]
    /\ names = [c \in Commands |-> 0] /\ key = [c \in Commands |-> NoKey]
    /\ metadata = [c \in Commands |-> 0] /\ seen = [c \in Commands |-> {}]
    /\ past = {} /\ returned = {} /\ failed = {} /\ crossed = {}

Steps == {"idle", "key", "check", "import", "store", "preflight", "run preflight",
          "store preflight", "suites"}

At(c, p) == pc[c] = p
Goto(c, p) == pc' = [pc EXCEPT ![c] = p]
Project == <<source, edits, sidecars, imported>>
Local == <<noCache, names, key, metadata, seen>>
Undone == <<past, returned, failed, crossed>>
Runs(c) == pc[c] # "idle"

DropKey(c) == key' = [key EXCEPT ![c] = NoKey]

\* What a command knew goes with its process; the next command starts over.
Exit(c) ==
    /\ Goto(c, "idle") /\ noCache' = [noCache EXCEPT ![c] = FALSE]
    /\ names' = [names EXCEPT ![c] = 0] /\ key' = [key EXCEPT ![c] = NoKey]
    /\ metadata' = [metadata EXCEPT ![c] = 0] /\ seen' = [seen EXCEPT ![c] = {}]

-----------------------------------------------------------------------------
(* A command. *)

Discover(c) ==
    /\ At(c, "idle")
    /\ \E no \in BOOLEAN :
          noCache' = [noCache EXCEPT ![c] = no] /\ Goto(c, IF no THEN "import" ELSE "key")
    /\ seen' = [seen EXCEPT ![c] = {source}]
    /\ names' = [names EXCEPT ![c] = Names[source]]
    /\ UNCHANGED <<Project, caches, key, metadata, Undone>>

ImportKey == <<source, sidecars>>

\* compute_import_cache_key; a walk that raises leaves the command without a key.
ComputeKey(c) ==
    /\ At(c, "key")
    /\ \/ key' = [key EXCEPT ![c] = ImportKey] /\ Goto(c, "check")
       \/ Goto(c, "import") /\ UNCHANGED key
    /\ UNCHANGED <<Project, caches, noCache, names, metadata, seen, Undone>>

\* check_import_cache; an entry that cannot be read is a miss.
CheckImportCache(c) ==
    /\ At(c, "check")
    /\ \/ entry = key[c] /\ Goto(c, "preflight") /\ DropKey(c)
       \/ Goto(c, "import") /\ UNCHANGED key
    /\ UNCHANGED <<Project, caches, noCache, names, metadata, seen, Undone>>

\* _import_project. Whether Godot succeeded is not looked at; only an import
\* that takes too long, and is killed, ends the command.
Import(c) ==
    /\ At(c, "import")
    /\ \/ /\ imported' = source /\ sidecars' = 1
          /\ returned' = {} /\ failed' = {} /\ Goto(c, "store") /\ UNCHANGED Local
       \/ /\ failed' = failed \cup {source}
          /\ Goto(c, "store") /\ UNCHANGED <<imported, sidecars, returned, Local>>
       \/ Exit(c) /\ UNCHANGED <<imported, sidecars, returned, failed>>
    /\ UNCHANGED <<source, edits, caches, past, crossed>>

\* Mutant: the key is computed again when the import is over.
StoreKeyOfNow(c) ==
    /\ At(c, "store") /\ Goto(c, "preflight") /\ DropKey(c)
    /\ entry' = IF key[c] = NoKey THEN entry ELSE ImportKey
    /\ UNCHANGED <<Project, preflights, noCache, names, metadata, seen, Undone>>

\* store_import_freshness, which fails open.
StoreImportFreshness(c) ==
    /\ At(c, "store") /\ Goto(c, "preflight") /\ DropKey(c)
    /\ entry' \in IF key[c] = NoKey THEN {entry} ELSE {entry, key[c]}
    /\ UNCHANGED <<Project, preflights, noCache, names, metadata, seen, Undone>>

\* Mutant: the preflight key covers the discovered suites, not their source.
PreflightKeyOfNames(c) == <<names[c], 1>>

\* compute_cache_key: the suites as discovered, the hashes of the files as they
\* are now.
PreflightKey(c) == <<names[c], Covered[source]>>

\* run_preflight_cached up to the lookup. The key is kept for the store; a hit
\* whose artifacts cannot be copied is a miss.
LookUpPreflight(c) ==
    /\ At(c, "preflight")
    /\ \/ /\ ~noCache[c]
          /\ \E stored \in preflights :
                /\ stored.key = PreflightKey(c)
                /\ metadata' = [metadata EXCEPT ![c] = stored.source]
          /\ Goto(c, "suites") /\ DropKey(c)
       \/ /\ key' = [key EXCEPT ![c] = IF noCache[c] THEN NoKey ELSE PreflightKey(c)]
          /\ Goto(c, "run preflight") /\ UNCHANGED metadata
    /\ UNCHANGED <<Project, caches, noCache, names, seen, Undone>>

\* run_native_preflight: a Godot process loads the scripts that are there now;
\* an error ends the command and is not stored.
RunPreflight(c) ==
    /\ At(c, "run preflight")
    /\ \/ /\ Goto(c, "store preflight") /\ metadata' = [metadata EXCEPT ![c] = source]
          /\ crossed' = crossed \cup
                 IF key[c] = NoKey THEN {} ELSE {key[c][2]} \ {Covered[source]}
          /\ UNCHANGED <<noCache, names, key, seen>>
       \/ Exit(c) /\ UNCHANGED crossed
    /\ UNCHANGED <<Project, caches, past, returned, failed>>

\* Mutant: a stored key is not replaced.
StorePreflightBeside(c) ==
    /\ At(c, "store preflight") /\ Goto(c, "suites") /\ DropKey(c)
    /\ preflights' = IF key[c] = NoKey THEN preflights
                     ELSE preflights \cup {[key |-> key[c], source |-> metadata[c]]}
    /\ UNCHANGED <<Project, entry, noCache, names, metadata, seen, Undone>>

\* store_cached_preflight, which fails open; a key has one entry.
StorePreflight(c) ==
    /\ At(c, "store preflight") /\ Goto(c, "suites") /\ DropKey(c)
    /\ preflights' \in
          IF key[c] = NoKey THEN {preflights}
          ELSE {preflights, {s \in preflights : s.key # key[c]}
                                \cup {[key |-> key[c], source |-> metadata[c]]}}
    /\ UNCHANGED <<Project, entry, noCache, names, metadata, seen, Undone>>

\* Killed or interrupted, where every write so far is whole; or the suites are over.
End(c) ==
    /\ Runs(c) /\ Exit(c)
    /\ UNCHANGED <<Project, caches, Undone>>

-----------------------------------------------------------------------------
(* Around the commands. *)

\* The editor saves a file, or undoes that, or a branch is switched.
Edit(content) ==
    /\ content # source /\ source' = content /\ edits < MaxEdits /\ edits' = edits + 1
    /\ seen' = [c \in Commands |-> IF Runs(c) THEN seen[c] \cup {content} ELSE {}]
    /\ past' = past \cup {source}
    /\ returned' = returned \cup ({content} \cap (past \ {imported}))
    /\ UNCHANGED <<sidecars, imported, caches, pc, noCache, names, key, metadata, failed, crossed>>

\* gd-tools clean --cache
CleanCache ==
    /\ caches # <<NoKey, {}>> /\ entry' = NoKey /\ preflights' = {}
    /\ UNCHANGED <<Project, pc, Local, Undone>>

Command(c) ==
    \/ Discover(c) \/ ComputeKey(c) \/ CheckImportCache(c) \/ Import(c)
    \/ StoreImportFreshness(c) \/ LookUpPreflight(c) \/ RunPreflight(c)
    \/ StorePreflight(c) \/ End(c)

Next == (\E content \in Contents : Edit(content)) \/ CleanCache \/ \E c \in Commands : Command(c)

Spec == Init /\ [][Next]_vars

-----------------------------------------------------------------------------
(* Properties. *)

\* Every variable has the values a command can give it.
TypeOK ==
    /\ source \in Contents /\ edits \in 0 .. MaxEdits /\ sidecars \in 0 .. 1
    /\ imported \in Contents \cup {0}
    /\ entry \in Keys
    /\ preflights \subseteq [key : Contents \X Contents, source : Contents]
    /\ \A s, t \in preflights : s.key = t.key => s = t
    /\ pc \in [Commands -> Steps]
    /\ noCache \in [Commands -> BOOLEAN]
    /\ names \in [Commands -> Contents \cup {0}] /\ metadata \in [Commands -> Contents \cup {0}]
    /\ key \in [Commands -> Keys \cup (Contents \X Contents)]
    /\ seen \in [Commands -> SUBSET Contents]
    /\ past \subseteq Contents /\ returned \subseteq Contents /\ failed \subseteq Contents
    /\ crossed \subseteq Contents

\* A command whose suites run has an import of a content that the project has had
\* since the command began: whoever imported it, and whoever edited, cleaned, was
\* killed or stored an older key meanwhile.  The cache does not see to it for a content
\* that comes back after another one was imported, as an edit and its undo around an
\* import do, or that an import failed on, until an import succeeds: .godot is then not
\* of the content that the stored key says.
NoStaleImport ==
    \A c \in Commands : pc[c] = "suites" =>
        imported \in seen[c] \/ seen[c] \cap (returned \cup failed) # {}

Covers(contents) == {Covered[m] : m \in contents}

\* The preflight metadata its suites run with, cached or not, are of files as the
\* preflight key covers them since the command began: whatever was edited, undone and
\* stored meanwhile, and before.  Only if an edit fell between the key of a preflight
\* and its process is what the key covered not what the stored metadata are of.
NoStaleMetadata ==
    \A c \in Commands : pc[c] = "suites" =>
        /\ metadata[c] # 0
        /\ \/ Covered[metadata[c]] \in Covers(seen[c])
           \/ Covers(seen[c]) \cap crossed # {}

-----------------------------------------------------------------------------
(* A statement of the documentation that the code does not keep. *)

\* "A failed or timed-out import always re-runs on the next invocation": no
\* command goes on without an import while the last one has failed.
FailedImportReruns ==
    [][\A c \in Commands :
          At(c, "check") /\ pc'[c] = "preflight" => failed = {}]_vars
=============================================================================
