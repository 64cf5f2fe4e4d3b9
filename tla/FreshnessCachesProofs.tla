-------------------------- MODULE FreshnessCachesProofs --------------------------
(***************************************************************************)
(* For any commands, contents, edits and undone edits, any mix of          *)
(* --no-cache and imports that fail: what a suite runs on is of a content  *)
(* its command saw, but for the contents that the history variables name.  *)
(***************************************************************************)
EXTENDS FreshnessCaches, TLAPS

\* Contents of which the key alone does not say what .godot was made of.
Lost == returned \cup failed

Fresh(c) == imported \in seen[c] \/ seen[c] \cap Lost # {}

\* Whoever finds this content unchanged may go on with the import that is there.
Describes(content) ==
    content \notin Lost =>
        /\ content = source => imported = content
        /\ \A c \in Commands : Runs(c) /\ content \in seen[c] => Fresh(c)

\* The project has, or had, this content: an edit that makes it again undoes another.
Once(content) == content \in past \cup {source}

MetadataAre(c) ==
    /\ metadata[c] \in Contents
    /\ Covered[metadata[c]] \in Covers(seen[c]) \/ Covers(seen[c]) \cap crossed # {}

ImportKeyOf(c) ==
    key[c] = NoKey \/ (key[c] \in Contents \X (0 .. 1)
                       /\ key[c][1] \in seen[c] /\ Once(key[c][1]))

PreflightKeyOf(c) == key[c] = NoKey \/ key[c] \in Contents \X Contents

CommandInv(c) ==
    /\ Runs(c) => source \in seen[c] /\ names[c] \in Contents
    /\ pc[c] \in {"idle", "key", "preflight", "suites"} => key[c] = NoKey
    /\ pc[c] = "check" => key[c] # NoKey
    /\ pc[c] \in {"check", "import", "store"} => ImportKeyOf(c)
    /\ pc[c] = "store" /\ key[c] # NoKey => Describes(key[c][1])
    /\ pc[c] \in {"store", "preflight", "run preflight", "store preflight", "suites"} => Fresh(c)
    /\ pc[c] \in {"run preflight", "store preflight"} => PreflightKeyOf(c)
    /\ pc[c] = "store preflight" /\ key[c] # NoKey =>
          key[c][2] \in crossed \/ Covered[metadata[c]] = key[c][2]
    /\ pc[c] \in {"store preflight", "suites"} => MetadataAre(c)

EntryInv == entry # NoKey => Once(entry[1]) /\ Describes(entry[1])

StoredInv == \A s \in preflights : s.key[2] \in crossed \/ Covered[s.source] = s.key[2]

IInv == TypeOK /\ (\A c \in Commands : CommandInv(c)) /\ EntryInv /\ StoredInv

-----------------------------------------------------------------------------
(* What a step leaves as it is. *)

\* Keys and what is in them.
LEMMA Sorts ==
    /\ NoKey \in Keys /\ 0 \notin Contents /\ Keys' = Keys /\ Contents' = Contents
    /\ \A n \in Contents : Names[n] \in Contents /\ Covered[n] \in Contents
    /\ \A m, n \in Contents : <<m, n>> # NoKey
    /\ \A k \in Keys : k # NoKey => k \in Contents \X (0 .. 1) /\ k[1] \in Contents
  <1>1. NoKey \in Keys /\ Keys' = Keys /\ Contents' = Contents
    BY DEF Keys, Contents, NoKey
  <1>2. 0 \notin Contents
    BY FreshnessAssumption DEF Contents
  <1>3. \A n \in Contents : Names[n] \in Contents /\ Covered[n] \in Contents
    BY FreshnessAssumption
  <1>4. \A m, n \in Contents : <<m, n>> # NoKey
    BY <1>2 DEF NoKey
  <1>5. \A k \in Keys : k # NoKey => k \in Contents \X (0 .. 1) /\ k[1] \in Contents
    BY DEF Keys
  <1> QED
    BY <1>1, <1>2, <1>3, <1>4, <1>5

\* History only grows, and a content that was described stays so.
Onward ==
    /\ past \cup {source} \subseteq past' \cup {source'}
    /\ crossed \subseteq crossed'
    /\ \A content \in Contents : Once(content) /\ Describes(content) => Describes(content)'

Kept(d) ==
    /\ pc'[d] = pc[d] /\ names'[d] = names[d] /\ key'[d] = key[d] /\ metadata'[d] = metadata[d]
    /\ seen[d] \subseteq seen'[d]
    /\ Runs(d) => source' \in seen'[d]
    /\ Fresh(d) => Fresh(d)'

\* A command that does not move keeps its part.
LEMMA KeptInv ==
    ASSUME NEW d \in Commands, CommandInv(d), Onward, Kept(d)
    PROVE  CommandInv(d)'
  <1>1. Runs(d)' => source' \in seen'[d] /\ names'[d] \in Contents'
    BY Sorts DEF CommandInv, Kept, Runs
  <1>2. /\ pc'[d] \in {"idle", "key", "preflight", "suites"} => key'[d] = NoKey
        /\ pc'[d] = "check" => key'[d] # NoKey
    BY DEF CommandInv, Kept
  <1>3. ImportKeyOf(d) => ImportKeyOf(d)'
    BY Sorts DEF ImportKeyOf, Kept, Onward, Once, NoKey
  <1>4. pc'[d] = "store" /\ key'[d] # NoKey => Describes(key[d][1])'
    <2> SUFFICES ASSUME pc'[d] = "store", key'[d] # NoKey,
                        NEW content \in Contents, content = key[d][1]
                 PROVE  Describes(content)' /\ key'[d][1] = content
      BY Sorts DEF CommandInv, ImportKeyOf, Kept
    <2>1. pc[d] = "store" /\ key[d] # NoKey /\ key'[d] = key[d]
      BY DEF Kept
    <2>2. ImportKeyOf(d) /\ Describes(content)
      BY <2>1 DEF CommandInv
    <2>3. Once(content)
      BY <2>1, <2>2 DEF ImportKeyOf
    <2> QED
      BY <2>1, <2>2, <2>3 DEF Onward
  <1>5. /\ PreflightKeyOf(d) => PreflightKeyOf(d)'
        /\ MetadataAre(d) => MetadataAre(d)'
    BY Sorts DEF PreflightKeyOf, MetadataAre, Kept, Onward, Covers, NoKey
  <1>6. pc'[d] = "store preflight" /\ key'[d] # NoKey =>
            key'[d][2] \in crossed' \/ Covered[metadata'[d]] = key'[d][2]
    BY DEF CommandInv, Kept, Onward
  <1>7. pc'[d] \in {"store", "preflight", "run preflight", "store preflight", "suites"} => Fresh(d)'
    BY DEF CommandInv, Kept
  <1>8. /\ pc'[d] \in {"check", "import", "store"} => ImportKeyOf(d)'
        /\ pc'[d] \in {"run preflight", "store preflight"} => PreflightKeyOf(d)'
        /\ pc'[d] \in {"store preflight", "suites"} => MetadataAre(d)'
    BY <1>3, <1>5 DEF CommandInv, Kept
  <1> QED
    BY <1>1, <1>2, <1>4, <1>6, <1>7, <1>8 DEF CommandInv, NoKey

\* So does the whole invariant, if those that move see to themselves and so do the
\* caches that are written.
LEMMA StepInv ==
    ASSUME IInv, TypeOK', Onward,
           \A d \in Commands : Kept(d) \/ CommandInv(d)',
           entry' = entry \/ EntryInv',
           preflights' = preflights \/ StoredInv'
    PROVE  IInv'
  <1>1. \A d \in Commands : CommandInv(d)'
    BY KeptInv DEF IInv
  <1>2. ASSUME entry' = entry PROVE EntryInv'
    <2> SUFFICES ASSUME entry # NoKey, NEW content \in Contents, content = entry[1]
                 PROVE  Once(content)' /\ Describes(content)'
      BY <1>2, Sorts DEF EntryInv, IInv, TypeOK, NoKey
    <2>1. Once(content) /\ Describes(content)
      BY DEF IInv, EntryInv
    <2> QED
      BY <2>1 DEF Onward, Once
  <1>3. ASSUME preflights' = preflights PROVE StoredInv'
    BY <1>3 DEF IInv, StoredInv, Onward
  <1> QED
    BY <1>1, <1>2, <1>3 DEF IInv

\* A step of a command that neither edits nor imports.
Quiet(c) ==
    /\ UNCHANGED <<source, imported, seen, past, returned, failed>>
    /\ crossed \subseteq crossed'
    /\ Runs(c)
    /\ \A d \in Commands : d # c =>
          pc'[d] = pc[d] /\ names'[d] = names[d] /\ key'[d] = key[d] /\ metadata'[d] = metadata[d]

\* It keeps the types if it keeps to them in what it writes.
LEMMA QuietTypes ==
    ASSUME TypeOK, NEW c \in Commands, Quiet(c),
           UNCHANGED <<edits, sidecars, noCache>>, names' = names,
           NEW p \in Steps, pc' = [pc EXCEPT ![c] = p],
           NEW k \in Keys \cup (Contents \X Contents),
           key' = key \/ key' = [key EXCEPT ![c] = k],
           NEW m \in Contents,
           metadata' = metadata \/ metadata' = [metadata EXCEPT ![c] = m],
           entry' \in Keys, crossed' \subseteq Contents,
           preflights' = preflights
               \/ (preflights' \subseteq [key : Contents \X Contents, source : Contents]
                   /\ \A s, t \in preflights' : s.key = t.key => s = t)
    PROVE  TypeOK'
  <1>1. /\ pc \in [Commands -> Steps] /\ metadata \in [Commands -> Contents \cup {0}]
        /\ key \in [Commands -> Keys \cup (Contents \X Contents)]
    BY DEF TypeOK
  <1>2. /\ pc' \in [Commands -> Steps] /\ metadata' \in [Commands -> Contents \cup {0}]
        /\ key' \in [Commands -> Keys \cup (Contents \X Contents)]
    BY <1>1
  <1>3. /\ preflights' \subseteq [key : Contents \X Contents, source : Contents]
        /\ \A s, t \in preflights' : s.key = t.key => s = t
    BY DEF TypeOK
  <1> QED
    BY <1>2, <1>3, Sorts DEF TypeOK, Quiet, Steps

\* Nobody's import and no content's description changes with it.
LEMMA QuietOnward ==
    ASSUME NEW c \in Commands, Quiet(c)
    PROVE  /\ Onward
           /\ \A d \in Commands : Fresh(d)' = Fresh(d)
           /\ \A content : Describes(content) => Describes(content)'
           /\ \A content : Once(content)' = Once(content)
  <1>1. \A d \in Commands : Fresh(d)' = Fresh(d)
    BY DEF Fresh, Quiet, Lost
  <1>2. \A d \in Commands : Runs(d)' => Runs(d)
    BY DEF Quiet, Runs
  <1>3. ASSUME NEW content, Describes(content) PROVE Describes(content)'
    BY <1>1, <1>2, <1>3 DEF Describes, Quiet, Lost
  <1>4. \A content : Once(content)' = Once(content)
    BY DEF Once, Quiet
  <1> QED
    BY <1>1, <1>3, <1>4 DEF Onward, Quiet

LEMMA QuietInv ==
    ASSUME IInv, NEW c \in Commands, Quiet(c), TypeOK', CommandInv(c)',
           entry' = entry \/ EntryInv', preflights' = preflights \/ StoredInv'
    PROVE  IInv'
  <1>1. Onward /\ \A d \in Commands : Fresh(d)' = Fresh(d)
    BY QuietOnward
  <1>2. \A d \in Commands : d # c => Kept(d)
    BY <1>1 DEF IInv, Kept, Quiet, CommandInv
  <1> QED
    BY <1>1, <1>2, StepInv

\* A command that ends promises nothing, and describes nothing.
LEMMA InvExit ==
    ASSUME IInv, NEW c \in Commands, Exit(c),
           UNCHANGED <<Project, caches, Undone>>
    PROVE  IInv'
  <1>0. /\ pc' = [pc EXCEPT ![c] = "idle"] /\ noCache' = [noCache EXCEPT ![c] = FALSE]
        /\ names' = [names EXCEPT ![c] = 0] /\ key' = [key EXCEPT ![c] = NoKey]
        /\ metadata' = [metadata EXCEPT ![c] = 0] /\ seen' = [seen EXCEPT ![c] = {}]
        /\ UNCHANGED <<source, edits, sidecars, imported, entry, preflights>>
        /\ UNCHANGED <<past, returned, failed, crossed>>
    BY DEF Exit, Goto, Project, caches, Undone
  <1>t. TypeOK
    BY DEF IInv
  <1>1. TypeOK'
    <2>1. /\ pc' \in [Commands -> Steps] /\ noCache' \in [Commands -> BOOLEAN]
          /\ names' \in [Commands -> Contents \cup {0}]
          /\ metadata' \in [Commands -> Contents \cup {0}]
          /\ key' \in [Commands -> Keys \cup (Contents \X Contents)]
          /\ seen' \in [Commands -> SUBSET Contents]
      BY <1>0, <1>t, Sorts DEF TypeOK, Steps
    <2> QED
      BY <1>0, <1>t, <2>1, Sorts DEF TypeOK, Steps
  <1>2. pc'[c] = "idle" /\ key'[c] = NoKey
    BY <1>0, <1>t DEF TypeOK
  <1>3. CommandInv(c)'
    BY <1>2 DEF CommandInv, Runs, NoKey
  <1>4. \A d \in Commands : d # c =>
            /\ pc'[d] = pc[d] /\ names'[d] = names[d] /\ key'[d] = key[d]
            /\ metadata'[d] = metadata[d] /\ seen'[d] = seen[d]
    BY <1>0, <1>t DEF TypeOK
  <1>5. \A d \in Commands : d # c => Fresh(d)' = Fresh(d)
    BY <1>0, <1>4 DEF Fresh, Lost
  <1>6. ASSUME NEW content, Describes(content) PROVE Describes(content)'
    BY <1>0, <1>2, <1>4, <1>5, <1>6 DEF Describes, Runs, Lost
  <1>7. Onward
    BY <1>0, <1>6 DEF Onward
  <1>8. \A d \in Commands : d # c => Kept(d)
    BY <1>0, <1>4, <1>5 DEF Kept, IInv, CommandInv
  <1> QED
    BY <1>0, <1>1, <1>3, <1>7, <1>8, StepInv

\* A command begins with the content of now, and without a key: what it finds
\* described is what it sees.
LEMMA InvDiscover ==
    ASSUME IInv, NEW c \in Commands, Discover(c)
    PROVE  IInv'
  <1>0. /\ pc[c] = "idle"
        /\ pc' = [pc EXCEPT ![c] = pc'[c]] /\ pc'[c] \in {"import", "key"}
        /\ noCache' \in [Commands -> BOOLEAN]
        /\ names' = [names EXCEPT ![c] = Names[source]]
        /\ seen' = [seen EXCEPT ![c] = {source}]
        /\ UNCHANGED <<source, edits, sidecars, imported, entry, preflights>>
        /\ UNCHANGED <<key, metadata, past, returned, failed, crossed>>
    BY DEF IInv, TypeOK, Discover, At, Goto, Project, caches, Undone
  <1>t. TypeOK /\ CommandInv(c)
    BY DEF IInv
  <1>s. source \in Contents /\ Names[source] \in Contents /\ {source} \in SUBSET Contents
    BY <1>t, Sorts DEF TypeOK
  <1>1. TypeOK'
    <2>1. /\ pc' \in [Commands -> Steps] /\ names' \in [Commands -> Contents \cup {0}]
          /\ seen' \in [Commands -> SUBSET Contents]
      BY <1>0, <1>t, <1>s DEF TypeOK, Steps
    <2> QED
      BY <1>0, <1>t, <2>1, Sorts DEF TypeOK, Steps
  <1>2. /\ key'[c] = NoKey /\ seen'[c] = {source} /\ names'[c] = Names[source]
        /\ source' = source
    BY <1>0, <1>t DEF TypeOK, CommandInv
  <1>3. CommandInv(c)'
    BY <1>0, <1>2, <1>s, Sorts DEF CommandInv, ImportKeyOf, NoKey
  <1>4. \A d \in Commands : d # c =>
            /\ pc'[d] = pc[d] /\ names'[d] = names[d] /\ key'[d] = key[d]
            /\ metadata'[d] = metadata[d] /\ seen'[d] = seen[d]
    BY <1>0, <1>t DEF TypeOK
  <1>5. \A d \in Commands : d # c => Fresh(d)' = Fresh(d)
    BY <1>0, <1>4 DEF Fresh, Lost
  <1>6. ASSUME NEW content, Describes(content) PROVE Describes(content)'
    <2> SUFFICES ASSUME content \notin Lost
                 PROVE  /\ content = source => imported = content
                        /\ \A d \in Commands :
                              Runs(d)' /\ content \in seen'[d] => Fresh(d)'
      BY <1>0 DEF Describes, Lost
    <2>1. content = source => imported = content
      BY <1>6 DEF Describes
    <2>2. content \in seen'[c] => Fresh(c)'
      BY <1>0, <1>2, <2>1 DEF Fresh
    <2>3. \A d \in Commands : d # c => (Runs(d)' /\ content \in seen'[d] => Fresh(d)')
      BY <1>4, <1>5, <1>6 DEF Describes, Runs
    <2> QED
      BY <2>1, <2>2, <2>3
  <1>7. Onward
    BY <1>0, <1>6 DEF Onward
  <1>8. \A d \in Commands : d # c => Kept(d)
    BY <1>0, <1>4, <1>5 DEF Kept, IInv, CommandInv
  <1> QED
    BY <1>0, <1>1, <1>3, <1>7, <1>8, StepInv

\* An edit: what comes back that was not imported last is no longer described, and
\* what is new was never keyed.
LEMMA InvEdit ==
    ASSUME IInv, NEW new \in Contents, Edit(new)
    PROVE  IInv'
  <1>0. /\ source' = new /\ new # source /\ edits < MaxEdits /\ edits' = edits + 1
        /\ seen' = [c \in Commands |-> IF Runs(c) THEN seen[c] \cup {new} ELSE {}]
        /\ past' = past \cup {source}
        /\ returned' = returned \cup ({new} \cap (past \ {imported}))
        /\ UNCHANGED <<sidecars, imported, entry, preflights, pc, noCache, names, key>>
        /\ UNCHANGED <<metadata, failed, crossed>>
    BY DEF Edit, caches
  <1>t. TypeOK
    BY DEF IInv
  <1>1. TypeOK'
    <2>1. edits' \in 0 .. MaxEdits
      <3>1. edits \in 0 .. MaxEdits /\ MaxEdits \in Nat
        BY <1>t, FreshnessAssumption DEF TypeOK
      <3> QED
        BY <1>0, <3>1
    <2>2. /\ past' \subseteq Contents /\ returned' \subseteq Contents /\ source' \in Contents
          /\ seen' \in [Commands -> SUBSET Contents]
      BY <1>0, <1>t DEF TypeOK
    <2> QED
      BY <1>0, <1>t, <2>1, <2>2 DEF TypeOK, Contents, Keys
  <1>2. \A d \in Commands : Runs(d)' = Runs(d) /\ (Runs(d) => seen'[d] = seen[d] \cup {new})
    BY <1>0 DEF Runs
  <1>3. Lost \subseteq Lost'
    BY <1>0 DEF Lost
  <1>4. \A d \in Commands : Runs(d) /\ Fresh(d) => Fresh(d)'
    BY <1>0, <1>2, <1>3 DEF Fresh
  <1>5. ASSUME NEW content, Once(content), Describes(content) PROVE Describes(content)'
    <2> SUFFICES ASSUME content \notin Lost'
                 PROVE  /\ content = new => imported = content
                        /\ \A d \in Commands :
                              Runs(d) /\ content \in seen'[d] => Fresh(d)'
      BY <1>0, <1>2 DEF Describes
    <2>1. content = new => imported = content
      BY <1>0, <1>5 DEF Once, Lost
    <2>2. ASSUME NEW d \in Commands, Runs(d), content \in seen'[d] PROVE Fresh(d)'
      <3>1. CASE content = new
        BY <1>0, <1>2, <2>1, <2>2, <3>1 DEF Fresh
      <3>2. CASE content # new
        BY <1>2, <1>3, <1>4, <1>5, <2>2, <3>2 DEF Describes
      <3> QED
        BY <3>1, <3>2
    <2> QED
      BY <2>1, <2>2
  <1>6. Onward
    BY <1>0, <1>5 DEF Onward
  <1>7. ASSUME NEW d \in Commands PROVE Kept(d) \/ CommandInv(d)'
    <2>1. CASE Runs(d)
      BY <1>0, <1>2, <1>4, <2>1 DEF Kept
    <2>2. CASE ~Runs(d)
      <3>1. pc'[d] = "idle" /\ key'[d] = NoKey
        BY <1>0, <2>2 DEF Runs, IInv, CommandInv
      <3> QED
        BY <3>1 DEF CommandInv, Runs, NoKey
    <2> QED
      BY <2>1, <2>2
  <1> QED
    BY <1>0, <1>1, <1>6, <1>7, StepInv

\* An import leaves everyone with what they see: .godot is of it now; or it failed,
\* which the program does not notice, and what it failed on is lost.
LEMMA InvImport ==
    ASSUME IInv, NEW c \in Commands, Import(c), ~Exit(c)
    PROVE  IInv'
  <1>0. /\ pc[c] = "import" /\ pc' = [pc EXCEPT ![c] = "store"]
        /\ UNCHANGED <<source, edits, entry, preflights, past, crossed>>
        /\ UNCHANGED <<noCache, names, key, metadata, seen>>
        /\ \/ imported' = source /\ sidecars' = 1 /\ returned' = {} /\ failed' = {}
           \/ failed' = failed \cup {source} /\ UNCHANGED <<imported, sidecars, returned>>
    BY DEF Import, At, Goto, caches, Local
  <1>t. TypeOK /\ CommandInv(c)
    BY DEF IInv
  <1>1. TypeOK'
    <2>1. source \in Contents
      BY <1>t DEF TypeOK
    <2>2. /\ imported \in Contents \cup {0} /\ sidecars \in 0 .. 1
          /\ returned \subseteq Contents /\ failed \subseteq Contents
      BY <1>t DEF TypeOK
    <2>3. /\ imported' \in Contents \cup {0} /\ sidecars' \in 0 .. 1
          /\ returned' \subseteq Contents /\ failed' \subseteq Contents
      BY <1>0, <2>1, <2>2
    <2>4. pc' \in [Commands -> Steps]
      BY <1>0, <1>t DEF TypeOK, Steps
    <2> QED
      BY <1>0, <1>t, <2>3, <2>4, Sorts DEF TypeOK
  <1>2. pc'[c] = "store" /\ \A d \in Commands : d # c => pc'[d] = pc[d]
    BY <1>0, <1>t DEF TypeOK
  <1>3. \A d \in Commands : Runs(d)' => Fresh(d)'
    BY <1>0, <1>2 DEF IInv, CommandInv, Fresh, Runs, Lost
  <1>4. \A content : Describes(content)'
    <2>1. \A content : content \notin Lost' /\ content = source' => imported' = content
      BY <1>0 DEF Lost
    <2> QED
      BY <1>3, <2>1 DEF Describes
  <1>5. Onward
    BY <1>0, <1>4 DEF Onward
  <1>6. CommandInv(c)'
    <2>1. ImportKeyOf(c)'
      BY <1>0, <1>t, Sorts DEF CommandInv, ImportKeyOf, Once, NoKey
    <2>2. \A content : content = key'[c][1] => Describes(content)'
      BY <1>4
    <2> QED
      BY <1>0, <1>2, <1>3, <1>t, <2>1, <2>2, Sorts DEF CommandInv, Runs
  <1>7. ASSUME NEW d \in Commands, d # c PROVE Kept(d) \/ CommandInv(d)'
    <2>1. CASE Runs(d)
      BY <1>0, <1>2, <1>3, <1>7, <2>1 DEF Kept, Runs, IInv, CommandInv
    <2>2. CASE ~Runs(d)
      <3>1. pc'[d] = "idle" /\ key'[d] = NoKey
        BY <1>0, <1>2, <1>7, <2>2 DEF Runs, IInv, CommandInv
      <3> QED
        BY <3>1 DEF CommandInv, Runs, NoKey
    <2> QED
      BY <2>1, <2>2
  <1> QED
    BY <1>0, <1>1, <1>5, <1>6, <1>7, StepInv

-----------------------------------------------------------------------------
(* The quiet steps. *)

\* Empty caches promise nothing, and a step that changes nothing keeps everything.
LEMMA InvIdle ==
    ASSUME IInv, UNCHANGED <<Project, pc, Local, Undone>>,
           caches' = <<NoKey, {}>> \/ caches' = caches
    PROVE  IInv'
  <1>0. /\ UNCHANGED <<source, edits, sidecars, imported, pc, noCache, names, key, metadata>>
        /\ UNCHANGED <<seen, past, returned, failed, crossed>>
        /\ entry' = NoKey \/ entry' = entry
        /\ preflights' = {} \/ preflights' = preflights
    BY DEF Project, Local, Undone, caches
  <1>1. TypeOK'
    BY <1>0, Sorts DEF IInv, TypeOK
  <1>2. \A d \in Commands : Fresh(d)' = Fresh(d)
    BY <1>0 DEF Fresh, Lost
  <1>3. ASSUME NEW content, Describes(content) PROVE Describes(content)'
    BY <1>0, <1>2, <1>3 DEF Describes, Runs, Lost
  <1>4. Onward
    BY <1>0, <1>3 DEF Onward
  <1>5. \A d \in Commands : Kept(d)
    BY <1>0, <1>2 DEF Kept, IInv, CommandInv
  <1>6. /\ entry' = entry \/ EntryInv'
        /\ preflights' = preflights \/ StoredInv'
    BY <1>0 DEF EntryInv, StoredInv, NoKey
  <1> QED
    BY <1>1, <1>4, <1>5, <1>6, StepInv

\* The import key is of the content of now.
LEMMA InvComputeKey ==
    ASSUME IInv, NEW c \in Commands, ComputeKey(c)
    PROVE  IInv'
  <1>0. /\ pc[c] = "key" /\ pc' = [pc EXCEPT ![c] = pc'[c]]
        /\ \/ key' = [key EXCEPT ![c] = ImportKey] /\ pc'[c] = "check"
           \/ key' = key /\ pc'[c] = "import"
        /\ UNCHANGED <<source, edits, sidecars, imported, entry, preflights>>
        /\ UNCHANGED <<noCache, names, metadata, seen, past, returned, failed, crossed>>
    BY DEF IInv, TypeOK, ComputeKey, At, Goto, Project, caches, Undone
  <1>t. TypeOK /\ CommandInv(c)
    BY DEF IInv
  <1>s. source \in Contents /\ sidecars \in 0 .. 1
    BY <1>t DEF TypeOK
  <1>1. ImportKey \in Contents \X (0 .. 1) /\ ImportKey \in Keys /\ ImportKey[1] = source
    BY <1>s DEF ImportKey, Keys
  <1>2. ImportKey # NoKey
    BY <1>s, Sorts DEF ImportKey, NoKey
  <1>3. Quiet(c)
    BY <1>0, <1>t DEF Quiet, Runs, TypeOK
  <1>4. TypeOK'
    <2>1. entry' \in Keys /\ crossed' \subseteq Contents /\ pc'[c] \in Steps
      BY <1>0, <1>t DEF TypeOK, Steps
    <2> QED
      BY <1>0, <1>1, <1>3, <1>s, <1>t, <2>1, QuietTypes
  <1>5. CommandInv(c)'
    <2>1. Runs(c) /\ key[c] = NoKey /\ source \in seen[c]
      BY <1>0, <1>t DEF CommandInv, Runs
    <2>2. CASE pc'[c] = "check"
      <3>1. key'[c] = ImportKey
        BY <1>0, <1>t, <2>2 DEF TypeOK
      <3>2. ImportKeyOf(c)'
        BY <1>0, <1>1, <2>1, <3>1, Sorts DEF ImportKeyOf, Once, NoKey
      <3> QED
        BY <1>0, <1>2, <1>t, <2>1, <2>2, <3>1, <3>2, Sorts DEF CommandInv, Runs, NoKey
    <2>3. CASE pc'[c] = "import"
      BY <1>0, <1>t, <2>1, <2>3, Sorts DEF CommandInv, Runs, ImportKeyOf, NoKey
    <2> QED
      BY <1>0, <2>2, <2>3
  <1> QED
    BY <1>0, <1>3, <1>4, <1>5, QuietInv

\* On a hit, the entry describes what the command saw when it made its key.
LEMMA InvCheckImportCache ==
    ASSUME IInv, NEW c \in Commands, CheckImportCache(c)
    PROVE  IInv'
  <1>0. /\ pc[c] = "check" /\ pc' = [pc EXCEPT ![c] = pc'[c]]
        /\ \/ entry = key[c] /\ key' = [key EXCEPT ![c] = NoKey] /\ pc'[c] = "preflight"
           \/ key' = key /\ pc'[c] = "import"
        /\ UNCHANGED <<source, edits, sidecars, imported, entry, preflights>>
        /\ UNCHANGED <<noCache, names, metadata, seen, past, returned, failed, crossed>>
    BY DEF IInv, TypeOK, CheckImportCache, DropKey, At, Goto, Project, caches, Undone
  <1>t. TypeOK /\ CommandInv(c)
    BY DEF IInv
  <1>2. Quiet(c)
    BY <1>0, <1>t DEF Quiet, Runs, TypeOK
  <1>1. TypeOK'
    <2>1. /\ entry' \in Keys /\ crossed' \subseteq Contents /\ pc'[c] \in Steps
          /\ source \in Contents
      BY <1>0, <1>t DEF TypeOK, Steps
    <2> QED
      BY <1>0, <1>2, <1>t, <2>1, QuietTypes, Sorts
  <1>3. Runs(c) /\ key[c] # NoKey /\ ImportKeyOf(c)
    BY <1>0, <1>t DEF CommandInv, Runs
  <1>4. CASE pc'[c] = "preflight"
    <2>1. entry = key[c] /\ entry # NoKey /\ key'[c] = NoKey
      BY <1>0, <1>t, <1>3, <1>4 DEF TypeOK
    <2>2. entry[1] \in seen[c] /\ Describes(entry[1])
      BY <1>3, <2>1 DEF ImportKeyOf, IInv, EntryInv
    <2>3. Fresh(c)
      BY <1>3, <2>2 DEF Describes, Fresh
    <2>4. Fresh(c)'
      BY <1>2, <2>3, QuietOnward
    <2>5. CommandInv(c)'
      BY <1>0, <1>4, <1>t, <2>1, <2>4, Sorts DEF CommandInv, Runs
    <2> QED
      BY <1>0, <1>1, <1>2, <2>5, QuietInv
  <1>5. CASE pc'[c] = "import"
    <2>1. ImportKeyOf(c)'
      BY <1>0, <1>3, <1>5, Sorts DEF ImportKeyOf, Once, NoKey
    <2>2. CommandInv(c)'
      BY <1>0, <1>5, <1>t, <2>1, Sorts DEF CommandInv, Runs
    <2> QED
      BY <1>0, <1>1, <1>2, <2>2, QuietInv
  <1> QED
    BY <1>0, <1>4, <1>5

\* A stored key was computed before its import, and is of what the import left.
LEMMA InvStoreImportFreshness ==
    ASSUME IInv, NEW c \in Commands, StoreImportFreshness(c)
    PROVE  IInv'
  <1>0. /\ pc[c] = "store" /\ pc' = [pc EXCEPT ![c] = "preflight"]
        /\ key' = [key EXCEPT ![c] = NoKey]
        /\ entry' = entry \/ (key[c] # NoKey /\ entry' = key[c])
        /\ UNCHANGED <<source, edits, sidecars, imported, preflights>>
        /\ UNCHANGED <<noCache, names, metadata, seen, past, returned, failed, crossed>>
    BY DEF StoreImportFreshness, DropKey, At, Goto, Project, Undone
  <1>t. TypeOK /\ CommandInv(c)
    BY DEF IInv
  <1>1. Quiet(c)
    BY <1>0, <1>t DEF Quiet, Runs, TypeOK
  <1>2. ImportKeyOf(c) /\ Fresh(c) /\ (key[c] # NoKey => Describes(key[c][1]))
    BY <1>0, <1>t DEF CommandInv
  <1>3. TypeOK'
    <2>1. key[c] # NoKey => key[c] \in Keys
      BY <1>2 DEF ImportKeyOf, Keys
    <2>2. /\ entry' \in Keys /\ crossed' \subseteq Contents /\ "preflight" \in Steps
          /\ source \in Contents
      BY <1>0, <1>t, <2>1 DEF TypeOK, Steps
    <2> QED
      BY <1>0, <1>1, <1>t, <2>2, QuietTypes, Sorts
  <1>4. CommandInv(c)'
    <2>1. pc'[c] = "preflight" /\ key'[c] = NoKey /\ Fresh(c)'
      BY <1>0, <1>1, <1>2, <1>t, QuietOnward DEF TypeOK
    <2> QED
      BY <1>0, <1>t, <2>1, Sorts DEF CommandInv, Runs
  <1>5. entry' = entry \/ EntryInv'
    <2> SUFFICES ASSUME key[c] # NoKey, entry' = key[c],
                        NEW content, content = key[c][1]
                 PROVE  Once(content)' /\ Describes(content)'
      BY <1>0 DEF EntryInv, NoKey
    <2>1. Once(content) /\ Describes(content)
      BY <1>2 DEF ImportKeyOf
    <2> QED
      BY <1>1, <2>1, QuietOnward
  <1> QED
    BY <1>0, <1>1, <1>3, <1>4, <1>5, QuietInv

\* A hit takes metadata of what is covered now, but for what was crossed.
LEMMA InvLookUpPreflight ==
    ASSUME IInv, NEW c \in Commands, LookUpPreflight(c)
    PROVE  IInv'
  <1>t. TypeOK /\ CommandInv(c)
    BY DEF IInv
  <1>0. /\ pc[c] = "preflight" /\ pc' = [pc EXCEPT ![c] = pc'[c]]
        /\ UNCHANGED <<source, edits, sidecars, imported, entry, preflights>>
        /\ UNCHANGED <<noCache, names, seen, past, returned, failed, crossed>>
        /\ \/ /\ \E stored \in preflights :
                     /\ stored.key = PreflightKey(c)
                     /\ metadata' = [metadata EXCEPT ![c] = stored.source]
              /\ pc'[c] = "suites" /\ key' = [key EXCEPT ![c] = NoKey]
           \/ /\ key' = [key EXCEPT ![c] = NoKey] \/ key' = [key EXCEPT ![c] = PreflightKey(c)]
              /\ pc'[c] = "run preflight" /\ UNCHANGED metadata
    BY <1>t DEF TypeOK, LookUpPreflight, DropKey, At, Goto, Project, caches, Undone
  <1>1. Quiet(c)
    BY <1>0, <1>t DEF Quiet, Runs, TypeOK
  <1>2. /\ source \in Contents /\ names[c] \in Contents /\ source \in seen[c]
        /\ Fresh(c) /\ Covered[source] \in Contents
    BY <1>0, <1>t, Sorts DEF CommandInv, Runs, TypeOK
  <1>3. PreflightKey(c) \in Contents \X Contents /\ PreflightKey(c)[2] = Covered[source]
    BY <1>2 DEF PreflightKey
  <1>4. Fresh(c)' /\ Runs(c)
    BY <1>1, <1>2, QuietOnward DEF Quiet
  <1>5. /\ entry' \in Keys /\ crossed' \subseteq Contents /\ pc'[c] \in Steps
    BY <1>0, <1>t DEF TypeOK, Steps
  <1>6. CASE pc'[c] = "suites"
    <2>1. PICK stored \in preflights :
              stored.key = PreflightKey(c) /\ metadata' = [metadata EXCEPT ![c] = stored.source]
      BY <1>0, <1>6
    <2>2. key' = [key EXCEPT ![c] = NoKey]
      BY <1>0, <1>6
    <2>3. stored.source \in Contents
      BY <1>t DEF TypeOK
    <2>4. Covered[source] \in crossed \/ Covered[stored.source] = Covered[source]
      BY <1>3, <2>1 DEF IInv, StoredInv
    <2>5. metadata'[c] = stored.source /\ key'[c] = NoKey
      BY <1>t, <2>1, <2>2 DEF TypeOK
    <2>6. MetadataAre(c)'
      BY <1>0, <1>2, <2>3, <2>4, <2>5, Sorts DEF MetadataAre, Covers
    <2>7. CommandInv(c)'
      BY <1>0, <1>2, <1>4, <1>6, <2>5, <2>6, Sorts DEF CommandInv, Runs
    <2>8. TypeOK'
      BY <1>0, <1>1, <1>5, <1>t, <2>1, <2>2, <2>3, QuietTypes, Sorts
    <2> QED
      BY <1>0, <1>1, <2>7, <2>8, QuietInv
  <1>7. CASE pc'[c] = "run preflight"
    <2>1. key'[c] \in {NoKey, PreflightKey(c)} /\ metadata' = metadata
      BY <1>0, <1>7, <1>t DEF TypeOK
    <2>2. PreflightKeyOf(c)'
      BY <1>3, <2>1, Sorts DEF PreflightKeyOf, NoKey
    <2>3. CommandInv(c)'
      BY <1>0, <1>2, <1>4, <1>7, <2>2, Sorts DEF CommandInv, Runs
    <2>4. PICK k \in {NoKey, PreflightKey(c)} : key' = [key EXCEPT ![c] = k]
      BY <1>0, <1>7
    <2>5. k \in Keys \cup (Contents \X Contents)
      BY <1>3, <2>4, Sorts
    <2>6. TypeOK'
      BY <1>0, <1>1, <1>2, <1>5, <1>t, <2>1, <2>4, <2>5, QuietTypes
    <2> QED
      BY <1>0, <1>1, <2>3, <2>6, QuietInv
  <1> QED
    BY <1>0, <1>6, <1>7

\* A preflight sees what is there; if that is not what its key covers, the key is crossed.
LEMMA InvRunPreflight ==
    ASSUME IInv, NEW c \in Commands, RunPreflight(c), ~Exit(c)
    PROVE  IInv'
  <1>0. /\ pc[c] = "run preflight" /\ pc' = [pc EXCEPT ![c] = "store preflight"]
        /\ metadata' = [metadata EXCEPT ![c] = source]
        /\ crossed' = crossed \cup
               IF key[c] = NoKey THEN {} ELSE {key[c][2]} \ {Covered[source]}
        /\ UNCHANGED <<source, edits, sidecars, imported, entry, preflights>>
        /\ UNCHANGED <<noCache, names, key, seen, past, returned, failed>>
    BY DEF RunPreflight, At, Goto, Project, caches
  <1>t. TypeOK /\ CommandInv(c)
    BY DEF IInv
  <1>1. Quiet(c)
    BY <1>0, <1>t DEF Quiet, Runs, TypeOK
  <1>2. source \in Contents /\ source \in seen[c] /\ PreflightKeyOf(c) /\ Fresh(c) /\ Runs(c)
    BY <1>0, <1>t DEF CommandInv, Runs, TypeOK
  <1>3. TypeOK'
    <2>1. key[c] # NoKey => key[c][2] \in Contents
      BY <1>2 DEF PreflightKeyOf
    <2>2. crossed \subseteq Contents /\ entry' \in Keys /\ "store preflight" \in Steps
      BY <1>0, <1>t DEF TypeOK, Steps
    <2>3. crossed' \subseteq Contents
      BY <1>0, <2>1, <2>2
    <2> QED
      BY <1>0, <1>1, <1>2, <1>t, <2>2, <2>3, QuietTypes, Sorts
  <1>4. CommandInv(c)'
    <2>1. /\ pc'[c] = "store preflight" /\ metadata'[c] = source /\ key'[c] = key[c]
          /\ seen'[c] = seen[c] /\ names'[c] = names[c] /\ source' = source
      BY <1>0, <1>t DEF TypeOK
    <2>2. Fresh(c)' /\ PreflightKeyOf(c)'
      BY <1>1, <1>2, <2>1, QuietOnward, Sorts DEF PreflightKeyOf, NoKey
    <2>3. MetadataAre(c)'
      BY <1>2, <2>1, Sorts DEF MetadataAre, Covers
    <2>4. key'[c] # NoKey => key'[c][2] \in crossed' \/ Covered[metadata'[c]] = key'[c][2]
      BY <1>0, <2>1
    <2> QED
      BY <1>t, <1>2, <2>1, <2>2, <2>3, <2>4, Sorts DEF CommandInv, Runs, NoKey
  <1> QED
    BY <1>0, <1>1, <1>3, <1>4, QuietInv

\* What is stored is of what its key covers, unless that was crossed.
LEMMA InvStorePreflight ==
    ASSUME IInv, NEW c \in Commands, StorePreflight(c)
    PROVE  IInv'
  <1>0. /\ pc[c] = "store preflight" /\ pc' = [pc EXCEPT ![c] = "suites"]
        /\ key' = [key EXCEPT ![c] = NoKey]
        /\ \/ preflights' = preflights
           \/ key[c] # NoKey /\ preflights' = {s \in preflights : s.key # key[c]}
                                   \cup {[key |-> key[c], source |-> metadata[c]]}
        /\ UNCHANGED <<source, edits, sidecars, imported, entry>>
        /\ UNCHANGED <<noCache, names, metadata, seen, past, returned, failed, crossed>>
    BY DEF StorePreflight, DropKey, At, Goto, Project, Undone
  <1>t. TypeOK /\ CommandInv(c)
    BY DEF IInv
  <1>1. Quiet(c)
    BY <1>0, <1>t DEF Quiet, Runs, TypeOK
  <1>2. /\ PreflightKeyOf(c) /\ Fresh(c) /\ Runs(c) /\ MetadataAre(c)
        /\ key[c] # NoKey => key[c][2] \in crossed \/ Covered[metadata[c]] = key[c][2]
    BY <1>0, <1>t DEF CommandInv, Runs
  <1>3. ASSUME NEW s \in preflights', s \notin preflights
        PROVE  key[c] # NoKey /\ s = [key |-> key[c], source |-> metadata[c]]
    BY <1>0, <1>3
  <1>4. preflights' = preflights
            \/ (preflights' \subseteq [key : Contents \X Contents, source : Contents]
                /\ \A s, t \in preflights' : s.key = t.key => s = t)
    <2> SUFFICES ASSUME key[c] # NoKey,
                        preflights' = {s \in preflights : s.key # key[c]}
                                   \cup {[key |-> key[c], source |-> metadata[c]]}
                 PROVE  /\ preflights' \subseteq [key : Contents \X Contents, source : Contents]
                        /\ \A s, t \in preflights' : s.key = t.key => s = t
      BY <1>0
    <2>1. /\ preflights \subseteq [key : Contents \X Contents, source : Contents]
          /\ \A s, t \in preflights : s.key = t.key => s = t
      BY <1>t DEF TypeOK
    <2>2. [key |-> key[c], source |-> metadata[c]] \in [key : Contents \X Contents, source : Contents]
      BY <1>2 DEF PreflightKeyOf, MetadataAre
    <2>3. ASSUME NEW s \in preflights', s.key # key[c] PROVE s \in preflights
      BY <2>3
    <2>4. ASSUME NEW s \in preflights', s.key = key[c]
          PROVE  s = [key |-> key[c], source |-> metadata[c]]
      BY <2>4
    <2> QED
      BY <2>1, <2>2, <2>3, <2>4
  <1>5. TypeOK'
    <2>1. /\ entry' \in Keys /\ crossed' \subseteq Contents /\ "suites" \in Steps
          /\ source \in Contents
      BY <1>0, <1>t DEF TypeOK, Steps
    <2> QED
      BY <1>0, <1>1, <1>4, <1>t, <2>1, QuietTypes, Sorts
  <1>6. CommandInv(c)'
    <2>1. pc'[c] = "suites" /\ key'[c] = NoKey /\ Fresh(c)'
      BY <1>0, <1>1, <1>2, <1>t, QuietOnward DEF TypeOK
    <2>2. MetadataAre(c)'
      BY <1>0, <1>2, Sorts DEF MetadataAre, Covers
    <2> QED
      BY <1>0, <1>t, <1>2, <2>1, <2>2, Sorts DEF CommandInv, Runs
  <1>7. StoredInv'
    <2>1. \A s \in preflights : s.key[2] \in crossed \/ Covered[s.source] = s.key[2]
      BY DEF IInv, StoredInv
    <2>2. ASSUME NEW s \in preflights', s \notin preflights
          PROVE  s.key[2] \in crossed \/ Covered[s.source] = s.key[2]
      BY <1>2, <1>3, <2>2
    <2> QED
      BY <1>0, <2>1, <2>2 DEF StoredInv
  <1> QED
    BY <1>0, <1>1, <1>5, <1>6, <1>7, QuietInv

-----------------------------------------------------------------------------
(* The invariant and what it gives. *)

\* Nothing is keyed, imported or stored at the start.
LEMMA InvInit == Init => IInv
  <1> SUFFICES ASSUME Init PROVE IInv
    OBVIOUS
  <1>1. 1 \in Contents
    BY FreshnessAssumption DEF Contents
  <1>2. TypeOK
    <2>1. 0 \in 0 .. MaxEdits
      BY FreshnessAssumption
    <2> QED
      BY <1>1, <2>1, Sorts DEF Init, TypeOK, Steps
  <1>3. ASSUME NEW c \in Commands PROVE CommandInv(c)
    BY DEF Init, CommandInv, Runs
  <1> QED
    BY <1>2, <1>3 DEF Init, IInv, EntryInv, StoredInv

\* Every step keeps the invariant.
LEMMA InvNext == IInv /\ [Next]_vars => IInv'
  <1> SUFFICES ASSUME IInv, [Next]_vars PROVE IInv'
    OBVIOUS
  <1>1. CASE UNCHANGED vars
    <2>1. UNCHANGED <<Project, pc, Local, Undone>> /\ caches' = caches
      BY <1>1 DEF vars, Project, Local, Undone
    <2> QED
      BY <2>1, InvIdle
  <1>2. CASE \E content \in Contents : Edit(content)
    BY <1>2, InvEdit
  <1>3. CASE CleanCache
    BY <1>3, InvIdle DEF CleanCache, caches
  <1>4. CASE \E c \in Commands : Command(c)
    <2>1. PICK c \in Commands : Command(c)
      BY <1>4
    <2>2. CASE Exit(c)
      <3>1. pc'[c] = "idle"
        BY <2>2 DEF IInv, TypeOK, Exit, Goto
      <3>2. UNCHANGED <<Project, caches, Undone>>
        <4>1. CASE Import(c)
          BY <3>1, <4>1 DEF Import, Goto, IInv, TypeOK, Project, Undone
        <4>2. CASE RunPreflight(c)
          BY <3>1, <4>2 DEF RunPreflight, Goto, IInv, TypeOK, Project, caches, Undone
        <4>3. CASE Discover(c) \/ ComputeKey(c) \/ CheckImportCache(c)
                   \/ StoreImportFreshness(c) \/ LookUpPreflight(c) \/ StorePreflight(c)
          BY <3>1, <4>3 DEF Discover, ComputeKey, CheckImportCache, StoreImportFreshness,
             LookUpPreflight, StorePreflight, Goto, IInv, TypeOK
        <4> QED
          BY <2>1, <4>1, <4>2, <4>3 DEF Command, End
      <3> QED
        BY <2>2, <3>2, InvExit
    <2>3. CASE ~Exit(c)
      BY <2>1, <2>3, InvDiscover, InvComputeKey, InvCheckImportCache, InvImport,
         InvStoreImportFreshness, InvLookUpPreflight, InvRunPreflight, InvStorePreflight
         DEF Command, End
    <2> QED
      BY <2>2, <2>3
  <1> QED
    BY <1>1, <1>2, <1>3, <1>4 DEF Next

\* The invariant holds throughout: a stored import key, of a content that did not come
\* back and was not failed on, says what .godot is made of, or is matched by nobody.
THEOREM Inductive == Spec => []IInv
  <1>1. IInv /\ [Next]_vars => IInv'
    BY InvNext
  <1> QED
    BY <1>1, InvInit, PTL DEF Spec

\* Every variable keeps to its values.
THEOREM Typing == Spec => []TypeOK
  <1>1. IInv => TypeOK
    BY DEF IInv
  <1> QED
    BY <1>1, Inductive, PTL

\* No suite runs on an import of a content that its command never saw, whatever the
\* other commands and the user did meanwhile and whether imports fail, unless the
\* command saw a content that came back over another import or was failed on.
THEOREM ImportIsFresh == Spec => []NoStaleImport
  <1>1. IInv => NoStaleImport
    BY DEF IInv, CommandInv, NoStaleImport, Fresh, Lost
  <1> QED
    BY <1>1, Inductive, PTL

\* No suite runs on preflight metadata of what its command never saw of the files the
\* preflight key covers, unless a preflight keyed by what it saw ran on something else.
THEOREM MetadataAreFresh == Spec => []NoStaleMetadata
  <1>1. IInv => NoStaleMetadata
    BY Sorts DEF IInv, CommandInv, MetadataAre, NoStaleMetadata
  <1> QED
    BY <1>1, Inductive, PTL
=============================================================================
