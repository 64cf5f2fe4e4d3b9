----------------------------- MODULE CoverageReports -----------------------------
(***************************************************************************)
(* What is made of a coverage measurement after it was taken: shards of a  *)
(* run are merged, coverage.json is reported, shown, saved as a baseline,  *)
(* and compared with a baseline or with the lines a branch changed.        *)
(*                                                                         *)
(* plan.json numbers the scripts and, in each, the points where execution  *)
(* is counted; coverage.json knows both only by these numbers.  Whoever    *)
(* pairs the two, or two pairs of different checkouts, goes through paths. *)
(* Every command here is one step: CoverageDirectory has the steps inside  *)
(* a measurement, and what interrupts them.                                *)
(***************************************************************************)
EXTENDS Naturals, Sequences, FiniteSets

CONSTANTS
    NumFiles,     \* paths a script may have, in the order discovery sorts them
    Contents,     \* what may be at a path
    Points,       \* the points of each content: sequences of [line, branch]
    Starts,       \* the trees a branch may start from
    Absent,       \* the content of a path without a file
    Added,        \* Added[c][d]: the lines of d that `git diff' reports as added to c
    NumSuites,    \* suites, in the order discovery sorts them
    Executes,     \* Executes[s][f]: the points of script f that suite s runs through
    Shards,       \* the values of --shard that are used: pairs <<k, n>>
    Thresholds,   \* the percentages that are asked for
    None,         \* no file
    Refused,      \* a coverage.json of another shape, which read_coverage_json refuses
    MaxPoints, MaxEdits, MaxCommands    \* bounds: points, edits, commands that write

Files == 1 .. NumFiles
Suites == 1 .. NumSuites
Trees == [Files -> Contents]
Indexes == 1 .. MaxPoints

ASSUME ReportsAssumption ==
    /\ {NumFiles, NumSuites, MaxPoints, MaxEdits, MaxCommands} \subseteq Nat
    /\ Absent \in Contents /\ Points[Absent] = << >>
    /\ \A c \in Contents : /\ Points[c] \in Seq([line : Nat, branch : BOOLEAN])
                           /\ DOMAIN Points[c] \subseteq Indexes
    /\ Starts \subseteq Trees /\ Shards \subseteq Nat \X (Nat \ {0}) /\ Thresholds \subseteq 0 .. 100

FilePlans == [id : 0 .. NumFiles - 1, content : Contents]
Plans == UNION {[fs -> FilePlans] : fs \in SUBSET Files}

\* History: `of' are the plans that were measured, `ran' the shards that ran, each
\* with the scripts that it could not instrument.
Data == [hits : UNION {[ids -> SUBSET Indexes] : ids \in SUBSET (0 .. NumFiles - 1)},
         of : SUBSET Plans, ran : SUBSET (Shards \X SUBSET Files)]

VARIABLES
    base, head, tree,   \* the project's scripts: at the merge base, at HEAD, in the working tree
    plan, data,         \* plan.json and coverage.json
    baseline,           \* baseline.json: a pair of both
    downloads,          \* coverage.json of other jobs
    counts,             \* how many edits and commands there were
    shown               \* what the last command said

project == <<base, head, tree>>
files == <<plan, data, baseline, downloads>>
vars == <<project, files, counts, shown>>

Nothing == [said |-> "nothing", verdict |-> "none", covered |-> {}]

Init ==
    /\ base \in Starts /\ head = base /\ tree = base
    /\ plan = None /\ data = None /\ baseline = None /\ downloads = {}
    /\ counts = [edits |-> 0, commands |-> 0] /\ shown = Nothing

-----------------------------------------------------------------------------
(* A plan, the data recorded under it, and their summaries. *)

Tracked(t) == {f \in Files : Points[t[f]] # << >>}

\* Mutant: counted from one.
PlanFromOne(t) ==
    [f \in Tracked(t) |->
        [id |-> Cardinality({g \in Files : g <= f /\ t[g] # Absent}), content |-> t[f]]]

\* generate_plan: ids number all scripts found, entries are those with points.
PlanOf(t) ==
    [f \in Tracked(t) |->
        [id |-> Cardinality({g \in Files : g < f /\ t[g] # Absent}), content |-> t[f]]]

\* generate_plan_cached compares contents, and keeps the ids that are there.
Matches(p, t) == DOMAIN p = Tracked(t) /\ \A f \in DOMAIN p : p[f].content = t[f]
PlanFor(t) == IF plan # None /\ Matches(plan, t) THEN plan ELSE PlanOf(t)

\* Mutant: the last suite belongs to no shard.
SelectButLast(part) == {s \in Suites : s < NumSuites /\ (s - 1) % part[2] = part[1] - 1}

\* select_shard: round-robin over the order of discovery, before any shuffle.
Select(part) == {s \in Suites : (s - 1) % part[2] = part[1] - 1}

PointsOf(p, f) == Points[p[f].content]

\* What the suites of a shard record under plan p, when the scripts in lost cannot
\* be instrumented.
Recorded(p, part, lost) ==
    LET measured == DOMAIN p \ lost
        Hits(f) == (UNION {Executes[s][f] : s \in Select(part)}) \cap DOMAIN PointsOf(p, f)
    IN  [hits |-> [i \in {p[f].id : f \in measured} |->
                        Hits(CHOOSE f \in measured : p[f].id = i)],
         of |-> {p}, ran |-> {<<part, lost>>}]

Knowing(ds, id) == {d \in ds : id \in DOMAIN d.hits}

\* Mutant: a script's hits are those of one of the files.
MergedByOne(ds) ==
    [hits |-> [i \in UNION {DOMAIN d.hits : d \in ds} |-> (CHOOSE d \in Knowing(ds, i) : TRUE).hits[i]],
     of |-> UNION {d.of : d \in ds}, ran |-> UNION {d.ran : d \in ds}]

\* merge_coverage_data: hits are summed by the two ids, so a point is hit when one
\* of the files has a hit, and a script measured when one of them measured it.
Merged(ds) ==
    [hits |-> [i \in UNION {DOMAIN d.hits : d \in ds} |-> UNION {d.hits[i] : d \in Knowing(ds, i)}],
     of |-> UNION {d.of : d \in ds}, ran |-> UNION {d.ran : d \in ds}]

\* compute_file_summary: the points of script f that were hit; no entry, no hits.
HitIn(p, d, f) ==
    IF p[f].id \in DOMAIN d.hits THEN d.hits[p[f].id] \cap DOMAIN PointsOf(p, f) ELSE {}

\* compute_summary, as the set that it counts.
Covered(p, d) == UNION {{f} \X HitIn(p, d, f) : f \in DOMAIN p}
AllPoints(p) == UNION {{f} \X DOMAIN PointsOf(p, f) : f \in DOMAIN p}

BranchesOf(p, f) == {i \in DOMAIN PointsOf(p, f) : PointsOf(p, f)[i].branch}
AllBranches(p) == UNION {{f} \X BranchesOf(p, f) : f \in DOMAIN p}

Reaches(covered, all, threshold) == 100 * Cardinality(covered) >= threshold * Cardinality(all)

\* show_coverage_summary: without points the line rate is 0; without branches their
\* threshold is not asked.
SummaryVerdict(covered, min, minBranch) ==
    LET all == AllPoints(plan)
        branches == AllBranches(plan)
    IN  IF /\ min = 0 \/ (all # {} /\ Reaches(covered, all, min))
           /\ Reaches(covered \cap branches, branches, minBranch)
        THEN "ok" ELSE "below"

-----------------------------------------------------------------------------
(* Comparisons. *)

\* A rate is <<covered, total>>; with nothing to cover it is 0.
LineRate(p, d, f) == <<Cardinality(HitIn(p, d, f)), Len(PointsOf(p, f))>>
BranchRate(p, d, f) ==
    <<Cardinality(HitIn(p, d, f) \cap BranchesOf(p, f)), Cardinality(BranchesOf(p, f))>>
Below(r, s) == r[1] * (IF s[2] = 0 THEN 1 ELSE s[2]) < s[1] * (IF r[2] = 0 THEN 1 ELSE r[2])

Fell(b, g, f) ==
    \/ Below(LineRate(plan, data, f), LineRate(b.plan, b.data, g))
    \/ Below(BranchRate(plan, data, f), BranchRate(b.plan, b.data, g))

\* Mutant: a script is compared with the one that has its id.
RegressedById(b) ==
    {f \in DOMAIN plan : \E g \in DOMAIN b.plan : b.plan[g].id = plan[f].id /\ Fell(b, g, f)}

\* compute_diff: the scripts of both sides, matched by path, whose line rate or
\* branch rate is lower now.
Regressed(b) == {f \in DOMAIN b.plan \cap DOMAIN plan : Fell(b, f, f)}

\* collect_changed_lines: from the merge base to HEAD, without deleted files.
ChangedLines == [f \in {g \in Files : head[g] # Absent} |-> Added[base[f]][head[f]]]

\* Mutant: scripts that were not measured are left out.
PatchOfMeasured ==
    UNION {{f} \X {i \in DOMAIN PointsOf(plan, f) : PointsOf(plan, f)[i].line \in ChangedLines[f]}
            : f \in {g \in DOMAIN plan \cap DOMAIN ChangedLines : plan[g].id \in DOMAIN data.hits}}

\* compute_patch_coverage: the plan's points on changed lines.
Patch ==
    UNION {{f} \X {i \in DOMAIN PointsOf(plan, f) : PointsOf(plan, f)[i].line \in ChangedLines[f]}
            : f \in DOMAIN plan \cap DOMAIN ChangedLines}

\* diff_coverage: with --fail-on-regression.
DiffVerdict == IF Regressed(baseline) # {} THEN "regressed" ELSE "ok"

\* patch_verdict: an empty patch passes.
PatchVerdict(threshold) ==
    LET patch == Patch
    IN  IF patch = {} \/ Reaches(patch \cap Covered(plan, data), patch, threshold)
        THEN "pass" ELSE "fail"

-----------------------------------------------------------------------------
(* The commands. *)

Counted(what) ==
    /\ counts[what] < (IF what = "edits" THEN MaxEdits ELSE MaxCommands)
    /\ counts' = [counts EXCEPT ![what] = @ + 1]

\* A command that only reads changes nothing else, and is not counted.
Says(what, verdict) == shown' = [said |-> what, verdict |-> verdict, covered |-> Covered(plan, data)]

\* generate_report, as what it leaves as coverage.json: the report of format json
\* has that name too.
Left(d, format) == IF format = "json" THEN Refused ELSE d
Formats == {"json", "other"}

\* gd-tools test --coverage [--shard]; a shard without suites does nothing.
Test(part) ==
    /\ Counted("commands") /\ shown' = Nothing
    /\ IF Select(part) = {} THEN UNCHANGED <<plan, data>>
       ELSE /\ plan' = PlanFor(tree)
            /\ \E lost \in SUBSET DOMAIN PlanFor(tree), format \in Formats :
                    data' = Left(Recorded(PlanFor(tree), part, lost), format)
    /\ UNCHANGED <<project, baseline, downloads>>

\* The same on another machine, on a checkout of HEAD, and its file downloaded.
Job(part) ==
    /\ Counted("commands") /\ shown' = Nothing /\ Select(part) # {}
    /\ \E lost \in SUBSET Tracked(head) :
            downloads' = downloads \cup {Recorded(PlanOf(head), part, lost)}
    /\ UNCHANGED <<project, plan, data, baseline>>

\* read_coverage_json.
Readable(d) == d \notin {None, Refused}

\* merge_coverage_files: what it writes; a file that is refused ends it.
MergedFiles == {Merged(ds) : ds \in (SUBSET {d \in downloads \cup {data} : Readable(d)}) \ {{}}}

\* coverage merge, into coverage.json.
Merge ==
    /\ Counted("commands") /\ shown' = Nothing
    /\ data' \in MergedFiles
    /\ UNCHANGED <<project, plan, baseline, downloads>>

\* generate_coverage_report, with the format asked for or configured.
Regenerated == {Left(data, format) : format \in Formats}
Measured == plan # None /\ Readable(data)

\* coverage report.
Report ==
    /\ Counted("commands") /\ Measured /\ Says("summary", "ok")
    /\ data' \in Regenerated
    /\ UNCHANGED <<project, plan, baseline, downloads>>

\* coverage show --min --min-branch; a branch threshold of 0 is none.
Show ==
    /\ Measured
    /\ \E min, minBranch \in Thresholds \cup {0} :
            Says("summary", SummaryVerdict(Covered(plan, data), min, minBranch))
    /\ UNCHANGED <<project, files, counts>>

\* save_baseline: the two files as they are.
Pair == [plan |-> plan, data |-> data]

\* coverage save-baseline.
SaveBaseline ==
    /\ Counted("commands") /\ Measured
    /\ baseline' = Pair /\ shown' = Nothing
    /\ UNCHANGED <<project, plan, data, downloads>>

\* load_baseline.
Loaded == baseline # None

\* coverage diff --fail-on-regression.
Diff ==
    /\ Measured /\ Loaded
    /\ Says("diff", DiffVerdict)
    /\ UNCHANGED <<project, files, counts>>

\* coverage diff --patch --patch-fail-under, and --fail-on-regression or not.
DiffPatch ==
    /\ Measured
    /\ \E threshold \in Thresholds, gated \in BOOLEAN :
            LET verdict == PatchVerdict(threshold)
            IN  Says("patch",
                CASE verdict = "fail" -> "below"
                  [] verdict = "pass" /\ gated /\ ~Loaded -> "error"
                  [] verdict = "pass" /\ gated /\ Loaded /\ DiffVerdict = "regressed" -> "regressed"
                  [] OTHER -> IF threshold = 100 THEN "ok, all" ELSE "ok")
    /\ UNCHANGED <<project, files, counts>>

\* clean --coverage, and clean --baselines: what cannot be removed stays.
Clean(all) ==
    /\ Counted("commands") /\ shown' = Nothing
    /\ baseline' \in {baseline, None}
    /\ IF all THEN plan' \in {plan, None} /\ data' \in {data, None} ELSE UNCHANGED <<plan, data>>
    /\ UNCHANGED <<project, downloads>>

Edit(f) ==
    /\ Counted("edits") /\ shown' = Nothing
    /\ \E c \in Contents \ {tree[f]} : tree' = [tree EXCEPT ![f] = c]
    /\ UNCHANGED <<base, head, files>>

Commit ==
    /\ tree # head /\ head' = tree /\ shown' = Nothing
    /\ UNCHANGED <<base, tree, files, counts>>

Next ==
    \/ \E part \in Shards : Test(part) \/ Job(part)
    \/ Merge \/ Report \/ Show \/ SaveBaseline \/ Diff \/ DiffPatch
    \/ (\E all \in BOOLEAN : Clean(all)) \/ (\E f \in Files : Edit(f)) \/ Commit

Spec == Init /\ [][Next]_vars

-----------------------------------------------------------------------------
(* Properties. *)

\* Every variable stays in its domain.
TypeOK ==
    /\ {base, head, tree} \subseteq Trees
    /\ plan = None \/ plan \in Plans
    /\ data \in {None, Refused} \/ data \in Data
    /\ baseline = None \/ baseline \in [plan : Plans, data : Data]
    /\ downloads \subseteq Data
    /\ counts \in [edits : 0 .. MaxEdits, commands : 0 .. MaxCommands]
    /\ shown.said \in {"nothing", "summary", "diff", "patch"}
    /\ shown.covered \subseteq Files \X Indexes

\* The points of script f that the suites behind a coverage.json ran through.
RunThrough(d, f) ==
    {i \in Indexes : \E r \in d.ran : f \notin r[2] /\ \E s \in Select(r[1]) : i \in Executes[s][f]}

\* All shards of one --shard N ran, and no script was lost.
Whole(d) ==
    /\ \E r \in d.ran : \A k \in 1 .. r[1][2] : \E q \in d.ran : q[1] = <<k, r[1][2]>>
    /\ \A r \in d.ran : r[2] = {}

\* coverage/reporter.py:359 and native_test/command.py:264: merging the files of
\* all shards, recorded under the plan that is here, shows what all suites run
\* through, neither less nor anything of another script.
MergedIsWhole ==
    shown.said = "summary" /\ data \notin {None, Refused} /\ data.of = {plan} /\ Whole(data) =>
        shown.covered = {x \in AllPoints(plan) : \E s \in Suites : x[2] \in Executes[s][x[1]]}

\* coverage/diff_reporter.py:356: when --fail-on-regression passes, no script that
\* is in the baseline and has not changed is run through less than it was then,
\* whatever was added, removed or renumbered around it.
NoUnseenRegression ==
    shown.said = "diff" /\ shown.verdict = "ok" /\ baseline.data.of = {baseline.plan} /\ data.of = {plan} =>
        \A f \in DOMAIN plan \cap DOMAIN baseline.plan :
            plan[f].content = baseline.plan[f].content =>
                LET tracked == DOMAIN PointsOf(plan, f)
                IN  Cardinality(RunThrough(baseline.data, f) \cap tracked)
                        <= Cardinality(RunThrough(data, f) \cap tracked)

\* coverage/patch.py:67: when --patch-fail-under 100 passes and the plan was made
\* for what is committed, every point on a line the branch added was run through
\* and counted, also in a script that could not be measured.
PatchIsRun ==
    shown.verdict = "ok, all" /\ data.of = {plan} /\ Matches(plan, head) =>
        \A f \in Tracked(head) : \A i \in DOMAIN Points[head[f]] :
            Points[head[f]][i].line \in Added[base[f]][head[f]] => i \in RunThrough(data, f)

\* docs/PRD.md:256: "regenerate reports from saved `.gd-tools/coverage/coverage.json`
\* without re-running tests": a report can be made again.
ReportsRepeat == [][Report => data' # Refused]_vars
=============================================================================
