------------------------- MODULE CoverageReportsProofs -------------------------
(***************************************************************************)
(* For any number of scripts, suites and shards, any contents and any      *)
(* thresholds: merging the files of all shards shows what all suites run   *)
(* through, a diff that passes has not lost a point of an unchanged        *)
(* script, and a patch that is covered was run.                            *)
(***************************************************************************)
EXTENDS CoverageReports, FiniteSetTheorems, TLAPS

\* No two scripts of a plan have the same id.
Numbered(p) == \A f, g \in DOMAIN p : p[f].id = p[g].id => f = g

\* What a coverage.json says of a script of its plan is what was run through there.
Exact(p, d) == \A f \in DOMAIN p : HitIn(p, d, f) = RunThrough(d, f) \cap DOMAIN PointsOf(p, f)

\* A coverage.json was recorded under plans that tell their scripts apart, and when
\* it was under one plan only, it is right about each script.
Faithful(d) ==
    /\ d.of # {} /\ \A p \in d.of : Numbered(p)
    /\ \A p \in Plans : d.of = {p} => Exact(p, d)

PlanInv == plan # None => Numbered(plan)
DataInv == Readable(data) => Faithful(data)
JobInv == \A d \in downloads : Faithful(d)
BaselineInv == Loaded => Numbered(baseline.plan) /\ Faithful(baseline.data)

\* What the last command said is said of the files as they are.
SayingInv ==
    /\ shown.said # "nothing" => plan # None
    /\ shown.said # "nothing" /\ Readable(data) => shown.covered = Covered(plan, data)
    /\ shown.said = "diff" => Readable(data) /\ Loaded /\ shown.verdict = DiffVerdict
    /\ shown.verdict = "ok, all" =>
           shown.said = "patch" /\ Readable(data) /\ PatchVerdict(100) = "pass"

IInv == TypeOK /\ PlanInv /\ DataInv /\ JobInv /\ BaselineInv /\ SayingInv

-----------------------------------------------------------------------------
(* Plans. *)

LEMMA Bounds ==
    /\ NumFiles \in Nat /\ NumSuites \in Nat /\ MaxPoints \in Nat
    /\ MaxEdits \in Nat /\ MaxCommands \in Nat
BY ReportsAssumption

\* A plan's scripts are paths, with contents whose points have numbers.
LEMMA PlanParts ==
    ASSUME NEW p \in Plans, NEW f \in DOMAIN p
    PROVE  /\ f \in Files /\ p[f] \in FilePlans
           /\ p[f].id \in 0 .. NumFiles - 1 /\ p[f].content \in Contents
           /\ PointsOf(p, f) \in Seq([line : Nat, branch : BOOLEAN])
           /\ DOMAIN PointsOf(p, f) \subseteq Indexes
<1>1. PICK fs \in SUBSET Files : p \in [fs -> FilePlans]
  BY DEF Plans
<1>2. f \in Files /\ p[f] \in FilePlans
  BY <1>1
<1>3. p[f].id \in 0 .. NumFiles - 1 /\ p[f].content \in Contents
  BY <1>2 DEF FilePlans
<1>4. QED
  BY <1>2, <1>3, ReportsAssumption DEF PointsOf

LEMMA PlanScripts ==
    ASSUME NEW p \in Plans
    PROVE  DOMAIN p \in SUBSET Files /\ p \in [DOMAIN p -> FilePlans]
BY DEF Plans

\* Scripts with points are there, and generate_plan numbers all that are there: ids
\* are below the number of paths, and no two are the same.
LEMMA PlanOfTree ==
    ASSUME NEW t \in Trees
    PROVE  /\ PlanOf(t) \in Plans /\ Numbered(PlanOf(t)) /\ Matches(PlanOf(t), t)
<1> DEFINE Before(f) == {g \in Files : g < f /\ t[g] # Absent}
<1> USE Bounds
<1>1. ASSUME NEW f \in Files
      PROVE  /\ IsFiniteSet(Before(f)) /\ Cardinality(Before(f)) \in 0 .. NumFiles - 1
  <2>1. f \in 1 .. NumFiles
    BY DEF Files
  <2>2. IsFiniteSet(1 .. f - 1) /\ Cardinality(1 .. f - 1) = f - 1
    BY <2>1, FS_Interval
  <2>3. Before(f) \in SUBSET (1 .. f - 1)
    BY <2>1 DEF Files
  <2>4. IsFiniteSet(Before(f)) /\ Cardinality(Before(f)) <= f - 1
    BY <2>2, <2>3, FS_Subset
  <2>5. Cardinality(Before(f)) \in Nat
    BY <2>4, FS_CardinalityType
  <2>6. QED
    BY <2>1, <2>4, <2>5
<1>2. ASSUME NEW f \in Files, NEW g \in Files, f < g, t[f] # Absent
      PROVE  Cardinality(Before(f)) < Cardinality(Before(g))
  <2>1. f \notin Before(f)
    BY DEF Files
  <2>2. IsFiniteSet(Before(f) \cup {f}) /\ Cardinality(Before(f) \cup {f}) = Cardinality(Before(f)) + 1
    BY <1>1, <2>1, FS_AddElement
  <2>3. Before(f) \cup {f} \in SUBSET Before(g)
    BY <1>2 DEF Files
  <2>4. Cardinality(Before(f) \cup {f}) <= Cardinality(Before(g))
    BY <1>1, <2>3, FS_Subset
  <2>5. Cardinality(Before(f)) \in Nat /\ Cardinality(Before(g)) \in Nat
    BY <1>1
  <2>6. QED
    BY <2>2, <2>4, <2>5
<1>3. Tracked(t) \in SUBSET Files /\ \A f \in Tracked(t) : t[f] \in Contents /\ t[f] # Absent
  BY ReportsAssumption DEF Tracked, Trees
<1>4. PlanOf(t) = [f \in Tracked(t) |-> [id |-> Cardinality(Before(f)), content |-> t[f]]]
  BY DEF PlanOf
<1> HIDE DEF Before
<1>5. PlanOf(t) \in [Tracked(t) -> FilePlans]
  BY <1>1, <1>3, <1>4 DEF FilePlans
<1>6. PlanOf(t) \in Plans
  BY <1>3, <1>5 DEF Plans
<1>7. Matches(PlanOf(t), t)
  BY <1>4 DEF Matches
<1>8. ASSUME NEW f \in Tracked(t), NEW g \in Tracked(t), f # g
      PROVE  Cardinality(Before(f)) # Cardinality(Before(g))
  <2>1. f \in Files /\ g \in Files /\ t[f] # Absent /\ t[g] # Absent
    BY <1>3
  <2>2. f < g \/ g < f
    BY <1>8, <2>1 DEF Files
  <2>3. Cardinality(Before(f)) \in Nat /\ Cardinality(Before(g)) \in Nat
    BY <1>1, <2>1
  <2>4. QED
    BY <1>2, <2>1, <2>2, <2>3
<1>9. Numbered(PlanOf(t))
  BY <1>4, <1>8 DEF Numbered
<1>10. QED
  BY <1>6, <1>7, <1>9

\* generate_plan_cached returns such a plan too.
LEMMA PlanForTree ==
    ASSUME NEW t \in Trees, plan = None \/ plan \in Plans, PlanInv
    PROVE  PlanFor(t) \in Plans /\ Numbered(PlanFor(t)) /\ Matches(PlanFor(t), t)
BY PlanOfTree DEF PlanFor, PlanInv

-----------------------------------------------------------------------------
(* Coverage files. *)

\* What a coverage.json keeps.
LEMMA DataParts ==
    ASSUME NEW d
    PROVE  d \in Data <=>
             /\ d = [hits |-> d.hits, of |-> d.of, ran |-> d.ran]
             /\ DOMAIN d.hits \subseteq 0 .. NumFiles - 1
             /\ d.hits \in [DOMAIN d.hits -> SUBSET Indexes]
             /\ d.of \subseteq Plans /\ d.ran \subseteq Shards \X SUBSET Files
BY DEF Data

LEMMA DataMade ==
    ASSUME NEW ids \in SUBSET (0 .. NumFiles - 1), NEW hits \in [ids -> SUBSET Indexes],
           NEW of \in SUBSET Plans, NEW ran \in SUBSET (Shards \X SUBSET Files)
    PROVE  [hits |-> hits, of |-> of, ran |-> ran] \in Data
BY DEF Data

\* A coverage.json that a shard records is right: the suites of the shard count at
\* the ids of the plan they run under.
LEMMA RecordedFaithful ==
    ASSUME NEW p \in Plans, Numbered(p), NEW part \in Shards, NEW lost \in SUBSET Files
    PROVE  Recorded(p, part, lost) \in Data /\ Faithful(Recorded(p, part, lost))
<1> DEFINE measured == DOMAIN p \ lost
           Hits(f) == (UNION {Executes[s][f] : s \in Select(part)}) \cap DOMAIN PointsOf(p, f)
           ids == {p[f].id : f \in measured}
           hits == [i \in ids |-> Hits(CHOOSE f \in measured : p[f].id = i)]
           d == Recorded(p, part, lost)
<1>1. d = [hits |-> hits, of |-> {p}, ran |-> {<<part, lost>>}]
  BY DEF Recorded
<1>2. ASSUME NEW f \in measured
      PROVE  p[f].id \in ids /\ hits[p[f].id] = Hits(f)
  <2>1. (CHOOSE g \in measured : p[g].id = p[f].id) = f
    BY DEF Numbered
  <2>2. QED
    BY <2>1
<1>3. ids \in SUBSET (0 .. NumFiles - 1)
  BY PlanParts
<1>4. ASSUME NEW f \in DOMAIN p
      PROVE  Hits(f) \in SUBSET Indexes
  BY PlanParts
<1>5. ASSUME NEW i \in ids
      PROVE  hits[i] \in SUBSET Indexes
  <2> HIDE DEF hits, Hits
  <2> QED
    BY <1>2, <1>4
<1>6. hits \in [ids -> SUBSET Indexes]
  BY <1>5
<1>7. {p} \in SUBSET Plans /\ {<<part, lost>>} \in SUBSET (Shards \X SUBSET Files)
  OBVIOUS
<1>8. d \in Data
  <2> HIDE DEF hits, ids, d
  <2> QED
    BY <1>1, <1>3, <1>6, <1>7, DataMade
<1>9. ASSUME NEW f \in DOMAIN p
      PROVE  HitIn(p, d, f) = RunThrough(d, f) \cap DOMAIN PointsOf(p, f)
  <2>1. RunThrough(d, f) = {i \in Indexes : f \notin lost /\ \E s \in Select(part) : i \in Executes[s][f]}
    <3>1. d.ran = {<<part, lost>>}
      BY <1>1
    <3> HIDE DEF d
    <3>2. QED
      BY <3>1 DEF RunThrough
  <2>2. DOMAIN PointsOf(p, f) \subseteq Indexes
    BY PlanParts
  <2>3. CASE f \in lost
    <3>1. p[f].id \notin ids
      BY <2>3 DEF Numbered
    <3>2. HitIn(p, d, f) = {}
      <4> HIDE DEF hits, ids, d
      <4> QED
        BY <1>1, <1>6, <3>1 DEF HitIn
    <3>3. QED
      BY <2>1, <2>3, <3>2
  <2>4. CASE f \notin lost
    <3>1. p[f].id \in ids /\ hits[p[f].id] = Hits(f)
      BY <1>2, <2>4
    <3>2. HitIn(p, d, f) = Hits(f)
      <4>1. Hits(f) \cap DOMAIN PointsOf(p, f) = Hits(f)
        OBVIOUS
      <4> HIDE DEF hits, ids, d, Hits
      <4>2. QED
        BY <1>1, <1>6, <3>1, <4>1 DEF HitIn
    <3>3. QED
      BY <2>1, <2>2, <2>4, <3>2
  <2>5. QED
    BY <2>3, <2>4
<1>10. d.of = {p}
  BY <1>1
<1>11. QED
  BY <1>8, <1>9, <1>10 DEF Faithful, Exact

\* merge_coverage_data keeps that: a point is hit when one of the files has a hit.
LEMMA MergedFaithful ==
    ASSUME NEW ds \in SUBSET Data, ds # {}, \A d \in ds : Faithful(d)
    PROVE  Merged(ds) \in Data /\ Faithful(Merged(ds))
<1> DEFINE ids == UNION {DOMAIN d.hits : d \in ds}
           hits == [i \in ids |-> UNION {d.hits[i] : d \in Knowing(ds, i)}]
           of == UNION {d.of : d \in ds}
           ran == UNION {d.ran : d \in ds}
           m == Merged(ds)
<1>1. m = [hits |-> hits, of |-> of, ran |-> ran]
  BY DEF Merged
<1>2. \A d \in ds : /\ DOMAIN d.hits \subseteq 0 .. NumFiles - 1
                     /\ \A i \in DOMAIN d.hits : d.hits[i] \subseteq Indexes
                     /\ d.of \subseteq Plans /\ d.ran \subseteq Shards \X SUBSET Files
  BY DataParts
<1>3. ids \in SUBSET (0 .. NumFiles - 1)
  BY <1>2
<1>4. of \in SUBSET Plans
  <2>1. \A d \in ds : d.of \subseteq Plans
    BY DataParts
  <2>2. \A p \in of : p \in Plans
    BY <2>1, Zenon
  <2>3. QED
    BY <2>2
<1>5. ran \in SUBSET (Shards \X SUBSET Files)
  <2>1. \A d \in ds : d.ran \subseteq Shards \X SUBSET Files
    BY DataParts
  <2>2. \A r \in ran : r \in Shards \X SUBSET Files
    BY <2>1, Zenon
  <2>3. QED
    BY <2>2
<1>6. ASSUME NEW i \in ids
      PROVE  hits[i] \in SUBSET Indexes
  <2>1. \A d \in Knowing(ds, i) : d.hits[i] \subseteq Indexes
    BY <1>2 DEF Knowing
  <2>2. UNION {d.hits[i] : d \in Knowing(ds, i)} \subseteq Indexes
    BY <2>1
  <2>3. QED
    BY <2>2
<1>7. hits \in [ids -> SUBSET Indexes]
  BY <1>6
<1>8. m \in Data
  <2> HIDE DEF hits, ids, of, ran, m
  <2> QED
    BY <1>1, <1>3, <1>4, <1>5, <1>7, DataMade
<1>9. of # {} /\ \A p \in of : Numbered(p)
  BY DEF Faithful
<1>10. ASSUME NEW p \in Plans, of = {p}, NEW f \in DOMAIN p
      PROVE  HitIn(p, m, f) = RunThrough(m, f) \cap DOMAIN PointsOf(p, f)
  <2> DEFINE points == DOMAIN PointsOf(p, f)
  <2>1. \A d \in ds : HitIn(p, d, f) = RunThrough(d, f) \cap points
    <3>1. \A d \in ds : d.of = {p}
      BY <1>10 DEF Faithful
    <3>2. QED
      BY <3>1 DEF Faithful, Exact
  <2>2. \A i : i \in HitIn(p, m, f) <=> \E d \in ds : i \in HitIn(p, d, f)
    <3>1. m.hits = hits
      BY <1>1
    <3> HIDE DEF m
    <3>2. QED
      BY <3>1 DEF HitIn, Knowing
  <2>3. \A i : i \in RunThrough(m, f) <=> \E d \in ds : i \in RunThrough(d, f)
    <3>1. m.ran = ran
      BY <1>1
    <3> HIDE DEF m
    <3>2. QED
      BY <3>1 DEF RunThrough
  <2> HIDE DEF m, points, ids, hits, of, ran
  <2>4. QED
    BY <2>1, <2>2, <2>3 DEF points
<1>11. m.of = of
  BY <1>1
<1>12. QED
  BY <1>8, <1>9, <1>10, <1>11 DEF Faithful, Exact

-----------------------------------------------------------------------------
(* The invariant. *)

LEMMA CoveredTyped ==
    ASSUME NEW p \in Plans, NEW d
    PROVE  Covered(p, d) \subseteq Files \X Indexes
<1>1. \A f \in DOMAIN p : f \in Files /\ DOMAIN PointsOf(p, f) \subseteq Indexes
  BY PlanParts
<1>2. \A f \in DOMAIN p : HitIn(p, d, f) \subseteq Indexes
  BY <1>1 DEF HitIn
<1>3. QED
  BY <1>1, <1>2 DEF Covered

\* What a comparison says depends on the files and the branch only.
LEMMA VerdictsKept ==
    ASSUME UNCHANGED <<project, files>>
    PROVE  DiffVerdict' = DiffVerdict /\ PatchVerdict(100)' = PatchVerdict(100)
BY DEF project, files, DiffVerdict, PatchVerdict, Regressed, Fell, LineRate, BranchRate,
       Patch, ChangedLines

LEMMA CountedTyped ==
    ASSUME TypeOK, NEW what \in {"edits", "commands"}, Counted(what)
    PROVE  counts' \in [edits : 0 .. MaxEdits, commands : 0 .. MaxCommands]
BY Bounds DEF TypeOK, Counted

LEMMA InvInit == Init => IInv
<1> SUFFICES ASSUME Init PROVE IInv
  OBVIOUS
<1>1. TypeOK
  BY Bounds, ReportsAssumption DEF Init, TypeOK, Nothing
<1>2. PlanInv /\ DataInv /\ JobInv /\ BaselineInv /\ SayingInv
  BY DEF Init, PlanInv, DataInv, JobInv, BaselineInv, SayingInv, Readable, Loaded, Nothing
<1>3. QED
  BY <1>1, <1>2 DEF IInv

\* A command that changes files says nothing of what it read.
LEMMA Silent == shown' = Nothing => SayingInv'
BY DEF SayingInv, Nothing

LEMMA InvTest ==
    ASSUME IInv, NEW part \in Shards, Test(part)
    PROVE  IInv'
<1> USE DEF IInv
<1>1. SayingInv'
  BY Silent DEF Test
<1>2. counts' \in [edits : 0 .. MaxEdits, commands : 0 .. MaxCommands]
  BY CountedTyped DEF Test
<1>3. tree \in Trees /\ (plan = None \/ plan \in Plans)
  BY DEF TypeOK
<1>4. CASE Select(part) = {}
  BY <1>1, <1>2, <1>4 DEF Test, TypeOK, PlanInv, DataInv, JobInv, BaselineInv, Nothing, project,
       Readable, Loaded
<1>5. CASE Select(part) # {}
  <2>1. PICK lost \in SUBSET DOMAIN PlanFor(tree), format \in Formats :
            data' = Left(Recorded(PlanFor(tree), part, lost), format)
    BY <1>5 DEF Test
  <2>2. plan' = PlanFor(tree) /\ plan' \in Plans /\ Numbered(plan')
    BY <1>3, <1>5, PlanForTree DEF Test
  <2>3. lost \in SUBSET Files
    BY <2>2, PlanScripts
  <2>4. Readable(data') => data' \in Data /\ Faithful(data')
    BY <2>1, <2>2, <2>3, RecordedFaithful DEF Left, Readable
  <2>5. TypeOK'
    BY <1>2, <2>2, <2>4 DEF Test, TypeOK, Nothing, project, Readable
  <2>6. PlanInv' /\ DataInv' /\ JobInv' /\ BaselineInv'
    BY <2>2, <2>4 DEF Test, PlanInv, DataInv, JobInv, BaselineInv, Loaded
  <2>7. QED
    BY <1>1, <2>5, <2>6
<1>6. QED
  BY <1>4, <1>5

LEMMA InvJob ==
    ASSUME IInv, NEW part \in Shards, Job(part)
    PROVE  IInv'
<1> USE DEF IInv
<1>1. SayingInv'
  BY Silent DEF Job
<1>2. counts' \in [edits : 0 .. MaxEdits, commands : 0 .. MaxCommands]
  BY CountedTyped DEF Job
<1>3. PICK lost \in SUBSET Tracked(head) :
          downloads' = downloads \cup {Recorded(PlanOf(head), part, lost)}
  BY DEF Job
<1>4. head \in Trees /\ lost \in SUBSET Files
  BY DEF TypeOK, Tracked
<1>5. /\ Recorded(PlanOf(head), part, lost) \in Data
      /\ Faithful(Recorded(PlanOf(head), part, lost))
  BY <1>4, PlanOfTree, RecordedFaithful
<1>6. TypeOK'
  BY <1>2, <1>3, <1>5 DEF Job, TypeOK, Nothing, project
<1>7. PlanInv' /\ DataInv' /\ JobInv' /\ BaselineInv'
  BY <1>3, <1>5 DEF Job, PlanInv, DataInv, JobInv, BaselineInv, Loaded, Readable
<1>8. QED
  BY <1>1, <1>6, <1>7

LEMMA InvMerge ==
    ASSUME IInv, Merge
    PROVE  IInv'
<1> USE DEF IInv
<1>1. SayingInv'
  BY Silent DEF Merge
<1>2. counts' \in [edits : 0 .. MaxEdits, commands : 0 .. MaxCommands]
  BY CountedTyped DEF Merge
<1>3. PICK ds \in (SUBSET {d \in downloads \cup {data} : Readable(d)}) \ {{}} : data' = Merged(ds)
  BY DEF Merge, MergedFiles
<1>4. \A d \in ds : d \in Data /\ Faithful(d)
  BY <1>3 DEF TypeOK, DataInv, JobInv, Readable
<1>5. data' \in Data /\ Faithful(data')
  BY <1>3, <1>4, MergedFaithful
<1>6. TypeOK'
  BY <1>2, <1>5 DEF Merge, TypeOK, Nothing, project
<1>7. PlanInv' /\ DataInv' /\ JobInv' /\ BaselineInv'
  BY <1>5 DEF Merge, PlanInv, DataInv, JobInv, BaselineInv, Loaded
<1>8. QED
  BY <1>1, <1>6, <1>7

LEMMA InvOther ==
    ASSUME IInv,
           \/ SaveBaseline \/ (\E all \in BOOLEAN : Clean(all))
           \/ (\E f \in Files : Edit(f)) \/ Commit
    PROVE  IInv'
<1> USE DEF IInv, project, files, Nothing
<1>1. SayingInv'
  BY Silent DEF SaveBaseline, Clean, Edit, Commit
<1>2. CASE SaveBaseline
  <2>1. counts' \in [edits : 0 .. MaxEdits, commands : 0 .. MaxCommands]
    BY <1>2, CountedTyped DEF SaveBaseline
  <2>2. baseline' = [plan |-> plan, data |-> data] /\ plan \in Plans /\ data \in Data
    BY <1>2 DEF SaveBaseline, Pair, Measured, Readable, TypeOK
  <2>3. TypeOK'
    BY <1>2, <2>1, <2>2 DEF SaveBaseline, TypeOK
  <2>4. PlanInv' /\ DataInv' /\ JobInv' /\ BaselineInv'
    BY <1>2, <2>2 DEF SaveBaseline, PlanInv, DataInv, JobInv, BaselineInv, Loaded, Measured, Readable
  <2>5. QED
    BY <1>1, <2>3, <2>4
<1>3. ASSUME NEW all \in BOOLEAN, Clean(all)
      PROVE  IInv'
  <2>1. counts' \in [edits : 0 .. MaxEdits, commands : 0 .. MaxCommands]
    BY <1>3, CountedTyped DEF Clean
  <2>2. plan' \in {plan, None} /\ data' \in {data, None} /\ baseline' \in {baseline, None}
    BY <1>3 DEF Clean
  <2>3. TypeOK'
    BY <1>3, <2>1, <2>2 DEF Clean, TypeOK
  <2>4. PlanInv' /\ DataInv' /\ JobInv' /\ BaselineInv'
    BY <1>3, <2>2 DEF Clean, PlanInv, DataInv, JobInv, BaselineInv, Loaded, Readable
  <2>5. QED
    BY <1>1, <2>3, <2>4
<1>4. ASSUME NEW f \in Files, Edit(f)
      PROVE  IInv'
  <2>1. counts' \in [edits : 0 .. MaxEdits, commands : 0 .. MaxCommands]
    BY <1>4, CountedTyped DEF Edit
  <2>2. tree' \in Trees
    BY <1>4 DEF Edit, TypeOK, Trees
  <2>3. TypeOK'
    BY <1>4, <2>1, <2>2 DEF Edit, TypeOK
  <2>4. PlanInv' /\ DataInv' /\ JobInv' /\ BaselineInv'
    BY <1>4 DEF Edit, PlanInv, DataInv, JobInv, BaselineInv, Loaded, Readable
  <2>5. QED
    BY <1>1, <2>3, <2>4
<1>5. CASE Commit
  <2>1. TypeOK'
    BY <1>5 DEF Commit, TypeOK
  <2>2. PlanInv' /\ DataInv' /\ JobInv' /\ BaselineInv'
    BY <1>5 DEF Commit, PlanInv, DataInv, JobInv, BaselineInv, Loaded, Readable
  <2>3. QED
    BY <1>1, <2>1, <2>2
<1>6. QED
  BY <1>2, <1>3, <1>4, <1>5

\* What a command that reads shows is what the files hold.
LEMMA InvReaders ==
    ASSUME IInv, Report \/ Show \/ Diff \/ DiffPatch
    PROVE  IInv'
<1> USE DEF IInv
<1>1. plan \in Plans /\ Readable(data) /\ plan' = plan
  BY DEF Report, Show, Diff, DiffPatch, Measured, TypeOK, files
<1>2. Covered(plan, data) \subseteq Files \X Indexes
  BY <1>1, CoveredTyped
<1>3. plan # None
  BY DEF Report, Show, Diff, DiffPatch, Measured
<1>4. CASE Report
  <2>1. shown' = [said |-> "summary", verdict |-> "ok", covered |-> Covered(plan, data)]
    BY <1>4 DEF Report, Says
  <2>2. data' = data \/ data' = Refused
    BY <1>4 DEF Report, Regenerated, Left
  <2>3. counts' \in [edits : 0 .. MaxEdits, commands : 0 .. MaxCommands]
    BY <1>4, CountedTyped DEF Report
  <2>4. TypeOK'
    BY <1>2, <1>4, <2>1, <2>2, <2>3 DEF Report, TypeOK, project
  <2>5. PlanInv' /\ DataInv' /\ JobInv' /\ BaselineInv'
    BY <1>4, <2>2 DEF Report, PlanInv, DataInv, JobInv, BaselineInv, Loaded, Readable
  <2>6. SayingInv'
    BY <1>1, <1>3, <2>1, <2>2 DEF SayingInv, Readable
  <2>7. QED
    BY <2>4, <2>5, <2>6
<1>5. CASE Show \/ Diff \/ DiffPatch
  <2>1. UNCHANGED <<project, files, counts>>
    BY <1>5 DEF Show, Diff, DiffPatch
  <2>2. Show => \E v \in {"ok", "below"} :
            shown' = [said |-> "summary", verdict |-> v, covered |-> Covered(plan, data)]
    <3>1. \A min, minBranch : SummaryVerdict(Covered(plan, data), min, minBranch) \in {"ok", "below"}
      BY DEF SummaryVerdict
    <3>2. QED
      BY <3>1 DEF Show, Says
  <2>3. Diff => shown' = [said |-> "diff", verdict |-> DiffVerdict, covered |-> Covered(plan, data)]
    BY DEF Diff, Says
  <2>4. ASSUME DiffPatch
        PROVE  \E v : /\ shown' = [said |-> "patch", verdict |-> v, covered |-> Covered(plan, data)]
                      /\ v = "ok, all" => PatchVerdict(100) = "pass"
    <3> DEFINE Said(threshold, gated) ==
            CASE PatchVerdict(threshold) = "fail" -> "below"
              [] PatchVerdict(threshold) = "pass" /\ gated /\ ~Loaded -> "error"
              [] PatchVerdict(threshold) = "pass" /\ gated /\ Loaded /\ DiffVerdict = "regressed" -> "regressed"
              [] OTHER -> IF threshold = 100 THEN "ok, all" ELSE "ok"
    <3>1. PICK threshold \in Thresholds, gated \in BOOLEAN : Says("patch", Said(threshold, gated))
      BY <2>4 DEF DiffPatch
    <3>2. PatchVerdict(threshold) \in {"pass", "fail"}
      BY DEF PatchVerdict
    <3>3. Said(threshold, gated) = "ok, all" => threshold = 100 /\ PatchVerdict(threshold) = "pass"
      BY <3>2
    <3> HIDE DEF Said
    <3>4. QED
      BY <3>1, <3>3 DEF Says
  <2>5. /\ shown'.said \in {"summary", "diff", "patch"} /\ shown'.covered = Covered(plan, data)
        /\ shown'.said = "diff" => Loaded /\ shown'.verdict = DiffVerdict
        /\ shown'.verdict = "ok, all" => shown'.said = "patch" /\ PatchVerdict(100) = "pass"
    <3>1. CASE Show
      <4>1. PICK v \in {"ok", "below"} :
                shown' = [said |-> "summary", verdict |-> v, covered |-> Covered(plan, data)]
        BY <2>2, <3>1
      <4>2. QED
        BY <4>1
    <3>2. CASE Diff
      <4>1. DiffVerdict # "ok, all" /\ Loaded
        BY <3>2 DEF Diff, DiffVerdict
      <4>2. shown' = [said |-> "diff", verdict |-> DiffVerdict, covered |-> Covered(plan, data)]
        BY <2>3, <3>2
      <4>3. /\ shown'.said = "diff" /\ shown'.verdict = DiffVerdict
            /\ shown'.covered = Covered(plan, data)
        BY <4>2
      <4>4. QED
        BY <4>1, <4>3
    <3>3. CASE DiffPatch
      <4>1. PICK v : /\ shown' = [said |-> "patch", verdict |-> v, covered |-> Covered(plan, data)]
                     /\ v = "ok, all" => PatchVerdict(100) = "pass"
        BY <2>4, <3>3
      <4>2. QED
        BY <4>1
    <3>4. QED
      BY <1>5, <3>1, <3>2, <3>3
  <2>6. TypeOK'
    BY <1>2, <2>1, <2>5 DEF TypeOK, project, files
  <2>7. PlanInv' /\ DataInv' /\ JobInv' /\ BaselineInv'
    BY <2>1 DEF files, PlanInv, DataInv, JobInv, BaselineInv, Loaded, Readable
  <2>8. SayingInv'
    <3>1. plan' = plan /\ data' = data /\ Loaded' = Loaded
      BY <2>1 DEF files, Loaded
    <3>2. DiffVerdict' = DiffVerdict /\ PatchVerdict(100)' = PatchVerdict(100)
      BY <2>1, VerdictsKept
    <3>3. QED
      BY <1>1, <1>3, <2>5, <3>1, <3>2 DEF SayingInv, Readable
  <2>9. QED
    BY <2>6, <2>7, <2>8
<1>6. QED
  BY <1>4, <1>5

LEMMA InvNext == IInv /\ [Next]_vars => IInv'
<1> SUFFICES ASSUME IInv, [Next]_vars PROVE IInv'
  OBVIOUS
<1>1. CASE \E part \in Shards : Test(part) \/ Job(part)
  BY <1>1, InvTest, InvJob
<1>2. CASE Merge
  BY <1>2, InvMerge
<1>3. CASE Report \/ Show \/ Diff \/ DiffPatch
  BY <1>3, InvReaders
<1>4. CASE \/ SaveBaseline \/ (\E all \in BOOLEAN : Clean(all))
           \/ (\E f \in Files : Edit(f)) \/ Commit
  BY <1>4, InvOther
<1>5. CASE UNCHANGED vars
  <2>1. UNCHANGED <<project, files, counts, shown>>
    BY <1>5 DEF vars
  <2>2. TypeOK'
    BY <2>1 DEF IInv, TypeOK, project, files
  <2>3. PlanInv' /\ DataInv' /\ JobInv' /\ BaselineInv'
    BY <2>1 DEF IInv, files, PlanInv, DataInv, JobInv, BaselineInv, Loaded, Readable
  <2>4. DiffVerdict' = DiffVerdict /\ PatchVerdict(100)' = PatchVerdict(100)
    BY <2>1, VerdictsKept
  <2>5. SayingInv'
    BY <2>1, <2>4 DEF IInv, files, SayingInv, Loaded, Readable
  <2>6. QED
    BY <2>2, <2>3, <2>5 DEF IInv
<1>6. QED
  BY <1>1, <1>2, <1>3, <1>4, <1>5 DEF Next

LEMMA Always == Spec => []IInv
BY InvInit, InvNext, PTL DEF Spec

\* Plans, coverage files, baselines and verdicts stay in their domains, for any
\* number of scripts, suites, points and shards.
THEOREM Typing == Spec => []TypeOK
<1>1. IInv => TypeOK
  BY DEF IInv
<1>2. QED
  BY <1>1, Always, PTL

-----------------------------------------------------------------------------
(* What it says of the commands. *)

\* A suite is in one of the shards of a --shard N.
LEMMA ShardsPartition ==
    ASSUME NEW s \in Suites, NEW n \in Nat \ {0}
    PROVE  \E k \in 1 .. n : s \in Select(<<k, n>>)
<1>1. s - 1 \in Nat
  BY Bounds DEF Suites
<1>2. (s - 1) % n \in 0 .. n - 1
  BY <1>1
<1>3. ((s - 1) % n) + 1 \in 1 .. n
  BY <1>2
<1>4. s \in Select(<<((s - 1) % n) + 1, n>>)
  BY <1>2 DEF Select
<1>5. QED
  BY <1>3, <1>4

LEMMA WholeIsMerged == IInv => MergedIsWhole
<1> SUFFICES ASSUME IInv, shown.said = "summary", Readable(data), data.of = {plan}, Whole(data)
             PROVE  shown.covered = {x \in AllPoints(plan) : \E s \in Suites : x[2] \in Executes[s][x[1]]}
  BY DEF MergedIsWhole, Readable
<1>1. plan \in Plans /\ data \in Data
  BY DEF IInv, SayingInv, TypeOK, Readable
<1>2. shown.covered = Covered(plan, data)
  BY DEF IInv, SayingInv
<1>3. \A f \in DOMAIN plan : HitIn(plan, data, f) = RunThrough(data, f) \cap DOMAIN PointsOf(plan, f)
  BY <1>1 DEF IInv, DataInv, Faithful, Exact
<1>4. ASSUME NEW f \in DOMAIN plan
      PROVE  RunThrough(data, f) = {i \in Indexes : \E s \in Suites : i \in Executes[s][f]}
  <2>1. RunThrough(data, f) \subseteq {i \in Indexes : \E s \in Suites : i \in Executes[s][f]}
    BY DEF RunThrough, Select
  <2>2. ASSUME NEW i \in Indexes, NEW s \in Suites, i \in Executes[s][f]
        PROVE  i \in RunThrough(data, f)
    <3>1. PICK r \in data.ran : \A k \in 1 .. r[1][2] : \E q \in data.ran : q[1] = <<k, r[1][2]>>
      BY DEF Whole
    <3>2. r[1][2] \in Nat \ {0}
      <4>1. r \in Shards \X SUBSET Files
        BY <1>1, DataParts
      <4>2. r[1] \in Nat \X (Nat \ {0})
        BY <4>1, ReportsAssumption
      <4>3. QED
        BY <4>2
    <3>3. PICK k \in 1 .. r[1][2] : s \in Select(<<k, r[1][2]>>)
      BY <3>2, ShardsPartition
    <3>4. PICK q \in data.ran : q[1] = <<k, r[1][2]>>
      BY <3>1
    <3>5. q[2] = {}
      BY DEF Whole
    <3>6. QED
      BY <2>2, <3>3, <3>4, <3>5 DEF RunThrough
  <2>3. QED
    BY <2>1, <2>2
<1>5. \A f \in DOMAIN plan : DOMAIN PointsOf(plan, f) \subseteq Indexes
  BY <1>1, PlanParts
<1>6. \A f \in DOMAIN plan : HitIn(plan, data, f)
          = {i \in DOMAIN PointsOf(plan, f) : \E s \in Suites : i \in Executes[s][f]}
  BY <1>3, <1>4, <1>5
<1>7. Covered(plan, data) \subseteq {x \in AllPoints(plan) : \E s \in Suites : x[2] \in Executes[s][x[1]]}
  BY <1>6 DEF Covered, AllPoints
<1>8. {x \in AllPoints(plan) : \E s \in Suites : x[2] \in Executes[s][x[1]]} \subseteq Covered(plan, data)
  BY <1>6 DEF Covered, AllPoints
<1>9. QED
  BY <1>2, <1>7, <1>8

\* Merging the files of all shards of a run, which lost no script, shows what all
\* suites run through, and nothing else: for any number of shards and any tree.
THEOREM MergingIsWhole == Spec => []MergedIsWhole
BY WholeIsMerged, Always, PTL

\* The points of a script that are hit are finitely many, and so are all of them.
LEMMA HitsFinite ==
    ASSUME NEW p \in Plans, NEW f \in DOMAIN p, NEW S \in SUBSET DOMAIN PointsOf(p, f)
    PROVE  /\ IsFiniteSet(S) /\ Cardinality(S) \in Nat /\ Cardinality(S) <= Len(PointsOf(p, f))
           /\ Len(PointsOf(p, f)) \in Nat
<1> DEFINE points == PointsOf(p, f)
<1>1. points \in Seq([line : Nat, branch : BOOLEAN])
  BY PlanParts
<1>2. Len(points) \in Nat /\ DOMAIN points = 1 .. Len(points)
  BY <1>1
<1>3. IsFiniteSet(1 .. Len(points)) /\ Cardinality(1 .. Len(points)) = Len(points)
  BY <1>2, FS_Interval
<1>4. IsFiniteSet(S) /\ Cardinality(S) <= Len(points)
  BY <1>2, <1>3, FS_Subset
<1>5. QED
  BY <1>2, <1>4, FS_CardinalityType

\* Two rates over the same total: the lower one has fewer covered.
LEMMA SameTotal ==
    ASSUME NEW a \in Nat, NEW b \in Nat, NEW n \in Nat, ~Below(<<a, n>>, <<b, n>>)
    PROVE  b <= a
<1> DEFINE m == IF n = 0 THEN 1 ELSE n
<1>1. m \in Nat /\ m >= 1
  OBVIOUS
<1>2. ~(a * m < b * m)
  BY DEF Below
<1> HIDE DEF m
<1>3. ASSUME a < b PROVE FALSE
  <2>1. b - a \in Nat /\ b - a >= 1
    BY <1>3
  <2>2. (b - a) * m >= 1
    BY <2>1, <1>1
  <2>3. b * m = a * m + (b - a) * m
    BY <1>1
  <2>4. a * m \in Nat /\ b * m \in Nat /\ (b - a) * m \in Nat
    BY <1>1, <2>1
  <2>5. QED
    BY <1>2, <2>2, <2>3, <2>4
<1>4. QED
  BY <1>3

LEMMA DiffIsSeen == IInv => NoUnseenRegression
<1> SUFFICES ASSUME IInv, shown.said = "diff", shown.verdict = "ok",
                    baseline.data.of = {baseline.plan}, data.of = {plan},
                    NEW f \in DOMAIN plan \cap DOMAIN baseline.plan,
                    plan[f].content = baseline.plan[f].content
             PROVE  LET tracked == DOMAIN PointsOf(plan, f)
                    IN  Cardinality(RunThrough(baseline.data, f) \cap tracked)
                            <= Cardinality(RunThrough(data, f) \cap tracked)
  BY DEF NoUnseenRegression
<1> DEFINE tracked == DOMAIN PointsOf(plan, f)
<1>1. Readable(data) /\ Loaded /\ DiffVerdict = "ok" /\ plan # None
  BY DEF IInv, SayingInv
<1>2. plan \in Plans /\ data \in Data /\ baseline.plan \in Plans /\ baseline.data \in Data
  BY <1>1 DEF IInv, TypeOK, Readable, Loaded
<1>3. ~Fell(baseline, f, f)
  BY <1>1 DEF DiffVerdict, Regressed
<1>4. PointsOf(baseline.plan, f) = PointsOf(plan, f)
  BY DEF PointsOf
<1>5. HitIn(plan, data, f) = RunThrough(data, f) \cap tracked
  BY <1>1, <1>2 DEF IInv, DataInv, Faithful, Exact
<1>6. HitIn(baseline.plan, baseline.data, f) = RunThrough(baseline.data, f) \cap tracked
  BY <1>1, <1>2, <1>4 DEF IInv, BaselineInv, Faithful, Exact
<1>7. ~Below(LineRate(plan, data, f), LineRate(baseline.plan, baseline.data, f))
  BY <1>3 DEF Fell
<1>8. ~Below(<<Cardinality(RunThrough(data, f) \cap tracked), Len(PointsOf(plan, f))>>,
             <<Cardinality(RunThrough(baseline.data, f) \cap tracked), Len(PointsOf(plan, f))>>)
  BY <1>4, <1>5, <1>6, <1>7 DEF LineRate
<1>9. /\ Cardinality(RunThrough(data, f) \cap tracked) \in Nat
      /\ Cardinality(RunThrough(baseline.data, f) \cap tracked) \in Nat
      /\ Len(PointsOf(plan, f)) \in Nat
  BY <1>2, HitsFinite
<1>10. QED
  BY <1>8, <1>9, SameTotal

\* When --fail-on-regression passes, no unchanged script is run through less than in
\* the baseline: for any number of scripts that were added, removed or renumbered.
THEOREM DiffMissesNothing == Spec => []NoUnseenRegression
BY DiffIsSeen, Always, PTL

\* Covering all of a patch leaves no point out.
LEMMA AllReached ==
    ASSUME NEW S, IsFiniteSet(S), NEW T \in SUBSET S, Reaches(T, S, 100)
    PROVE  T = S
<1>1. IsFiniteSet(T) /\ Cardinality(T) <= Cardinality(S) /\ (Cardinality(S) = Cardinality(T) => S = T)
  BY FS_Subset
<1>2. Cardinality(S) \in Nat /\ Cardinality(T) \in Nat
  BY <1>1, FS_CardinalityType
<1>3. 100 * Cardinality(T) >= 100 * Cardinality(S)
  BY DEF Reaches
<1>4. QED
  BY <1>1, <1>2, <1>3

LEMMA PlacesFinite == IsFiniteSet(Files \X Indexes)
<1>1. IsFiniteSet(1 .. NumFiles) /\ IsFiniteSet(1 .. MaxPoints)
  BY Bounds, FS_Interval
<1>2. QED
  BY <1>1, FS_Product DEF Files, Indexes

LEMMA PatchIsSeen == IInv => PatchIsRun
<1> SUFFICES ASSUME IInv, shown.verdict = "ok, all", data.of = {plan}, Matches(plan, head),
                    NEW f \in Tracked(head), NEW i \in DOMAIN Points[head[f]],
                    Points[head[f]][i].line \in Added[base[f]][head[f]]
             PROVE  i \in RunThrough(data, f)
  BY DEF PatchIsRun
<1>1. Readable(data) /\ plan # None /\ PatchVerdict(100) = "pass"
  BY DEF IInv, SayingInv
<1>2. plan \in Plans /\ data \in Data /\ head \in Trees
  BY <1>1 DEF IInv, TypeOK, Readable
<1>3. f \in DOMAIN plan /\ PointsOf(plan, f) = Points[head[f]]
  BY DEF Matches, PointsOf
<1>4. f \in DOMAIN ChangedLines /\ ChangedLines[f] = Added[base[f]][head[f]]
  BY ReportsAssumption DEF Tracked, ChangedLines
<1> DEFINE Touched(g) == {j \in DOMAIN PointsOf(plan, g) : PointsOf(plan, g)[j].line \in ChangedLines[g]}
           scripts == DOMAIN plan \cap DOMAIN ChangedLines
<1>5. <<f, i>> \in Patch /\ Patch \subseteq Files \X Indexes
  <2>1. Patch = UNION {{g} \X Touched(g) : g \in scripts}
    BY DEF Patch
  <2>2. f \in scripts /\ i \in Touched(f)
    BY <1>3, <1>4
  <2>3. \A g \in scripts : g \in Files /\ Touched(g) \subseteq Indexes
    BY <1>2, PlanParts
  <2> HIDE DEF Touched, scripts
  <2>4. <<f, i>> \in {f} \X Touched(f)
    BY <2>2
  <2>5. <<f, i>> \in Patch
    BY <2>1, <2>2, <2>4
  <2>6. \A g \in scripts : {g} \X Touched(g) \subseteq Files \X Indexes
    BY <2>3
  <2>7. QED
    BY <2>1, <2>5, <2>6
<1> HIDE DEF Touched, scripts
<1>6. ASSUME <<f, i>> \in Covered(plan, data)
      PROVE  i \in HitIn(plan, data, f)
  <2>1. PICK g \in DOMAIN plan : <<f, i>> \in {g} \X HitIn(plan, data, g)
    BY <1>6 DEF Covered
  <2>2. QED
    BY <2>1
<1>7. IsFiniteSet(Patch)
  BY <1>5, PlacesFinite, FS_Subset
<1>8. Reaches(Patch \cap Covered(plan, data), Patch, 100)
  BY <1>1, <1>5 DEF PatchVerdict
<1>9. Patch \cap Covered(plan, data) = Patch
  <2> DEFINE T == Patch \cap Covered(plan, data)
  <2>1. T \in SUBSET Patch /\ Reaches(T, Patch, 100)
    BY <1>8
  <2> HIDE DEF T
  <2>2. T = Patch
    BY <1>7, <2>1, AllReached, Zenon
  <2>3. QED
    BY <2>2 DEF T
<1>10. <<f, i>> \in Covered(plan, data)
  BY <1>5, <1>9
<1>11. i \in HitIn(plan, data, f)
  BY <1>6, <1>10
<1>12. QED
  BY <1>1, <1>2, <1>3, <1>11 DEF IInv, DataInv, Faithful, Exact

\* When --patch-fail-under 100 passes, every point on a line the branch added was
\* run through: for any branch, any suites and any files merged.
THEOREM PatchRuns == Spec => []PatchIsRun
BY PatchIsSeen, Always, PTL
================================================================================
