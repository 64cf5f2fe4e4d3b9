--------------------------- MODULE WatchSessionProofs ---------------------------
(***************************************************************************)
(* For any files, suites, names, saves and interrupts: what a re-run was   *)
(* narrowed to covers every changed file, a save during a run costs one    *)
(* follow-up run, and the session keeps the promise of ReRuns.             *)
(***************************************************************************)
EXTENDS WatchSession, SequenceTheorems, TLAPS

\* Numbers grow along a sequence of events.
Ordered(events) == \A i, j \in 1..Len(events) : i < j => events[i].id < events[j].id

LEMMA AppendEvent ==
    ASSUME NEW s \in Seq(Event), NEW e \in Event
    PROVE  /\ Append(s, e) \in Seq(Event) /\ ToSet(Append(s, e)) = ToSet(s) \cup {e}
           /\ Ordered(s) /\ (\A d \in ToSet(s) : d.id < e.id) => Ordered(Append(s, e))
<1>1. /\ Append(s, e) \in Seq(Event) /\ Len(Append(s, e)) = Len(s) + 1 /\ Len(s) \in Nat
      /\ \A i \in 1..Len(s) : Append(s, e)[i] = s[i]
      /\ Append(s, e)[Len(s) + 1] = e
  BY AppendProperties, LenProperties
<1>2. DOMAIN s = 1..Len(s) /\ DOMAIN Append(s, e) = 1..(Len(s) + 1)
  BY <1>1, LenProperties
<1>3. ToSet(Append(s, e)) = ToSet(s) \cup {e}
  <2>1. 1..(Len(s) + 1) = (1..Len(s)) \cup {Len(s) + 1}
    BY <1>1
  <2>2. QED
    BY <1>1, <1>2, <2>1 DEF ToSet
<1>4. ASSUME Ordered(s), \A d \in ToSet(s) : d.id < e.id PROVE Ordered(Append(s, e))
  <2>1. SUFFICES ASSUME NEW i \in 1..(Len(s) + 1), NEW j \in 1..(Len(s) + 1), i < j
                 PROVE  Append(s, e)[i].id < Append(s, e)[j].id
    BY <1>1 DEF Ordered
  <2>2. i \in 1..Len(s) /\ s[i] \in ToSet(s)
    <3>1. i \in 1..Len(s)
      BY <1>1, <2>1
    <3>2. QED
      BY <1>2, <3>1 DEF ToSet
  <2>3. CASE j = Len(s) + 1
    BY <1>1, <1>4, <2>2, <2>3
  <2>4. CASE j \in 1..Len(s)
    BY <1>1, <1>4, <2>1, <2>2, <2>4 DEF Ordered
  <2>5. QED
    BY <1>1, <2>3, <2>4
<1>5. QED
  BY <1>1, <1>3, <1>4

LEMMA TakeHead ==
    ASSUME NEW s \in Seq(Event), s # <<>>
    PROVE  /\ Head(s) \in Event /\ Tail(s) \in Seq(Event)
           /\ ToSet(s) = {Head(s)} \cup ToSet(Tail(s))
           /\ Ordered(s) => Ordered(Tail(s)) /\ \A d \in ToSet(Tail(s)) : Head(s).id < d.id
<1>1. /\ Head(s) = s[1] /\ Head(s) \in Event /\ Tail(s) \in Seq(Event) /\ Len(s) \in Nat \ {0}
      /\ Len(Tail(s)) = Len(s) - 1 /\ \A i \in 1..Len(Tail(s)) : Tail(s)[i] = s[i + 1]
  BY HeadTailProperties, EmptySeq
<1>2. DOMAIN s = 1..Len(s) /\ DOMAIN Tail(s) = 1..(Len(s) - 1)
  BY <1>1, LenProperties
<1>3. ToSet(s) = {Head(s)} \cup ToSet(Tail(s))
  <2>1. ASSUME NEW x \in ToSet(s) PROVE x = Head(s) \/ x \in ToSet(Tail(s))
    <3>1. PICK i \in 1..Len(s) : x = s[i]
      BY <1>2 DEF ToSet
    <3>2. CASE i = 1
      BY <1>1, <3>1, <3>2
    <3>3. CASE i # 1
      <4>1. i - 1 \in 1..(Len(s) - 1) /\ Tail(s)[i - 1] = s[i]
        BY <1>1, <3>1, <3>3
      <4>2. QED
        BY <1>2, <3>1, <4>1 DEF ToSet
    <3>4. QED
      BY <3>2, <3>3
  <2>2. Head(s) \in ToSet(s)
    BY <1>1, <1>2 DEF ToSet
  <2>3. ASSUME NEW x \in ToSet(Tail(s)) PROVE x \in ToSet(s)
    <3>1. PICK i \in 1..(Len(s) - 1) : x = Tail(s)[i]
      BY <1>2 DEF ToSet
    <3>2. i + 1 \in 1..Len(s) /\ x = s[i + 1]
      BY <1>1, <3>1
    <3>3. QED
      BY <1>2, <3>2 DEF ToSet
  <2>4. QED
    BY <2>1, <2>2, <2>3
<1>4. ASSUME Ordered(s) PROVE Ordered(Tail(s)) /\ \A d \in ToSet(Tail(s)) : Head(s).id < d.id
  <2>1. Ordered(Tail(s))
    <3>1. SUFFICES ASSUME NEW i \in 1..(Len(s) - 1), NEW j \in 1..(Len(s) - 1), i < j
                   PROVE  Tail(s)[i].id < Tail(s)[j].id
      BY <1>1 DEF Ordered
    <3>2. i + 1 \in 1..Len(s) /\ j + 1 \in 1..Len(s) /\ i + 1 < j + 1
      BY <1>1, <3>1
    <3>3. Tail(s)[i] = s[i + 1] /\ Tail(s)[j] = s[j + 1]
      BY <1>1
    <3>4. QED
      BY <1>4, <3>2, <3>3 DEF Ordered
  <2>2. ASSUME NEW d \in ToSet(Tail(s)) PROVE Head(s).id < d.id
    <3>1. PICK i \in 1..(Len(s) - 1) : d = Tail(s)[i]
      BY <1>2 DEF ToSet
    <3>2. 1 \in 1..Len(s) /\ i + 1 \in 1..Len(s) /\ 1 < i + 1 /\ d = s[i + 1]
      BY <1>1, <3>1
    <3>3. QED
      BY <1>1, <1>4, <3>2 DEF Ordered
  <2>3. QED
    BY <2>1, <2>2
<1>5. QED
  BY <1>1, <1>3, <1>4

LEMMA Listed ==
    ASSUME NEW s \in Seq(Event)
    PROVE  \A d \in ToSet(s) : d \in Event /\ d.id \in Nat
<1>1. \A d \in ToSet(s) : d \in Event
  BY LenProperties DEF ToSet
<1>2. \A d \in Event : d.id \in Nat
  <2>1. ASSUME NEW d \in Event PROVE d.id \in 1..MaxSaves
    BY DEF Event
  <2>2. MaxSaves \in Nat
    BY WatchAssumption
  <2>3. QED
    BY <2>1, <2>2
<1>3. QED
  BY <1>1, <1>2

-----------------------------------------------------------------------------
(* The invariant. *)

Places == {"discover", "read", "launch", "reread", "prepare", "execute", "report", "finish",
           "poll", "tick", "ended", "crashed"}

\* TypeOK in parts; changes come in only while no run is on, so no run is ever dirty.
DiskTyped == content \in [Files -> Kinds] /\ saves \in 0..MaxSaves /\ wire \in Seq(Event)
Coalescing ==
    /\ {pending, running, dirty, dueNow, quiet} \subseteq BOOLEAN /\ pc \in Places
    /\ (running => InRun \/ Over) /\ ~(running /\ pending) /\ ~dirty
    /\ pending => heard # {}
Selecting ==
    /\ changed \subseteq Files /\ listing \cup seen \cup executed \subseteq Suites
    /\ only \in Suites \cup {NoSuite}

\* Events keep the order of the saves, from the wire through the queue to those heard.
Fifo ==
    /\ Ordered(wire) /\ Ordered(queue)
    /\ \A q \in ToSet(queue), w \in ToSet(wire) : q.id < w.id
    /\ \A h \in heard, e \in ToSet(queue) \cup ToSet(wire) : h < e.id
    /\ \A b \in backlog, w \in ToSet(wire) : b < w.id
    /\ \A e \in ToSet(queue) \cup ToSet(wire) : e.id <= saves
    /\ heard \cup backlog \subseteq 1..saves

\* From the moment the queue was seen empty, what it holds is younger than the backlog.
Drained == pc \notin {"poll", "ended", "crashed"} => backlog \cap Ids(queue) = {}

\* What the run was narrowed to, since the suites were selected.
Narrowed ==
    pc \in {"launch", "reread", "prepare", "execute", "report"} /\ running =>
        \A f \in changed :
            \/ only = NoSuite
            \/ MapChangedFile(f, seen) = only
            \/ MapChangedFile(f, seen) = NoSuite /\ seen = {only}

IInv == DiskTyped /\ queue \in Seq(Event) /\ Coalescing /\ Selecting /\ Fifo /\ Drained /\ Narrowed

LEMMA Assumed ==
    /\ Suites \subseteq Files /\ NoSuite \notin Files /\ Filter \in Suites \cup {NoSuite}
    /\ MaxSaves \in Nat /\ MaxInterrupts \in Nat
BY WatchAssumption

LEMMA Implied == IInv => TypeOK /\ NothingNarrowedAway /\ OneFollowUp
BY DEF IInv, DiskTyped, Coalescing, Selecting, Drained, Narrowed, TypeOK, NothingNarrowedAway, OneFollowUp

LEMMA InitIInv == Init => IInv
<1> SUFFICES ASSUME Init PROVE IInv
  OBVIOUS
<1>1. ToSet(<<>>) = {} /\ Len(<<>>) = 0 /\ <<>> \in Seq(Event)
  BY EmptySeq DEF ToSet
<1>2. DiskTyped /\ queue \in Seq(Event)
  BY <1>1, Assumed DEF Init, DiskTyped, Kinds
<1>3. Coalescing /\ Selecting
  BY DEF Init, Coalescing, Selecting, Places, InRun
<1>4. Fifo
  BY <1>1 DEF Init, Fifo, Ordered
<1>5. Drained /\ Narrowed
  BY DEF Init, Drained, Narrowed
<1>6. QED
  BY <1>2, <1>3, <1>4, <1>5 DEF IInv

\* A file maps to one of the suites asked about, or to none.
LEMMA Mapped ==
    ASSUME NEW f, NEW suites
    PROVE  MapChangedFile(f, suites) \in suites \cup {NoSuite}
<1>1. Namesake(f, suites) \subseteq suites
  BY DEF Namesake
<1>2. QED
  BY <1>1 DEF MapChangedFile

LEMMA Filtered ==
    ASSUME NEW suites
    PROVE  SuiteFilter(suites) = NoSuite \/ suites = {SuiteFilter(suites)}
BY DEF SuiteFilter

\* Events behind a new save.
LEMMA StepDisk ==
    ASSUME IInv, NEW f \in Files,
           Delete(f) \/ \E kind \in Kinds : Save(f, kind) \/ Replace(f, kind)
    PROVE  IInv'
<1>1. /\ DiskTyped /\ queue \in Seq(Event) /\ Fifo /\ MaxSaves \in Nat /\ wire \in Seq(Event)
      /\ saves \in 0..MaxSaves
  BY Assumed DEF IInv, DiskTyped
<1>2. PICK type \in {"modified", "created", "deleted", "moved"} : Notify(f, type)
  BY DEF Delete, Save, Replace
<1>3. UNCHANGED <<queue, pending, running, dirty, dueNow, quiet, changed, pc, listing, seen, only, executed,
                  interrupts, heard, backlog>>
  BY DEF Delete, Save, Replace, DiskOnly, coalescer, run, history
<1> DEFINE e == [file |-> f, type |-> type, id |-> saves']
<1>4. saves' = saves + 1 /\ saves' \in 1..MaxSaves /\ wire' = Append(wire, e)
  BY <1>1, <1>2 DEF Notify
<1>5. e \in Event /\ e.id = saves'
  BY <1>4 DEF Event
<1> HIDE DEF e
<1>6. \A d \in ToSet(wire) : d.id < e.id
  <2>1. \A d \in ToSet(wire) : d.id \in Nat /\ d.id <= saves
    BY <1>1, Listed DEF Fifo
  <2>2. QED
    BY <1>1, <1>4, <1>5, <2>1
<1>7. wire' \in Seq(Event) /\ ToSet(wire') = ToSet(wire) \cup {e} /\ Ordered(wire')
  BY <1>1, <1>4, <1>5, <1>6, AppendEvent DEF Fifo
<1>8. content' \in [Files -> Kinds]
  BY <1>1 DEF DiskTyped, Delete, Save, Replace, Kinds
<1>9. DiskTyped' /\ (queue \in Seq(Event))'
  BY <1>1, <1>3, <1>4, <1>7, <1>8 DEF DiskTyped
<1>10. Fifo'
  <2>1. \A d \in ToSet(queue) : d.id \in Nat /\ d.id <= saves
    BY <1>1, Listed DEF Fifo
  <2>2. \A d \in ToSet(wire) : d.id \in Nat /\ d.id <= saves
    BY <1>1, Listed DEF Fifo
  <2>3. \A d \in ToSet(queue) \cup ToSet(wire) : d.id < e.id /\ d.id <= saves'
    BY <1>1, <1>4, <1>5, <2>1, <2>2
  <2>4. \A h \in heard \cup backlog : h \in 1..saves' /\ h < e.id
    BY <1>1, <1>4, <1>5 DEF Fifo
  <2>5. e.id <= saves'
    BY <1>4, <1>5
  <2>6. QED
    BY <1>1, <1>3, <1>7, <2>3, <2>4, <2>5 DEF Fifo
<1>11. Coalescing' /\ Selecting' /\ Drained' /\ Narrowed'
  BY <1>3 DEF IInv, Coalescing, Selecting, Drained, Narrowed, InRun, Over, Ids
<1>12. QED
  BY <1>9, <1>10, <1>11 DEF IInv

LEMMA StepEnqueue ==
    ASSUME IInv, Enqueue
    PROVE  IInv'
<1>1. DiskTyped /\ queue \in Seq(Event) /\ Fifo /\ wire \in Seq(Event) /\ wire # <<>>
  BY DEF IInv, DiskTyped, Enqueue
<1>2. UNCHANGED <<content, saves, pending, running, dirty, dueNow, quiet, changed, pc, listing, seen, only,
                  executed, heard, backlog>>
      /\ wire' = Tail(wire) /\ (queue' = queue \/ queue' = Append(queue, Head(wire)))
  BY DEF Enqueue, coalescer, run, history
<1>3. /\ Head(wire) \in Event /\ wire' \in Seq(Event) /\ ToSet(wire) = {Head(wire)} \cup ToSet(wire')
      /\ Ordered(wire') /\ \A d \in ToSet(wire') : Head(wire).id < d.id
  BY <1>1, <1>2, TakeHead DEF Fifo
<1>4. \A d \in ToSet(queue) : d.id < Head(wire).id
  BY <1>1, <1>3 DEF Fifo
<1>5. /\ queue' \in Seq(Event) /\ Ordered(queue')
      /\ ToSet(queue') = ToSet(queue) \/ ToSet(queue') = ToSet(queue) \cup {Head(wire)}
  <2>1. CASE queue' = queue
    BY <1>1, <2>1 DEF Fifo
  <2>2. CASE queue' = Append(queue, Head(wire))
    <3>1. Ordered(queue)
      BY <1>1 DEF Fifo
    <3>2. QED
      BY <1>1, <1>3, <1>4, <2>2, <3>1, AppendEvent
  <2>3. QED
    BY <1>2, <2>1, <2>2
<1>6. Fifo'
  <2>1. \A q \in ToSet(queue'), w \in ToSet(wire') : q.id < w.id
    BY <1>1, <1>3, <1>5 DEF Fifo
  <2>2. ToSet(queue') \cup ToSet(wire') \subseteq ToSet(queue) \cup ToSet(wire)
    BY <1>3, <1>5
  <2>3. \A h \in heard, e \in ToSet(queue') \cup ToSet(wire') : h < e.id
    BY <1>1, <2>2 DEF Fifo
  <2>4. \A e \in ToSet(queue') \cup ToSet(wire') : e.id <= saves
    BY <1>1, <2>2 DEF Fifo
  <2>5. \A b \in backlog, w \in ToSet(wire') : b < w.id
    BY <1>1, <1>3 DEF Fifo
  <2>6. QED
    BY <1>1, <1>2, <1>3, <1>5, <2>1, <2>3, <2>4, <2>5 DEF Fifo
<1>7. Head(wire).id \notin backlog
  <2>1. \A b \in backlog : b \in Nat /\ b < Head(wire).id
    BY <1>1, <1>3 DEF Fifo
  <2>2. QED
    BY <2>1
<1>8. Drained'
  BY <1>2, <1>5, <1>7 DEF IInv, Drained, Ids
<1>9. DiskTyped' /\ Coalescing' /\ Selecting' /\ Narrowed'
  BY <1>1, <1>2, <1>3 DEF IInv, DiskTyped, Coalescing, Selecting, Narrowed, InRun, Over
<1>10. QED
  BY <1>5, <1>6, <1>8, <1>9 DEF IInv

LEMMA StepTakeEvent ==
    ASSUME IInv, TakeEvent
    PROVE  IInv'
<1>1. /\ DiskTyped /\ queue \in Seq(Event) /\ Fifo /\ Coalescing /\ Selecting /\ pc = "poll" /\ queue # <<>>
      /\ ~running /\ ~dirty /\ saves \in Nat
  BY DEF IInv, TakeEvent, Coalescing, InRun, Over, DiskTyped
<1>2. UNCHANGED <<content, saves, wire, pc, listing, seen, only, executed, backlog, running, dueNow>>
      /\ queue' = Tail(queue)
  BY DEF TakeEvent, disk, coalescer, run, NotifyChange
<1>3. /\ Head(queue) \in Event /\ queue' \in Seq(Event) /\ ToSet(queue) = {Head(queue)} \cup ToSet(queue')
      /\ Ordered(queue') /\ \A d \in ToSet(queue') : Head(queue).id < d.id
  BY <1>1, <1>2, TakeHead DEF Fifo
<1>4. \/ /\ changed' = changed \cup {Head(queue).file} /\ heard' = heard \cup {Head(queue).id}
         /\ pending' = TRUE /\ quiet' = FALSE /\ dirty' = dirty
      \/ UNCHANGED <<changed, heard, pending, quiet, dirty>>
  BY <1>1 DEF TakeEvent, NotifyChange, Hear, coalescer
<1>5. Coalescing'
  <2>1. {pending, running, dirty, dueNow, quiet}' \subseteq BOOLEAN
    BY <1>1, <1>2, <1>4 DEF Coalescing
  <2>2. ~running' /\ ~dirty' /\ pc' \in Places
    BY <1>1, <1>2, <1>4 DEF Places
  <2>3. pending' => heard' # {}
    BY <1>1, <1>4 DEF Coalescing
  <2>4. QED
    BY <2>1, <2>2, <2>3 DEF Coalescing
<1>6. Selecting'
  BY <1>1, <1>2, <1>3, <1>4 DEF Selecting, Event
<1>7. Fifo'
  <2>1. \A d \in ToSet(wire) : Head(queue).id < d.id
    BY <1>1, <1>3 DEF Fifo
  <2>2. Head(queue).id \in 1..saves
    BY <1>1, <1>3 DEF Fifo, Event
  <2>3. QED
    BY <1>1, <1>2, <1>3, <1>4, <2>1, <2>2 DEF Fifo
<1>8. DiskTyped' /\ Drained' /\ Narrowed'
  BY <1>1, <1>2 DEF DiskTyped, Drained, Narrowed
<1>9. QED
  BY <1>3, <1>5, <1>6, <1>7, <1>8 DEF IInv

\* A step that leaves the disk's events, the queue and what was heard alone keeps their order.
LEMMA SameEvents ==
    ASSUME IInv, UNCHANGED <<content, saves, wire, queue, heard>>,
           UNCHANGED backlog \/ backlog' = Ids(queue)
    PROVE  DiskTyped' /\ (queue \in Seq(Event))' /\ Fifo'
<1>1. DiskTyped /\ queue \in Seq(Event) /\ Fifo /\ wire \in Seq(Event)
  BY DEF IInv, DiskTyped
<1>2. DiskTyped' /\ (queue \in Seq(Event))'
  BY <1>1 DEF DiskTyped
<1>3. ASSUME backlog' \subseteq 1..saves, \A b \in backlog', w \in ToSet(wire) : b < w.id
      PROVE  Fifo'
  <2>1. /\ Ordered(wire') /\ Ordered(queue') /\ ToSet(wire') = ToSet(wire) /\ ToSet(queue') = ToSet(queue)
        /\ heard' = heard /\ saves' = saves
    BY <1>1 DEF Fifo
  <2>2. QED
    BY <1>1, <1>3, <2>1 DEF Fifo
<1>4. CASE backlog' = Ids(queue)
  <2>1. \A b \in Ids(queue), w \in ToSet(wire) : b < w.id
    BY <1>1 DEF Fifo, Ids
  <2>2. Ids(queue) \subseteq 1..saves
    <3>1. \A e \in ToSet(queue) : e \in Event /\ e.id <= saves
      BY <1>1, Listed DEF Fifo
    <3>2. \A e \in Event : e.id \in 1..MaxSaves
      BY DEF Event
    <3>3. saves \in Nat /\ MaxSaves \in Nat
      BY <1>1, Assumed DEF DiskTyped
    <3>4. QED
      BY <3>1, <3>2, <3>3 DEF Ids
  <2>3. QED
    BY <1>2, <1>3, <1>4, <2>1, <2>2
<1>5. CASE UNCHANGED backlog
  BY <1>1, <1>2, <1>3, <1>5 DEF Fifo
<1>6. QED
  BY <1>4, <1>5

\* What the re-run is narrowed to covers what changed.
LEMMA Covers ==
    ASSUME NEW suites, NEW files, NEW f \in files,
           NEW s, s = SuiteFilter(IF Unmapped(files, suites) THEN suites ELSE Selected(files, suites))
    PROVE  \/ s = NoSuite
           \/ MapChangedFile(f, suites) = s
           \/ MapChangedFile(f, suites) = NoSuite /\ suites = {s}
<1>1. MapChangedFile(f, suites) \in suites \cup {NoSuite}
  BY Mapped
<1>2. CASE Unmapped(files, suites)
  <2>1. s = NoSuite \/ suites = {s}
    BY <1>2, Filtered
  <2>2. QED
    BY <1>1, <2>1
<1>3. CASE ~Unmapped(files, suites)
  <2>1. s = NoSuite \/ Selected(files, suites) = {s}
    BY <1>3, Filtered
  <2>2. MapChangedFile(f, suites) \in Selected(files, suites)
    BY <1>3 DEF Unmapped, Selected
  <2>3. QED
    BY <2>1, <2>2
<1>4. QED
  BY <1>2, <1>3

LEMMA StepSelectSuites ==
    ASSUME IInv, SelectSuites
    PROVE  IInv'
<1>1. UNCHANGED <<content, saves, wire, owed, queue, interrupts, heard, backlog, changed, listing, executed,
                  pending, running, dirty, dueNow, quiet>>
      /\ pc = "read" /\ pc' = "launch"
  BY DEF SelectSuites, LoopOnly, disk, coalescer, history
<1>2. DiskTyped' /\ (queue \in Seq(Event))' /\ Fifo'
  BY <1>1, SameEvents
<1>3. seen' \subseteq Suites
  BY DEF IInv, Selecting, SelectSuites, Discovered
<1>4. only' \in Suites \cup {NoSuite}
  <2>1. Selected(changed, seen') \subseteq seen'
    BY Mapped DEF Selected
  <2>2. PICK x \in {seen', Selected(changed, seen')} : only' = SuiteFilter(x)
    BY DEF SelectSuites
  <2>3. only' = NoSuite \/ x = {only'}
    BY <2>2, Filtered
  <2>4. QED
    BY <1>3, <2>1, <2>2, <2>3
<1>5. Selecting'
  BY <1>1, <1>3, <1>4 DEF IInv, Selecting
<1>6. Narrowed'
  <2>1. SUFFICES ASSUME running, NEW f \in changed
                 PROVE  \/ only' = NoSuite
                        \/ MapChangedFile(f, seen') = only'
                        \/ MapChangedFile(f, seen') = NoSuite /\ seen' = {only'}
    BY <1>1 DEF Narrowed, MapChangedFile, Namesake
  <2>2. only' = SuiteFilter(IF Unmapped(changed, seen') THEN seen' ELSE Selected(changed, seen'))
    BY <2>1 DEF SelectSuites
  <2>3. QED
    BY <2>2, Covers
<1>7. Coalescing' /\ Drained'
  BY <1>1 DEF IInv, Coalescing, Drained, Ids, InRun, Over, Places
<1>8. QED
  BY <1>2, <1>5, <1>6, <1>7 DEF IInv

LEMMA StepCheckDue ==
    ASSUME IInv, CheckDue
    PROVE  IInv'
<1>1. UNCHANGED <<content, saves, wire, owed, queue, interrupts, backlog, changed, listing, seen, only, executed,
                  quiet>> /\ pc = "tick"
  BY DEF CheckDue, LoopOnly, disk, run, coalescer, StartRun
<1>2. CASE ShouldRun
  <2>1. /\ pending' = FALSE /\ dirty' = FALSE /\ dueNow' = FALSE /\ running' = TRUE
        /\ pc' = "discover" /\ heard' = {}
    BY <1>2 DEF CheckDue, StartRun
  <2>2. Fifo'
    BY <1>1, <2>1 DEF IInv, Fifo
  <2>3. Coalescing'
    BY <1>1, <2>1 DEF IInv, Coalescing, InRun, Places
  <2>4. DiskTyped' /\ Selecting' /\ Drained' /\ Narrowed'
    BY <1>1, <2>1 DEF IInv, DiskTyped, Selecting, Drained, Narrowed, Ids
  <2>5. QED
    BY <1>1, <2>2, <2>3, <2>4 DEF IInv
<1>3. CASE ~ShouldRun
  <2>1. UNCHANGED <<pending, running, dirty, dueNow, heard>> /\ pc' = "poll"
    BY <1>3 DEF CheckDue, coalescer
  <2>2. DiskTyped' /\ (queue \in Seq(Event))' /\ Fifo'
    BY <1>1, <2>1, SameEvents
  <2>3. ~running
    BY <1>1 DEF IInv, Coalescing, InRun, Over
  <2>4. Coalescing' /\ Selecting' /\ Drained' /\ Narrowed'
    BY <1>1, <2>1, <2>3 DEF IInv, Coalescing, Selecting, Drained, Narrowed, InRun, Over, Places
  <2>5. QED
    BY <2>2, <2>4 DEF IInv
<1>4. QED
  BY <1>2, <1>3

\* The steps of the loop that take no event, select nothing and start nothing.
Onward == Tick \/ ListFiles \/ ListedFileGone \/ Launch \/ Proceed \/ Interrupt

LEMMA StepOnward ==
    ASSUME IInv, Onward
    PROVE  IInv'
<1>1. UNCHANGED <<content, saves, wire, queue, heard, backlog, changed, seen, only, pending, running, dirty,
                  dueNow, quiet>>
  BY DEF Onward, Tick, ListFiles, ListedFileGone, Launch, Proceed, Interrupt, LoopOnly, disk, run, history, coalescer
<1>2. DiskTyped' /\ (queue \in Seq(Event))' /\ Fifo'
  BY <1>1, SameEvents
<1>3. Selecting'
  <2>1. listing' \subseteq Suites
    BY DEF IInv, Selecting, Onward, Tick, ListFiles, ListedFileGone, Launch, Proceed, Interrupt, run
  <2>2. executed' \subseteq Suites
    BY DEF IInv, Selecting, Onward, Tick, ListFiles, ListedFileGone, Launch, Proceed, Interrupt, run, Discovered
  <2>3. QED
    BY <1>1, <2>1, <2>2 DEF IInv, Selecting
<1>4. /\ pc' \in Places
      /\ pc # "poll" => InRun' \/ Over' \/ pc' = "tick"
      /\ pc = "tick" => pc' \in {"ended", "crashed"}
      /\ pc = "poll" /\ pc' \notin {"ended", "crashed"} => queue = <<>> /\ pc' = "tick"
      /\ ~Over
      /\ pc' \in {"launch", "reread", "prepare", "execute", "report"} =>
             pc \in {"launch", "reread", "prepare", "execute", "report"}
  BY DEF Onward, Tick, ListFiles, ListedFileGone, Launch, Proceed, Interrupt, QuietQueue, InRun, Over, Places
<1>5. Coalescing'
  <2>1. ~running \/ InRun
    BY <1>4 DEF IInv, Coalescing
  <2>2. InRun => pc # "poll" /\ pc # "tick"
    BY DEF InRun
  <2>3. running => InRun' \/ Over'
    BY <2>1, <2>2 DEF Onward, Tick, ListFiles, ListedFileGone, Launch, Proceed, Interrupt, InRun, Over
  <2>4. QED
    BY <1>1, <1>4, <2>3 DEF IInv, Coalescing
<1>6. Drained'
  <2>1. ToSet(<<>>) = {}
    BY EmptySeq DEF ToSet
  <2>2. QED
    BY <1>1, <1>4, <2>1 DEF IInv, Drained, Ids, Over
<1>7. Narrowed'
  BY <1>1, <1>4 DEF IInv, Narrowed, MapChangedFile, Namesake
<1>8. QED
  BY <1>2, <1>3, <1>5, <1>6, <1>7 DEF IInv

LEMMA StepEndRun ==
    ASSUME IInv, EndRun
    PROVE  IInv'
<1>1. /\ UNCHANGED <<content, saves, wire, queue, heard, listing, seen, only, executed>>
      /\ backlog' = Ids(queue) /\ pc' = "poll" /\ changed' \in {{}, changed}
  BY DEF EndRun, LoopOnly, disk, run
<1>2. DiskTyped' /\ (queue \in Seq(Event))' /\ Fifo'
  BY <1>1, SameEvents
<1>3. ~dirty
  BY DEF IInv, Coalescing
<1>4. UNCHANGED <<pending, dirty, dueNow, quiet>> /\ running' = FALSE
  <2>1. running \in BOOLEAN
    BY DEF IInv, Coalescing
  <2>2. CASE running
    BY <1>3, <2>2 DEF EndRun, FinishRun
  <2>3. CASE ~running
    BY <2>1, <2>3 DEF EndRun, coalescer
  <2>4. QED
    BY <2>2, <2>3
<1>5. Coalescing'
  BY <1>1, <1>4 DEF IInv, Coalescing, Places
<1>6. Selecting' /\ Drained' /\ Narrowed'
  BY <1>1, <1>4 DEF IInv, Selecting, Drained, Narrowed
<1>7. QED
  BY <1>2, <1>5, <1>6 DEF IInv

LEMMA StepStill ==
    ASSUME IInv, DebounceElapses \/ UNCHANGED vars
    PROVE  IInv'
<1>1. UNCHANGED <<content, saves, wire, queue, heard, backlog, changed, listing, seen, only, executed, pc,
                  pending, running, dirty, dueNow>> /\ quiet' \in BOOLEAN
  BY DEF IInv, Coalescing, DebounceElapses, vars, disk, run, history, coalescer
<1>2. DiskTyped' /\ (queue \in Seq(Event))' /\ Fifo'
  BY <1>1, SameEvents
<1>3. Coalescing'
  BY <1>1 DEF IInv, Coalescing, InRun, Over
<1>4. Selecting' /\ Drained' /\ Narrowed'
  BY <1>1 DEF IInv, Selecting, Drained, Narrowed, Ids, MapChangedFile, Namesake
<1>5. QED
  BY <1>2, <1>3, <1>4 DEF IInv

LEMMA NextIInv == IInv /\ [Next]_vars => IInv'
<1> SUFFICES ASSUME IInv, [Next]_vars PROVE IInv'
  OBVIOUS
<1>1. CASE \E f \in Files : Delete(f) \/ \E kind \in Kinds : Save(f, kind) \/ Replace(f, kind)
  BY <1>1, StepDisk
<1>2. CASE Enqueue \/ TakeEvent \/ CheckDue \/ SelectSuites \/ EndRun
  BY <1>2, StepEnqueue, StepTakeEvent, StepCheckDue, StepSelectSuites, StepEndRun
<1>3. CASE Onward \/ DebounceElapses \/ UNCHANGED vars
  BY <1>3, StepOnward, StepStill
<1>4. QED
  BY <1>1, <1>2, <1>3 DEF Next, Loop, Onward, Stopped

-----------------------------------------------------------------------------
(* The invariants of the runs. *)

\* Type correctness: in particular the coalescer is running exactly within a
\* re-run, and no change is pending for it then (watch/coalescer.py).
THEOREM Typing == Spec => []TypeOK
<1>1. IInv => TypeOK
  BY Implied
<1>2. QED
  BY <1>1, InitIInv, NextIInv, PTL DEF Spec

\* The runner's narrowing to one suite (watch/session.py) never leaves out the
\* suite of a file that changed.
THEOREM NarrowedCovers == Spec => []NothingNarrowedAway
<1>1. IInv => NothingNarrowedAway
  BY Implied
<1>2. QED
  BY <1>1, InitIInv, NextIInv, PTL DEF Spec

\* Saves that arrive during a run cost one follow-up run: the loop hears all
\* of them before it takes the tick that starts it (watch/loop.py).
THEOREM FollowUp == Spec => []OneFollowUp
<1>1. IInv => OneFollowUp
  BY Implied
<1>2. QED
  BY <1>1, InitIInv, NextIInv, PTL DEF Spec

-----------------------------------------------------------------------------
(* The refinement: every step of the session is one of ReRuns, or a stutter. *)

Waiting == heard \cup Announced(wire) \cup Announced(queue)

LEMMA AnnouncedAppend ==
    ASSUME NEW s \in Seq(Event), NEW e \in Event
    PROVE  Announced(Append(s, e)) = Announced(s) \cup {d.id : d \in {x \in {e} : x.type \in Triggers}}
<1>1. ToSet(Append(s, e)) = ToSet(s) \cup {e}
  BY AppendEvent
<1>2. QED
  BY <1>1 DEF Announced

LEMMA AnnouncedTail ==
    ASSUME NEW s \in Seq(Event), s # <<>>
    PROVE  Announced(s) = Announced(Tail(s)) \cup {d.id : d \in {x \in {Head(s)} : x.type \in Triggers}}
<1>1. ToSet(s) = {Head(s)} \cup ToSet(Tail(s))
  BY TakeHead
<1>2. QED
  BY <1>1 DEF Announced

\* A change on the disk is a save of the promise; it waits if it calls for a run.
LEMMA DiskSaves ==
    ASSUME IInv, NEW f \in Files,
           Delete(f) \/ \E kind \in Kinds : Save(f, kind) \/ Replace(f, kind)
    PROVE  Promise!Save
<1>1. PICK type \in {"modified", "created", "deleted", "moved"} : Notify(f, type)
  BY DEF Delete, Save, Replace
<1>2. UNCHANGED <<queue, pc, heard>>
  BY DEF Delete, Save, Replace, DiskOnly, history
<1> DEFINE e == [file |-> f, type |-> type, id |-> saves']
<1>3. saves < MaxSaves /\ saves' = saves + 1 /\ wire' = Append(wire, e) /\ wire \in Seq(Event)
  BY <1>1 DEF Notify, IInv, DiskTyped
<1>4. e \in Event /\ e.id = saves'
  <2>1. saves' \in 1..MaxSaves
    BY <1>3, Assumed DEF IInv, DiskTyped
  <2>2. QED
    BY <2>1 DEF Event
<1> HIDE DEF e
<1>5. Announced(wire') \in {Announced(wire), Announced(wire) \cup {saves'}}
  <2>1. Announced(wire') = Announced(wire) \cup {d.id : d \in {x \in {e} : x.type \in Triggers}}
    BY <1>3, <1>4, AnnouncedAppend
  <2>2. QED
    BY <1>4, <2>1
<1>6. Waiting' \in {Waiting, Waiting \cup {saves'}}
  BY <1>2, <1>5 DEF Waiting, Announced
<1>7. QED
  BY <1>2, <1>3, <1>6 DEF Promise!Save, Waiting, InRun, Over

\* Events on their way to the loop are the same saves, still waiting.
LEMMA MovingWaits ==
    ASSUME IInv, Enqueue \/ TakeEvent
    PROVE  UNCHANGED <<saves, Waiting, pc>>
<1>1. wire \in Seq(Event) /\ queue \in Seq(Event)
  BY DEF IInv, DiskTyped
<1>2. CASE Enqueue
  <2>1. /\ UNCHANGED <<saves, heard, pc>> /\ wire # <<>> /\ wire' = Tail(wire)
        /\ queue' = IF Head(wire).type \in {"modified", "created", "deleted"}
                    THEN Append(queue, Head(wire)) ELSE queue
    BY <1>2 DEF Enqueue, history
  <2>2. Head(wire) \in Event
    BY <1>1, <2>1, TakeHead
  <2> DEFINE moved == {d.id : d \in {x \in {Head(wire)} : x.type \in Triggers}}
  <2>3. Announced(wire) = Announced(wire') \cup moved
    BY <1>1, <2>1, AnnouncedTail
  <2>4. Announced(queue') = Announced(queue) \cup moved
    <3>1. CASE Head(wire).type \in {"modified", "created", "deleted"}
      BY <1>1, <2>1, <2>2, <3>1, AnnouncedAppend
    <3>2. CASE Head(wire).type \notin {"modified", "created", "deleted"}
      BY <2>1, <3>2 DEF Triggers
    <3>3. QED
      BY <3>1, <3>2
  <2>5. QED
    BY <2>1, <2>3, <2>4 DEF Waiting, Announced
<1>3. CASE TakeEvent
  <2>1. UNCHANGED <<saves, wire, pc>> /\ queue # <<>> /\ queue' = Tail(queue)
    BY <1>3 DEF TakeEvent, disk
  <2> DEFINE moved == {d.id : d \in {x \in {Head(queue)} : x.type \in Triggers}}
  <2>2. Announced(queue) = Announced(queue') \cup moved
    BY <1>1, <2>1, AnnouncedTail
  <2>3. heard' = heard \cup moved
    BY <1>3 DEF TakeEvent, Hear
  <2>4. QED
    BY <2>1, <2>2, <2>3 DEF Waiting, Announced
<1>4. QED
  BY <1>2, <1>3

\* A run that is due answers what was heard, and something was.
LEMMA DueAnswers ==
    ASSUME IInv, CheckDue, ShouldRun
    PROVE  Promise!Start
<1>1. UNCHANGED <<saves, wire, queue>> /\ pc = "tick" /\ pc' = "discover" /\ heard' = {}
  BY DEF CheckDue, LoopOnly, disk
<1>2. heard # {} /\ heard \subseteq Waiting
  BY DEF IInv, Coalescing, ShouldRun, Waiting
<1>3. Waiting' = Waiting \ heard
  <2>1. Announced(wire') = Announced(wire) /\ Announced(queue') = Announced(queue)
    BY <1>1
  <2>2. \A h \in heard : h \in Nat /\ h \notin Announced(wire) \cup Announced(queue)
    <3>1. wire \in Seq(Event) /\ queue \in Seq(Event) /\ saves \in Nat
      BY DEF IInv, DiskTyped
    <3>2. \A h \in heard : h \in Nat
      BY <3>1 DEF IInv, Fifo
    <3>3. \A h \in heard, e \in ToSet(queue) \cup ToSet(wire) : h < e.id
      BY DEF IInv, Fifo
    <3>4. \A e \in ToSet(queue) \cup ToSet(wire) : e.id \in Nat
      BY <3>1, Listed
    <3>5. \A h \in heard, e \in ToSet(queue) \cup ToSet(wire) : h # e.id
      BY <3>2, <3>3, <3>4
    <3>6. QED
      BY <3>2, <3>5 DEF Announced
  <2>3. QED
    BY <1>1, <2>1, <2>2 DEF Waiting
<1>4. QED
  BY <1>1, <1>2, <1>3 DEF Promise!Start, Waiting, InRun, Over

\* The rest of the loop answers nothing: it stutters, or ends the run or the session.
LEMMA RestStutters ==
    ASSUME IInv, \/ Onward \/ SelectSuites \/ EndRun \/ DebounceElapses \/ UNCHANGED vars
                 \/ CheckDue /\ ~ShouldRun
    PROVE  Promise!Finish \/ Promise!End \/ UNCHANGED Promise!vars
<1>1. UNCHANGED <<saves, wire, queue, heard>>
  BY DEF Onward, Tick, ListFiles, ListedFileGone, Launch, Proceed, Interrupt, SelectSuites, EndRun,
         DebounceElapses, CheckDue, LoopOnly, vars, disk, history
<1>2. UNCHANGED <<saves, Waiting>>
  BY <1>1 DEF Waiting, Announced
<1>3. CASE EndRun
  BY <1>2, <1>3 DEF EndRun, Promise!Finish, Waiting, InRun, Over
<1>4. CASE ListedFileGone \/ Interrupt
  <2>1. ~Over /\ ((Over' /\ ~InRun') \/ (pc = "execute" /\ pc' = "finish"))
    BY <1>4 DEF ListedFileGone, Interrupt, InRun, Over
  <2>2. QED
    BY <1>2, <2>1 DEF Promise!End, Promise!vars, Waiting, InRun, Over
<1>5. CASE \/ Tick \/ ListFiles \/ Launch \/ Proceed \/ SelectSuites \/ DebounceElapses \/ UNCHANGED vars
           \/ CheckDue /\ ~ShouldRun
  <2>1. InRun' = InRun /\ Over' = Over
    BY <1>5 DEF Tick, ListFiles, Launch, Proceed, SelectSuites, DebounceElapses, vars, CheckDue, InRun, Over
  <2>2. QED
    BY <1>2, <2>1 DEF Promise!vars, Waiting
<1>6. QED
  BY <1>3, <1>4, <1>5 DEF Onward

\* The session implements ReRuns: runs one at a time, each re-run answering a
\* save of its own, no save answered twice (watch/loop.py, watch/coalescer.py).
THEOREM Promised == Spec => PromiseKept
<1>1. Init => Promise!Init
  <2>1. ToSet(<<>>) = {}
    BY EmptySeq DEF ToSet
  <2>2. QED
    BY <2>1 DEF Init, Promise!Init, Announced, InRun, Over
<1>2. IInv /\ [Next]_vars => [Promise!Next]_(Promise!vars)
  <2> SUFFICES ASSUME IInv, [Next]_vars PROVE Promise!Next \/ UNCHANGED Promise!vars
    OBVIOUS
  <2>1. CASE \E f \in Files : Delete(f) \/ \E kind \in Kinds : Save(f, kind) \/ Replace(f, kind)
    BY <2>1, DiskSaves DEF Promise!Next
  <2>2. CASE Enqueue \/ TakeEvent
    <3>1. UNCHANGED <<saves, Waiting, pc>>
      BY <2>2, MovingWaits
    <3>2. QED
      BY <3>1 DEF Promise!vars, Waiting, InRun, Over
  <2>3. CASE CheckDue /\ ShouldRun
    BY <2>3, DueAnswers DEF Promise!Next
  <2>4. CASE \/ Onward \/ SelectSuites \/ EndRun \/ DebounceElapses \/ UNCHANGED vars
             \/ CheckDue /\ ~ShouldRun
    BY <2>4, RestStutters DEF Promise!Next
  <2>5. QED
    BY <2>1, <2>2, <2>3, <2>4 DEF Next, Loop, Onward, Stopped
<1>3. QED
  BY <1>1, <1>2, InitIInv, NextIInv, PTL DEF Spec, PromiseKept, Promise!Spec
==============================================================================
