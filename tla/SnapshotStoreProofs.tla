------------------------- MODULE SnapshotStoreProofs -------------------------
(***************************************************************************)
(* TLAPS proofs about SnapshotStore: for any number of processes, panes,   *)
(* texts, workers and any retention limits.                                *)
(***************************************************************************)
EXTENDS SnapshotStore, FiniteSetTheorems, TLAPS

(* Operators of the event store. *)

\* PruneSnapshots only deletes rows: every table it can leave is part of the
\* table it was given.
LEMMA PruneDeletes ==
  ASSUME NEW E, NEW keep, NEW now, NEW kept \in PruneSnapshots(E, keep, now)
  PROVE  kept \subseteq E
BY DEF PruneSnapshots, NewestByTs, DayFloor, Snapshots, Closes

(* Counting the links of a text. *)

\* A link that is new adds one to the count of its own text only.
LEMMA CountAdd ==
  ASSUME NEW L, IsFiniteSet(L), NEW l, l \notin L, NEW s
  PROVE  /\ IsFiniteSet(L \cup {l})
         /\ Cardinality(LinksTo(L, s)) \in Nat
         /\ Cardinality(LinksTo(L \cup {l}, s)) =
              IF l.sha = s THEN Cardinality(LinksTo(L, s)) + 1
                           ELSE Cardinality(LinksTo(L, s))
<1>1. IsFiniteSet(LinksTo(L, s))
  BY FS_Subset, LinksTo(L, s) \in SUBSET L DEF LinksTo
<1>2. Cardinality(LinksTo(L, s)) \in Nat
  BY <1>1, FS_CardinalityType
<1>3. CASE l.sha = s
  <2>1. LinksTo(L \cup {l}, s) = LinksTo(L, s) \cup {l}
    BY <1>3 DEF LinksTo
  <2>2. l \notin LinksTo(L, s)
    BY DEF LinksTo
  <2>3. Cardinality(LinksTo(L, s) \cup {l}) = Cardinality(LinksTo(L, s)) + 1
    BY <1>1, <2>2, FS_AddElement
  <2> QED
    BY <1>2, <1>3, <2>1, <2>3, FS_AddElement
<1>4. CASE l.sha # s
  <2>1. LinksTo(L \cup {l}, s) = LinksTo(L, s)
    BY <1>4 DEF LinksTo
  <2> QED
    BY <1>2, <1>4, <2>1, FS_AddElement
<1> QED
  BY <1>3, <1>4

\* Removing links takes off the count exactly the removed links of each text.
LEMMA CountRemove ==
  ASSUME NEW L, IsFiniteSet(L), NEW G \in SUBSET L, NEW s
  PROVE  /\ IsFiniteSet(L \ G)
         /\ Cardinality(LinksTo(G, s)) \in Nat
         /\ Cardinality(LinksTo(L \ G, s)) =
              Cardinality(LinksTo(L, s)) - Cardinality(LinksTo(G, s))
<1>1. IsFiniteSet(LinksTo(L, s)) /\ IsFiniteSet(LinksTo(G, s))
  <2>1. LinksTo(L, s) \in SUBSET L /\ LinksTo(G, s) \in SUBSET L
    BY DEF LinksTo
  <2> QED
    BY <2>1, FS_Subset
<1>2. LinksTo(L \ G, s) = LinksTo(L, s) \ LinksTo(G, s)
  BY DEF LinksTo
<1>3. LinksTo(L, s) \cap LinksTo(G, s) = LinksTo(G, s)
  BY DEF LinksTo
<1>4. Cardinality(LinksTo(L, s) \ LinksTo(G, s)) =
        Cardinality(LinksTo(L, s)) - Cardinality(LinksTo(G, s))
  BY <1>1, <1>3, FS_Difference
<1>5. Cardinality(LinksTo(G, s)) \in Nat
  BY <1>1, FS_CardinalityType
<1> QED
  BY <1>2, <1>4, <1>5, FS_Difference

\* A count of zero or less means no link.
LEMMA CountZero ==
  ASSUME NEW L, IsFiniteSet(L), NEW s, Cardinality(LinksTo(L, s)) <= 0
  PROVE  LinksTo(L, s) = {}
<1>1. IsFiniteSet(LinksTo(L, s))
  BY FS_Subset, LinksTo(L, s) \in SUBSET L DEF LinksTo
<1> QED
  BY <1>1, FS_CardinalityType, FS_EmptySet

\* A text just stored, with no links, starts its count at zero.
LEMMA CountEmpty ==
  ASSUME NEW L, NEW s, LinksTo(L, s) = {}
  PROVE  Cardinality(LinksTo(L, s)) = 0
BY FS_EmptySet

-----------------------------------------------------------------------------
(* A step of process w: its control state becomes next, its locals m. *)

Moves(w, next, m) == pc' = [pc EXCEPT ![w] = next] /\ mem' = [mem EXCEPT ![w] = m]

\* A process that does nothing has well-typed locals.
LEMMA NoMemType == NoMem \in MemType
BY DEF NoMem, MemType, JobState

\* While w runs, or starts, every other process is idle; it stays idle, and
\* whatever the tables become its part of the invariant holds.
LEMMA Frame ==
  ASSUME IInv, NEW w \in Proc, NEW next \in PC, NEW m \in MemType,
         Moves(w, next, m), lock \in {w, NoProc},
         lock' = w \/ (lock' = NoProc /\ next = "idle" /\ m = NoMem),
         links' \subseteq [event : Nat, pane : Pane, sha : Content]
  PROVE  /\ pc' \in [Proc -> PC] /\ mem' \in [Proc -> MemType]
         /\ lock' \in Proc \cup {NoProc}
         /\ pc'[w] = next /\ mem'[w] = m
         /\ \A q \in Proc : q # w => mem[q] = NoMem /\ mem'[q] = NoMem /\ pc[q] = "idle"
         /\ OnlyHolder'
         /\ \A q \in Proc : q # w => HolderInv(q)'
<1>1. pc \in [Proc -> PC] /\ mem \in [Proc -> MemType]
  BY DEF IInv, TypeOK
<1>2. /\ pc' \in [Proc -> PC] /\ mem' \in [Proc -> MemType]
      /\ pc'[w] = next /\ mem'[w] = m
      /\ \A q \in Proc : q # w => pc'[q] = pc[q] /\ mem'[q] = mem[q]
  BY <1>1 DEF Moves
<1>3. \A q \in Proc : q # w => pc[q] = "idle" /\ mem[q] = NoMem
  BY ConstAssumption DEF IInv, OnlyHolder
<1>4. \A q \in Proc : q # w => pc'[q] = "idle" /\ mem'[q] = NoMem
  BY <1>2, <1>3
<1>5. OnlyHolder'
  BY <1>2, <1>4 DEF OnlyHolder
<1>6. ASSUME NEW q \in Proc, q # w  PROVE HolderInv(q)'
  <2>1. pc'[q] = "idle" /\ mem'[q] = NoMem
    BY <1>4, <1>6
  <2>2. SaverInv(q)'
    BY <2>1 DEF SaverInv, NoMem
  <2>3. LinkerInv(q)'
    BY <2>1 DEF LinkerInv
  <2>4. LinksTo(links', NoSha) = {}
    BY ConstAssumption DEF LinksTo
  <2>5. CollectorInv(q)'
    BY <2>1, <2>4 DEF CollectorInv, NoMem
  <2> QED
    BY <2>2, <2>3, <2>5 DEF HolderInv
<1> QED
  BY <1>2, <1>3, <1>4, <1>5, <1>6

\* As long as no link and no manifest changes, and w leaves nothing unlinked
\* behind that it was about to link, complete snapshots stay linked.
LEMMA CompleteFrame ==
  ASSUME IInv, NEW w \in Proc, NEW next, NEW m \in MemType, Moves(w, next, m),
         \/ m.ev = mem[w].ev /\ m.todo = mem[w].todo
         \/ mem[w].todo = {}
         \/ mem[w].ev \in torn',
         \A e \in events' : e \in events, links' = links, torn \subseteq torn'
  PROVE  CompleteIsLinked'
<1>1. mem'[w] = m /\ \A q \in Proc : q # w => mem'[q] = mem[q]
  BY DEF Moves, IInv, TypeOK
<1> SUFFICES ASSUME NEW e \in events', NEW p \in Pane,
                    e.sha[p] # NoSha, e.id \notin torn',
                    [event |-> e.id, pane |-> p, sha |-> e.sha[p]] \notin links
             PROVE  \E q \in Proc : mem'[q].ev = e.id /\ p \in mem'[q].todo
  BY DEF CompleteIsLinked
<1>2. PICK q \in Proc : mem[q].ev = e.id /\ p \in mem[q].todo
  BY DEF IInv, CompleteIsLinked
<1>3. CASE q # w
  BY <1>1, <1>2, <1>3
<1>4. CASE q = w
  BY <1>1, <1>2, <1>4
<1> QED
  BY <1>3, <1>4

\* Everything but the holder's own part: a step that leaves the tables alone,
\* meta excepted.
LEMMA LocalStep ==
  ASSUME IInv, NEW w \in Proc, NEW next \in PC, NEW m \in MemType,
         Moves(w, next, m), lock \in {w, NoProc},
         lock' = w \/ (lock' = NoProc /\ next = "idle" /\ m = NoMem),
         \/ m.ev = mem[w].ev /\ m.todo = mem[w].todo
         \/ mem[w].todo = {}
         \/ mem[w].ev \in torn',
         torn \subseteq torn', torn' \in SUBSET Nat, stops' \in Nat,
         UNCHANGED <<env, events, links, rows, refcount, files, nextId>>,
         meta' \in MetaType, HolderInv(w)'
  PROVE  IInv'
<1>1. links' \subseteq [event : Nat, pane : Pane, sha : Content]
  BY DEF IInv, TypeOK
<1>2. /\ pc' \in [Proc -> PC] /\ mem' \in [Proc -> MemType]
      /\ lock' \in Proc \cup {NoProc} /\ OnlyHolder'
      /\ \A q \in Proc : q # w => HolderInv(q)'
  BY <1>1, Frame
<1>3. TypeOK'
  BY <1>2 DEF IInv, TypeOK, env
<1>4. TablesInv'
  BY DEF IInv, TablesInv, IdsInv, RefcountExact, LinkedIsReadable
<1>5. CompleteIsLinked'
  BY CompleteFrame
<1> QED
  BY <1>2, <1>3, <1>4, <1>5 DEF IInv

\* Facts about the process that takes a step, whatever the step.
LEMMA Holder ==
  ASSUME IInv, NEW w \in Proc
  PROVE  /\ mem \in [Proc -> MemType] /\ mem[w] \in MemType
         /\ pc \in [Proc -> PC]
         /\ pc[w] # "idle" => lock = w
         /\ lock = NoProc => mem[w] = NoMem
         /\ HolderInv(w)
BY ConstAssumption DEF IInv, TypeOK, OnlyHolder

-----------------------------------------------------------------------------
(* The environment and the steps that touch no table. *)

LEMMA EnvStep ==
  ASSUME IInv, Restructure \/ Churn \/ Tick
  PROVE  IInv'
<1>1. UNCHANGED <<store, lock, pc, mem, torn, stops>>
  BY DEF Restructure, Churn, Tick
<1>2. TypeOK'
  <2>1. live' \in SUBSET Pane /\ act' \in Act /\ clock' \in Nat /\ changes' \in Nat
    BY DEF Restructure, Churn, Tick, IInv, TypeOK
  <2> QED
    BY <1>1, <2>1 DEF IInv, TypeOK, store
<1>3. OnlyHolder' /\ \A w \in Proc : HolderInv(w)'
  BY <1>1 DEF IInv, OnlyHolder, HolderInv, SaverInv, LinkerInv, CollectorInv, store
<1>4. TablesInv' /\ CompleteIsLinked'
  BY <1>1 DEF IInv, TablesInv, IdsInv, RefcountExact, LinkedIsReadable,
              CompleteIsLinked, store
<1> QED
  BY <1>2, <1>3, <1>4 DEF IInv

LEMMA SaveStartStep ==
  ASSUME IInv, NEW w \in Proc, SaveStart(w)
  PROVE  IInv'
<1> DEFINE m == [NoMem EXCEPT !.savedAt = clock]
<1>1. Moves(w, "build", m) /\ m \in MemType
  <2>1. mem' = [mem EXCEPT ![w] = m]
    BY Holder DEF SaveStart, Begin
  <2>2. m \in MemType
    BY NoMemType DEF MemType, IInv, TypeOK
  <2> QED
    BY <2>1, <2>2 DEF SaveStart, Begin, Moves
<1>2. m.job = NoMem.job /\ m.sha = NoMem.sha /\ m.todo = {} /\ m.orphans = {} /\ m.victim = NoSha
  BY DEF NoMem
<1>3. pc'[w] = "build" /\ mem'[w] = m
  BY <1>1, Holder DEF Moves
<1>4. HolderInv(w)'
  <2>1. SaverInv(w)'
    BY <1>2, <1>3 DEF SaverInv, NoMem
  <2>2. LinkerInv(w)'
    BY <1>3 DEF LinkerInv, SaveStart, store
  <2>3. LinksTo(links', NoSha) = {}
    BY ConstAssumption DEF LinksTo, IInv, TypeOK, SaveStart, store
  <2>4. CollectorInv(w)'
    BY <1>2, <1>3, <2>3 DEF CollectorInv
  <2> QED
    BY <2>1, <2>2, <2>4 DEF HolderInv
<1>5. mem[w].todo = {}
  BY Holder DEF SaveStart, Begin, NoMem
<1> QED
  BY <1>1, <1>4, <1>5, LocalStep DEF SaveStart, Begin, IInv, TypeOK, PC, store

LEMMA PruneStartStep ==
  ASSUME IInv, NEW w \in Proc, PruneStart(w)
  PROVE  IInv'
<1>1. mem[w] = NoMem /\ Moves(w, "prune", NoMem)
  BY Holder DEF PruneStart, Begin, Moves
<1>2. pc'[w] = "prune" /\ mem'[w] = NoMem
  BY <1>1, Holder DEF Moves
<1>3. HolderInv(w)'
  <2>1. SaverInv(w)' /\ LinkerInv(w)'
    BY <1>2 DEF SaverInv, LinkerInv, NoMem
  <2>2. LinksTo(links', NoSha) = {}
    BY ConstAssumption DEF LinksTo, IInv, TypeOK, PruneStart, store
  <2> QED
    BY <1>2, <2>1, <2>2 DEF HolderInv, CollectorInv, NoMem
<1> QED
  BY <1>1, <1>3, NoMemType, LocalStep
  DEF PruneStart, Begin, IInv, TypeOK, PC, store

LEMMA GCStartStep ==
  ASSUME IInv, NEW w \in Proc, GCStart(w)
  PROVE  IInv'
<1> DEFINE zero == {s \in rows : refcount[s] <= 0}
           m == [NoMem EXCEPT !.orphans = zero]
<1>1. Moves(w, "gc", m) /\ m \in MemType
  <2>1. zero \in SUBSET Content
    BY DEF IInv, TypeOK
  <2>2. m \in MemType
    BY <2>1, NoMemType DEF MemType
  <2> QED
    BY <2>2, Holder DEF GCStart, Begin, Moves
<1>2. pc'[w] = "gc" /\ mem'[w] = m
  BY <1>1, Holder DEF Moves
<1>3. m.job = NoMem.job /\ m.sha = NoMem.sha /\ m.todo = {} /\ m.orphans = zero /\ m.victim = NoSha
  BY DEF NoMem
<1>4. \A s \in zero : LinksTo(links, s) = {}
  BY CountZero DEF IInv, TablesInv, IdsInv, RefcountExact
<1>5. HolderInv(w)'
  <2>1. SaverInv(w)' /\ LinkerInv(w)'
    BY <1>2, <1>3 DEF SaverInv, LinkerInv, NoMem
  <2>2. LinksTo(links, NoSha) = {} /\ links' = links
    BY ConstAssumption DEF LinksTo, IInv, TypeOK, GCStart, store
  <2> QED
    BY <1>2, <1>3, <1>4, <2>1, <2>2 DEF HolderInv, CollectorInv, NoMem
<1>6. mem[w].todo = {}
  BY Holder DEF GCStart, Begin, NoMem
<1> QED
  BY <1>1, <1>5, <1>6, LocalStep DEF GCStart, Begin, IInv, TypeOK, PC, store

\* Steps that change the control state only.
LEMMA GotoStep ==
  ASSUME IInv, NEW w \in Proc, SaveSkip(w) \/ Linked(w)
  PROVE  IInv'
<1>1. PICK next \in {"prune", "metaFP"} :
        /\ Goto(w, next) /\ mem' = mem /\ pc[w] \in {"build", "link"}
        /\ next = "metaFP" => pc[w] = "link" /\ mem[w].todo = {}
        /\ IF pc[w] = "build" THEN next = "prune" ELSE next = "metaFP"
        /\ UNCHANGED <<env, store, torn, stops>>
  BY DEF SaveSkip, Linked
<1>2. Moves(w, next, mem[w])
  BY <1>1, Holder DEF Goto, Moves
<1>3. pc'[w] = next /\ mem'[w] = mem[w]
  BY <1>2, Holder DEF Moves
<1>4. SaverInv(w)'
  <2>1. CASE pc[w] = "build"
    BY <1>1, <1>3, <2>1, Holder DEF HolderInv, SaverInv, store
  <2>2. CASE pc[w] = "link"
    BY <1>1, <1>3, <2>2, Holder DEF HolderInv, SaverInv, store
  <2> QED
    BY <1>1, <2>1, <2>2
<1>5. LinkerInv(w)'
  BY <1>1, <1>3, Holder DEF HolderInv, LinkerInv, store
<1>6. CollectorInv(w)'
  BY <1>1, <1>3, Holder DEF HolderInv, CollectorInv, store
<1> QED
  BY <1>1, <1>2, <1>4, <1>5, <1>6, Holder, LocalStep
  DEF Goto, HolderInv, IInv, TypeOK, PC, store

LEMMA SaveBuildStep ==
  ASSUME IInv, NEW w \in Proc, SaveBuild(w)
  PROVE  IInv'
<1> DEFINE capture == CaptureScrollback /\ ~Throttled
           next == IF capture THEN "capture" ELSE "insert"
           job == [p \in Pane |-> IF capture /\ p \in live THEN "queued" ELSE "none"]
           b == CaptureScrollback /\ Throttled
           m == [mem[w] EXCEPT !.fp = <<live, act>>, !.skipped = b, !.job = job]
<1>1. /\ next \in {"capture", "insert"}
      /\ job \in [Pane -> {"none", "queued"}] /\ b \in BOOLEAN
      /\ next = "insert" => \A p \in Pane : job[p] = "none"
  BY ConstAssumption
<1>8. Goto(w, next) /\ mem' = [mem EXCEPT ![w] = m]
  BY Holder DEF SaveBuild, Fingerprint
<1> HIDE DEF next, job, b
<1>2. m \in MemType
  <2>1. <<live, act>> \in {<<>>} \cup ((SUBSET Pane) \X Act)
    BY DEF IInv, TypeOK
  <2>2. job \in [Pane -> JobState] /\ b \in BOOLEAN
    BY <1>1 DEF JobState
  <2>3. mem[w] \in MemType
    BY Holder
  <2> QED
    BY <2>1, <2>2, <2>3 DEF MemType
<1>3. /\ m.fp = <<live, act>> /\ m.job = job /\ m.sha = mem[w].sha /\ m.ev = mem[w].ev
      /\ m.todo = mem[w].todo /\ m.orphans = mem[w].orphans /\ m.victim = mem[w].victim
  BY Holder DEF MemType
<1>4. Moves(w, next, m)
  BY <1>8 DEF Goto, Moves
<1>5. pc'[w] = next /\ mem'[w] = m
  BY <1>4, Holder DEF Moves
<1>6. HolderInv(w)'
  <2>1. pc[w] = "build" /\ UNCHANGED store
    BY DEF SaveBuild
  <2>2. \A p \in Pane : mem[w].sha[p] = NoSha
    BY <2>1, Holder DEF HolderInv, SaverInv
  <2>3. SaverInv(w)'
    BY <1>1, <1>3, <1>5, <2>1, <2>2, Holder DEF HolderInv, SaverInv, IInv, TypeOK
  <2>4. LinkerInv(w)' /\ CollectorInv(w)'
    BY <1>1, <1>3, <1>5, <2>1, Holder DEF HolderInv, LinkerInv, CollectorInv, store
  <2> QED
    BY <2>3, <2>4 DEF HolderInv
<1>7. /\ lock = w /\ lock' = w /\ next \in PC
      /\ torn' = torn /\ torn \in SUBSET Nat /\ stops' \in Nat
      /\ UNCHANGED <<env, store>> /\ meta' \in MetaType
  BY <1>1, <1>8, Holder DEF SaveBuild, Goto, IInv, TypeOK, PC, store
<1> HIDE DEF m
<1> QED
  BY <1>2, <1>3, <1>4, <1>6, <1>7, LocalStep DEF store

\* Steps of one worker that touch no table: they change one entry of job, to j,
\* and of sha, to s.
LEMMA WorkerStep ==
  ASSUME IInv, NEW w \in Proc, NEW p \in Pane,
         CapturePane(w, p) \/ CapturePaneFails(w, p) \/ WorkerFails(w, p)
  PROVE  IInv'
<1>1. PICK j \in {"captured", "none", "failed"}, s \in Content \cup {NoSha} :
        /\ mem' = [mem EXCEPT ![w] = [mem[w] EXCEPT !.job[p] = j, !.sha[p] = s]]
        /\ j = "captured" => s \in Content
        /\ j = "none" => s = NoSha
  <2>1. CASE CapturePane(w, p)
    <3>1. PICK text \in Content :
            mem' = [mem EXCEPT ![w].job[p] = "captured", ![w].sha[p] = text]
      BY <2>1 DEF CapturePane
    <3>2. mem' = [mem EXCEPT ![w] = [mem[w] EXCEPT !.job[p] = "captured", !.sha[p] = text]]
      BY <3>1, Holder
    <3> QED
      BY <3>2
  <2>2. ASSUME NEW j \in {"none", "failed"}, mem' = [mem EXCEPT ![w].job[p] = j]
        PROVE  /\ mem' = [mem EXCEPT ![w] = [mem[w] EXCEPT !.job[p] = j, !.sha[p] = mem[w].sha[p]]]
               /\ mem[w].sha[p] \in Content \cup {NoSha}
    <3> DEFINE m0 == [mem[w] EXCEPT !.job[p] = j]
    <3>1. mem' = [mem EXCEPT ![w] = m0]
      BY <2>2, Holder
    <3>2. mem[w].sha \in [Pane -> Content \cup {NoSha}] /\ m0.sha = mem[w].sha
      BY Holder DEF MemType
    <3>3. m0 = [mem[w] EXCEPT !.job[p] = j, !.sha = mem[w].sha]
      BY Holder DEF MemType
    <3>4. [mem[w].sha EXCEPT ![p] = mem[w].sha[p]] = mem[w].sha
      BY <3>2
    <3> QED
      BY <3>1, <3>2, <3>3, <3>4
  <2>3. CASE CapturePaneFails(w, p)
    <3>1. mem[w].sha[p] = NoSha
      BY <2>3, Holder DEF CapturePaneFails, HolderInv, SaverInv
    <3> QED
      BY <2>2, <2>3, <3>1 DEF CapturePaneFails
  <2>4. CASE WorkerFails(w, p)
    BY <2>2, <2>4 DEF WorkerFails
  <2> QED
    BY <2>1, <2>3, <2>4
<1> DEFINE m == [mem[w] EXCEPT !.job[p] = j, !.sha[p] = s]
<1>2. m \in MemType
  <2>1. [mem[w].job EXCEPT ![p] = j] \in [Pane -> JobState]
    BY Holder DEF MemType, JobState
  <2>2. [mem[w].sha EXCEPT ![p] = s] \in [Pane -> Content \cup {NoSha}]
    BY Holder DEF MemType
  <2>3. mem[w] \in MemType
    BY Holder
  <2> QED
    BY <2>1, <2>2, <2>3 DEF MemType
<1>3. /\ m.job = [mem[w].job EXCEPT ![p] = j] /\ m.sha = [mem[w].sha EXCEPT ![p] = s]
      /\ m.fp = mem[w].fp /\ m.ev = mem[w].ev /\ m.todo = mem[w].todo
      /\ m.orphans = mem[w].orphans /\ m.victim = mem[w].victim
  BY Holder DEF MemType
<1>4. /\ pc[w] = "capture" /\ mem[w].job[p] \in {"queued", "captured", "stored"}
      /\ UNCHANGED <<env, store, lock, pc, torn>> /\ stops' \in Nat
  BY DEF CapturePane, CapturePaneFails, WorkerFails, Busy, IInv, TypeOK
<1>5. Moves(w, "capture", m) /\ pc'[w] = "capture" /\ mem'[w] = m
  BY <1>1, <1>4, Holder DEF Moves
<1>6. HolderInv(w)'
  <2>1. SaverInv(w)'
    <3>1. /\ mem[w].job \in [Pane -> JobState]
          /\ mem[w].sha \in [Pane -> Content \cup {NoSha}]
      BY Holder DEF MemType
    <3>2. \A q \in Pane : /\ m.job[q] = IF q = p THEN j ELSE mem[w].job[q]
                          /\ m.sha[q] = IF q = p THEN s ELSE mem[w].sha[q]
      BY <1>3, <3>1
    <3> QED
      BY <1>1, <1>3, <1>4, <1>5, <3>2, Holder DEF HolderInv, SaverInv, store
  <2>2. LinkerInv(w)' /\ CollectorInv(w)'
    BY <1>3, <1>4, <1>5, Holder DEF HolderInv, LinkerInv, CollectorInv, store
  <2> QED
    BY <2>1, <2>2 DEF HolderInv
<1> HIDE DEF m
<1> QED
  BY <1>2, <1>3, <1>4, <1>5, <1>6, Holder, LocalStep DEF IInv, TypeOK, PC, store

\* A process that ends with nothing left to link, whatever it did before.
LEMMA EndStep ==
  ASSUME IInv, NEW w \in Proc, pc[w] # "idle",
         lock' = NoProc, Moves(w, "idle", NoMem),
         mem[w].todo = {} \/ mem[w].ev \in torn',
         UNCHANGED <<env, store>>,
         torn \subseteq torn', torn' \in SUBSET Nat, stops' \in Nat
  PROVE  IInv'
<1>1. pc'[w] = "idle" /\ mem'[w] = NoMem
  BY Holder DEF Moves
<1>2. SaverInv(w)' /\ LinkerInv(w)'
  BY <1>1 DEF SaverInv, LinkerInv, NoMem
<1>3. LinksTo(links', NoSha) = {}
  BY ConstAssumption DEF LinksTo, IInv, TypeOK, store
<1>4. HolderInv(w)'
  BY <1>1, <1>2, <1>3 DEF HolderInv, CollectorInv, NoMem
<1>5. lock = w
  BY Holder
<1> QED
  BY <1>4, <1>5, NoMemType, LocalStep DEF IInv, TypeOK, PC, store

LEMMA GCEndStep ==
  ASSUME IInv, NEW w \in Proc, GCEnd(w)
  PROVE  IInv'
<1>1. mem[w].todo = {}
  BY Holder DEF GCEnd, HolderInv, SaverInv, MemType
<1> QED
  BY <1>1, EndStep DEF GCEnd, Finish, Moves, IInv, TypeOK

\* A save that dies between its insert and its last SetMeta leaves a torn
\* snapshot; every other process that dies leaves nothing unlinked.
LEMMA StopStep ==
  ASSUME IInv, NEW w \in Proc, Stop(w)
  PROVE  IInv'
<1>1. mem[w].ev \in Nat /\ stops' \in Nat
  BY Holder DEF MemType, Stop, IInv, TypeOK
<1>2. torn \subseteq torn' /\ torn' \in SUBSET Nat
  BY <1>1 DEF Stop, IInv, TypeOK
<1>3. mem[w].todo = {} \/ mem[w].ev \in torn'
  <2>1. CASE pc[w] = "link"
    BY <2>1 DEF Stop
  <2>2. CASE pc[w] # "link"
    BY <2>2, Holder DEF HolderInv, SaverInv, MemType
  <2> QED
    BY <2>1, <2>2
<1> QED
  BY <1>1, <1>2, <1>3, EndStep DEF Stop, Finish, Moves

LEMMA CapturedStep ==
  ASSUME IInv, NEW w \in Proc, Captured(w)
  PROVE  IInv'
<1>1. mem[w].todo = {}
  BY Holder DEF Captured, HolderInv, SaverInv, MemType
<1>2. CASE \E p \in Pane : mem[w].job[p] = "failed"
  BY <1>1, <1>2, EndStep DEF Captured, Finish, Moves, IInv, TypeOK
<1>3. CASE ~\E p \in Pane : mem[w].job[p] = "failed"
  <2>1. /\ Moves(w, "insert", mem[w]) /\ pc[w] = "capture" /\ lock' = lock
        /\ UNCHANGED <<env, store, torn, stops>>
    BY <1>3, Holder DEF Captured, Goto, Moves
  <2>2. pc'[w] = "insert" /\ mem'[w] = mem[w]
    BY <2>1, Holder DEF Moves
  <2>3. \A p \in Pane : mem[w].job[p] \in {"none", "done"}
    BY <1>3 DEF Captured
  <2>4. SaverInv(w)'
    BY <2>1, <2>2, <2>3, Holder DEF HolderInv, SaverInv, store
  <2>5. LinkerInv(w)' /\ CollectorInv(w)'
    BY <2>1, <2>2, Holder DEF HolderInv, LinkerInv, CollectorInv, store
  <2> QED
    BY <2>1, <2>4, <2>5, Holder, LocalStep DEF HolderInv, IInv, TypeOK, PC, store
<1> QED
  BY <1>2, <1>3

LEMMA SetMetaStep ==
  ASSUME IInv, NEW w \in Proc, SetMeta(w)
  PROVE  IInv'
<1>1. PICK next \in {"metaStruct", "metaTS", "prune"} : Goto(w, next)
  BY DEF SetMeta
<1>2. /\ pc[w] \in {"metaFP", "metaStruct", "metaTS"} /\ lock' = w /\ lock = w
      /\ UNCHANGED <<env, events, links, rows, refcount, files, nextId, mem, torn, stops>>
  BY Holder, <1>1 DEF SetMeta, Goto
<1>3. Moves(w, next, mem[w]) /\ pc'[w] = next /\ mem'[w] = mem[w]
  BY <1>1, <1>2, Holder DEF Moves, Goto
<1>4. mem[w].fp \in (SUBSET Pane) \X Act /\ mem[w].savedAt \in Nat
  BY <1>2, Holder DEF HolderInv, SaverInv, MemType
<1>5. meta' \in MetaType
  <2>1. meta \in MetaType /\ <<mem[w].fp[1]>> \in {<<l>> : l \in SUBSET Pane}
    BY <1>4 DEF IInv, TypeOK
  <2> QED
    BY <1>4, <2>1 DEF SetMeta, MetaType
<1>6. SaverInv(w)'
  BY <1>2, <1>3, <1>4, Holder DEF HolderInv, SaverInv
<1>7. LinkerInv(w)' /\ CollectorInv(w)'
  BY <1>2, <1>3, Holder DEF HolderInv, LinkerInv, CollectorInv
<1> QED
  BY <1>2, <1>3, <1>5, <1>6, <1>7, Holder, LocalStep DEF HolderInv, IInv, TypeOK, PC

-----------------------------------------------------------------------------
(* The steps that write the tables and the files. *)

\* Locals in which one pane's job is replaced.
LEMMA JobChange ==
  ASSUME NEW o \in MemType, NEW p \in Pane, NEW j \in JobState,
         NEW m, m = [o EXCEPT !.job[p] = j]
  PROVE  /\ m \in MemType
         /\ \A q \in Pane : m.job[q] = IF q = p THEN j ELSE o.job[q]
         /\ m.fp = o.fp /\ m.sha = o.sha /\ m.ev = o.ev /\ m.todo = o.todo
         /\ m.orphans = o.orphans /\ m.victim = o.victim
<1>1. o.job \in [Pane -> JobState]
  BY DEF MemType
<1>2. [o.job EXCEPT ![p] = j] \in [Pane -> JobState] /\ m = [o EXCEPT !.job = [o.job EXCEPT ![p] = j]]
  BY <1>1
<1> QED
  BY <1>1, <1>2 DEF MemType

LEMMA PutStep ==
  ASSUME IInv, NEW w \in Proc, NEW p \in Pane, Put(w, p)
  PROVE  IInv'
<1> DEFINE m == [mem[w] EXCEPT !.job[p] = "stored"]
<1>1. /\ pc[w] = "capture" /\ mem[w].job[p] = "captured" /\ lock = w
      /\ UNCHANGED <<env, events, links, rows, refcount, meta, nextId, lock, pc, torn, stops>>
      /\ files' = files \cup {mem[w].sha[p]}
  BY Holder DEF Put
<1>2. Moves(w, "capture", m)
  BY <1>1, Holder DEF Put, Moves
<1>3. /\ m \in MemType
      /\ \A q \in Pane : m.job[q] = IF q = p THEN "stored" ELSE mem[w].job[q]
      /\ m.fp = mem[w].fp /\ m.sha = mem[w].sha /\ m.ev = mem[w].ev /\ m.todo = mem[w].todo
      /\ m.orphans = mem[w].orphans /\ m.victim = mem[w].victim
  BY Holder, JobChange, "stored" \in JobState DEF JobState
<1> HIDE DEF m
<1>4. /\ pc' \in [Proc -> PC] /\ mem' \in [Proc -> MemType]
      /\ pc'[w] = "capture" /\ mem'[w] = m
      /\ OnlyHolder' /\ \A q \in Proc : q # w => HolderInv(q)'
  BY <1>1, <1>2, <1>3, Frame DEF IInv, TypeOK, PC
<1>5. mem[w].sha[p] \in Content
  BY <1>1, Holder DEF HolderInv, SaverInv
<1>6. SaverInv(w)'
  BY <1>1, <1>3, <1>4, Holder DEF HolderInv, SaverInv
<1>7. LinkerInv(w)' /\ CollectorInv(w)'
  BY <1>1, <1>3, <1>4, Holder DEF HolderInv, LinkerInv, CollectorInv
<1>8. TypeOK'
  BY <1>1, <1>4, <1>5 DEF IInv, TypeOK, env
<1>9. TablesInv'
  BY <1>1 DEF IInv, TablesInv, IdsInv, RefcountExact, LinkedIsReadable
<1>10. CompleteIsLinked'
  BY <1>1, <1>2, <1>3, CompleteFrame
<1> QED
  BY <1>4, <1>6, <1>7, <1>8, <1>9, <1>10 DEF IInv, HolderInv

LEMMA UpsertScrollbackStep ==
  ASSUME IInv, NEW w \in Proc, NEW p \in Pane, UpsertScrollback(w, p)
  PROVE  IInv'
<1> DEFINE m == [mem[w] EXCEPT !.job[p] = "done"]
           s == mem[w].sha[p]
<1>1. /\ pc[w] = "capture" /\ mem[w].job[p] = "stored" /\ lock = w
      /\ UNCHANGED <<env, events, links, meta, files, nextId, lock, pc, torn, stops>>
      /\ rows' = rows \cup {s}
      /\ refcount' = IF s \in rows THEN refcount ELSE [refcount EXCEPT ![s] = 0]
  BY Holder DEF UpsertScrollback
<1>2. Moves(w, "capture", m)
  BY <1>1, Holder DEF UpsertScrollback, Moves
<1>3. /\ m \in MemType
      /\ \A q \in Pane : m.job[q] = IF q = p THEN "done" ELSE mem[w].job[q]
      /\ m.fp = mem[w].fp /\ m.sha = mem[w].sha /\ m.ev = mem[w].ev /\ m.todo = mem[w].todo
      /\ m.orphans = mem[w].orphans /\ m.victim = mem[w].victim
  BY Holder, JobChange, "done" \in JobState DEF JobState
<1>4. s \in Content /\ s \in files
  BY <1>1, Holder DEF HolderInv, SaverInv
<1> HIDE DEF m
<1>5. /\ pc' \in [Proc -> PC] /\ mem' \in [Proc -> MemType]
      /\ pc'[w] = "capture" /\ mem'[w] = m
      /\ OnlyHolder' /\ \A q \in Proc : q # w => HolderInv(q)'
  BY <1>1, <1>2, <1>3, Frame DEF IInv, TypeOK, PC
<1>6. SaverInv(w)'
  BY <1>1, <1>3, <1>5, Holder DEF HolderInv, SaverInv
<1>7. LinkerInv(w)' /\ CollectorInv(w)'
  BY <1>1, <1>3, <1>5, Holder DEF HolderInv, LinkerInv, CollectorInv
<1> HIDE DEF s
<1>8. refcount' \in [Content -> Int]
  BY <1>1, <1>4 DEF IInv, TypeOK
<1>9. TypeOK'
  BY <1>1, <1>4, <1>5, <1>8 DEF IInv, TypeOK, env
<1>10. RefcountExact'
  <2>1. CASE s \in rows
    BY <1>1, <2>1 DEF IInv, TablesInv, RefcountExact
  <2>2. CASE s \notin rows
    <3>1. LinksTo(links, s) = {}
      BY <2>2 DEF LinksTo, IInv, TablesInv, LinkedIsReadable
    <3>2. Cardinality(LinksTo(links, s)) = 0
      BY <3>1, CountEmpty
    <3>3. /\ refcount'[s] = 0
          /\ \A t \in rows : refcount'[t] = refcount[t]
      BY <1>1, <1>4, <2>2 DEF IInv, TypeOK
    <3> QED
      BY <1>1, <3>2, <3>3 DEF IInv, TablesInv, RefcountExact
  <2> QED
    BY <2>1, <2>2
<1>11. TablesInv'
  BY <1>1, <1>10 DEF IInv, TablesInv, IdsInv, LinkedIsReadable
<1>12. CompleteIsLinked'
  BY <1>1, <1>2, <1>3, CompleteFrame
<1> QED
  BY <1>5, <1>6, <1>7, <1>9, <1>11, <1>12 DEF IInv, HolderInv

LEMMA InsertEventStep ==
  ASSUME IInv, NEW w \in Proc, InsertEvent(w)
  PROVE  IInv'
<1> DEFINE todo == {p \in Pane : mem[w].sha[p] # NoSha}
           m == [mem[w] EXCEPT !.ev = nextId, !.todo = todo]
           row == [id |-> nextId, ts |-> mem[w].savedAt, kind |-> "snapshot",
                   fp |-> mem[w].fp, skipped |-> mem[w].skipped, sha |-> mem[w].sha]
<1>1. /\ pc[w] = "insert" /\ lock = w /\ lock' = w
      /\ UNCHANGED <<env, links, rows, refcount, meta, files, torn, stops>>
      /\ events' = events \cup {row} /\ nextId' = nextId + 1
  BY Holder DEF InsertEvent, Goto
<1>2. Moves(w, "link", m)
  BY Holder DEF InsertEvent, Goto, Moves
<1>3. mem[w] \in MemType /\ nextId \in Nat /\ todo \in SUBSET Pane
  BY Holder DEF IInv, TypeOK
<1>4. m \in MemType
  BY <1>3 DEF MemType
<1>5. /\ m.job = mem[w].job /\ m.fp = mem[w].fp /\ m.sha = mem[w].sha
      /\ m.ev = nextId /\ m.todo = todo
      /\ m.orphans = mem[w].orphans /\ m.victim = mem[w].victim
  BY <1>3 DEF MemType
<1> HIDE DEF m
<1>6. /\ pc' \in [Proc -> PC] /\ mem' \in [Proc -> MemType]
      /\ pc'[w] = "link" /\ mem'[w] = m /\ lock' \in Proc \cup {NoProc}
      /\ \A q \in Proc : q # w => mem[q] = NoMem /\ mem'[q] = NoMem
      /\ OnlyHolder' /\ \A q \in Proc : q # w => HolderInv(q)'
  BY <1>1, <1>2, <1>4, Frame DEF IInv, TypeOK, PC
<1>7. \A p \in Pane : p \in todo => mem[w].job[p] = "done"
  BY <1>1, Holder DEF HolderInv, SaverInv
<1>8. SaverInv(w)'
  BY <1>1, <1>5, <1>6, <1>7, Holder DEF HolderInv, SaverInv
<1>9. LinkerInv(w)'
  <2>1. nextId <= MaxId /\ MaxId \in Nat /\ nextId > 0
    BY <1>1, Holder, ConstAssumption DEF HolderInv, LinkerInv, IInv, TablesInv, IdsInv
  <2>2. \A l \in links : l.event # nextId
    BY <1>3 DEF IInv, TablesInv, IdsInv, TypeOK
  <2>3. \A e \in events' : e.id = nextId => e.sha = mem[w].sha
    BY <1>1, <1>3 DEF IInv, TablesInv, IdsInv, TypeOK, EventRow
  <2> QED
    BY <1>1, <1>3, <1>5, <1>6, <2>1, <2>2, <2>3 DEF LinkerInv
<1>10. CollectorInv(w)'
  BY <1>1, <1>5, <1>6, Holder DEF HolderInv, CollectorInv
<1>11. TypeOK'
  <2>1. row \in EventRow
    BY <1>1, <1>3, Holder DEF EventRow, MemType, HolderInv, SaverInv
  <2> QED
    BY <1>1, <1>3, <1>6, <2>1 DEF IInv, TypeOK, env
<1>12. TablesInv'
  <2>1. \A e, f \in events' : e.id = f.id => e = f
    BY <1>1, <1>3 DEF IInv, TablesInv, IdsInv, TypeOK, EventRow
  <2>4. IsFiniteSet(events')
    BY <1>1, FS_AddElement DEF IInv, TablesInv, IdsInv
  <2>2. \A e \in events' : e.id < nextId'
    BY <1>1, <1>3 DEF IInv, TablesInv, IdsInv, TypeOK, EventRow
  <2>3. \A l \in links' : l.event < nextId'
    BY <1>1, <1>3 DEF IInv, TablesInv, IdsInv, TypeOK
  <2> QED
    BY <1>1, <1>3, <2>1, <2>2, <2>3, <2>4
    DEF IInv, TablesInv, IdsInv, RefcountExact, LinkedIsReadable
<1>13. CompleteIsLinked'
  <2>1. mem[w].todo = {}
    BY <1>1, <1>3, Holder DEF HolderInv, SaverInv, MemType
  <2> SUFFICES ASSUME NEW e \in events', NEW p \in Pane, e.sha[p] # NoSha,
                      e.id \notin torn',
                      [event |-> e.id, pane |-> p, sha |-> e.sha[p]] \notin links'
               PROVE  mem'[w].ev = e.id /\ p \in mem'[w].todo
    BY DEF CompleteIsLinked
  <2>2. CASE e = row
    BY <1>5, <1>6, <2>2
  <2>3. CASE e \in events
    <3>1. PICK q \in Proc : mem[q].ev = e.id /\ p \in mem[q].todo
      BY <1>1, <2>3 DEF IInv, CompleteIsLinked
    <3>2. q = w
      BY <1>6, <3>1 DEF NoMem
    <3> QED
      BY <2>1, <3>1, <3>2
  <2> QED
    BY <1>1, <2>2, <2>3
<1> QED
  BY <1>6, <1>8, <1>9, <1>10, <1>11, <1>12, <1>13 DEF IInv, HolderInv

LEMMA LinkEventScrollbackStep ==
  ASSUME IInv, NEW w \in Proc, NEW p \in Pane, LinkEventScrollback(w, p)
  PROVE  IInv'
<1> DEFINE s == mem[w].sha[p]
           l == [event |-> mem[w].ev, pane |-> p, sha |-> s]
           m == [mem[w] EXCEPT !.todo = mem[w].todo \ {p}]
<1>1. /\ pc[w] = "link" /\ p \in mem[w].todo /\ lock = w /\ lock' = w /\ s \in rows
      /\ UNCHANGED <<env, events, rows, meta, files, nextId, torn, stops>>
      /\ links' = links \cup {l}
      /\ refcount' = [refcount EXCEPT ![s] = refcount[s] + 1]
  BY Holder DEF LinkEventScrollback
<1>2. Moves(w, "link", m)
  BY <1>1, Holder DEF LinkEventScrollback, Moves
<1>3. mem[w] \in MemType
  BY Holder
<1>4. m \in MemType
  BY <1>3 DEF MemType
<1>5. /\ m.job = mem[w].job /\ m.fp = mem[w].fp /\ m.sha = mem[w].sha
      /\ m.ev = mem[w].ev /\ m.todo = mem[w].todo \ {p}
      /\ m.orphans = mem[w].orphans /\ m.victim = mem[w].victim
  BY <1>3 DEF MemType
<1> HIDE DEF m
<1>6. /\ mem[w].job[p] = "done" /\ s \in Content /\ s \in files
      /\ mem[w].ev + 1 = nextId /\ mem[w].ev \in Nat
      /\ \A k \in links : k.event = mem[w].ev => k.pane \notin mem[w].todo
      /\ mem[w].orphans = {} /\ mem[w].victim = NoSha
  BY <1>1, <1>3, Holder DEF HolderInv, SaverInv, LinkerInv, CollectorInv, MemType
<1>7. links' \subseteq [event : Nat, pane : Pane, sha : Content]
  BY <1>1, <1>6 DEF IInv, TypeOK
<1>8. /\ pc' \in [Proc -> PC] /\ mem' \in [Proc -> MemType]
      /\ pc'[w] = "link" /\ mem'[w] = m /\ lock' \in Proc \cup {NoProc}
      /\ OnlyHolder' /\ \A q \in Proc : q # w => mem'[q] = mem[q] /\ HolderInv(q)'
  BY <1>1, <1>2, <1>4, <1>7, Frame DEF PC
<1>9. SaverInv(w)'
  BY <1>1, <1>5, <1>8, Holder DEF HolderInv, SaverInv
<1>10. LinkerInv(w)'
  BY <1>1, <1>5, <1>6, <1>8, Holder DEF HolderInv, LinkerInv
<1>11. CollectorInv(w)'
  <2>1. LinksTo(links', NoSha) = {}
    BY <1>7, ConstAssumption DEF LinksTo
  <2> QED
    BY <1>5, <1>6, <1>8, <2>1 DEF CollectorInv
<1>12. l \notin links
  BY <1>1, <1>6
<1> HIDE DEF s
<1>13. refcount \in [Content -> Int] /\ refcount' \in [Content -> Int]
  BY <1>1, <1>6 DEF IInv, TypeOK
<1>14. TypeOK'
  BY <1>1, <1>7, <1>8, <1>13 DEF IInv, TypeOK, env
<1>15. RefcountExact'
  <2> SUFFICES ASSUME NEW t \in rows PROVE refcount'[t] = Cardinality(LinksTo(links', t))
    BY <1>1 DEF RefcountExact
  <2>1. IsFiniteSet(links) /\ refcount[t] = Cardinality(LinksTo(links, t)) /\ t \in Content
    BY DEF IInv, TypeOK, TablesInv, IdsInv, RefcountExact
  <2>2. Cardinality(LinksTo(links \cup {l}, t)) =
          IF s = t THEN Cardinality(LinksTo(links, t)) + 1 ELSE Cardinality(LinksTo(links, t))
    BY <1>12, <2>1, CountAdd
  <2>3. refcount'[t] = IF s = t THEN refcount[t] + 1 ELSE refcount[t]
    BY <1>1, <1>13, <2>1
  <2> QED
    BY <1>1, <2>1, <2>2, <2>3
<1>16. IdsInv'
  <2>1. IsFiniteSet(links')
    BY <1>1, <1>12, CountAdd DEF IInv, TablesInv, IdsInv
  <2>2. \A k \in links' : k.event < nextId'
    BY <1>1, <1>6 DEF IInv, TypeOK, TablesInv, IdsInv
  <2> QED
    BY <1>1, <2>1, <2>2 DEF IInv, TablesInv, IdsInv
<1>17. TablesInv'
  BY <1>1, <1>6, <1>15, <1>16 DEF IInv, TablesInv, LinkedIsReadable, s
<1>18. CompleteIsLinked'
  <2> SUFFICES ASSUME NEW e \in events, NEW q \in Pane, e.sha[q] # NoSha, e.id \notin torn
               PROVE  \/ \E v \in Proc : mem'[v].ev = e.id /\ q \in mem'[v].todo
                      \/ [event |-> e.id, pane |-> q, sha |-> e.sha[q]] \in links'
    BY <1>1 DEF CompleteIsLinked
  <2>1. CASE [event |-> e.id, pane |-> q, sha |-> e.sha[q]] \in links
    BY <1>1, <2>1
  <2>2. ASSUME NEW v \in Proc, mem[v].ev = e.id, q \in mem[v].todo
        PROVE  \/ mem'[v].ev = e.id /\ q \in mem'[v].todo
               \/ [event |-> e.id, pane |-> q, sha |-> e.sha[q]] \in links'
    <3>1. CASE v # w
      BY <1>8, <2>2, <3>1
    <3>2. CASE v = w /\ q # p
      BY <1>5, <1>8, <2>2, <3>2
    <3>3. CASE v = w /\ q = p
      <4>1. e.sha = mem[w].sha
        BY <1>1, <2>2, <3>3, Holder DEF HolderInv, LinkerInv
      <4> QED
        BY <1>1, <2>2, <3>3, <4>1 DEF s
    <3> QED
      BY <3>1, <3>2, <3>3
  <2> QED
    BY <2>1, <2>2 DEF IInv, CompleteIsLinked
<1> QED
  BY <1>8, <1>9, <1>10, <1>11, <1>14, <1>17, <1>18 DEF IInv, HolderInv

\* A process that ends its command: what holds for the locals of w afterwards,
\* whatever the tables become.
LEMMA IdleHolder ==
  ASSUME IInv, NEW w \in Proc, pc'[w] = "idle", mem'[w] = NoMem,
         links' \subseteq [event : Nat, pane : Pane, sha : Content]
  PROVE  HolderInv(w)'
<1>1. SaverInv(w)' /\ LinkerInv(w)'
  BY DEF SaverInv, LinkerInv, NoMem
<1>2. LinksTo(links', NoSha) = {}
  BY ConstAssumption DEF LinksTo
<1> QED
  BY <1>1, <1>2 DEF HolderInv, CollectorInv, NoMem

LEMMA PruneStep ==
  ASSUME IInv, NEW w \in Proc, Prune(w)
  PROVE  IInv'
<1>1. PICK kept \in PruneSnapshots(events, Keep, clock) : DeleteEvents(events \ kept)
  BY DEF Prune
<1> DEFINE E == events \ kept
           gone == {l \in links : l.event \in Ids(E)}
<1>2. kept \subseteq events
  BY PruneDeletes
<1>3. /\ pc[w] = "prune" /\ lock = w /\ lock' = NoProc /\ Moves(w, "idle", NoMem)
      /\ UNCHANGED <<env, rows, meta, files, nextId, torn, stops>>
      /\ events' = kept /\ links' = links \ gone
      /\ refcount' = [s \in Content |->
            IF s \in rows THEN refcount[s] - Cardinality(LinksTo(gone, s)) ELSE refcount[s]]
  BY <1>1, <1>2, Holder DEF Prune, Finish, Moves, DeleteEvents
<1>4. gone \in SUBSET links /\ IsFiniteSet(links)
  BY DEF IInv, TablesInv, IdsInv
<1>5. links' \subseteq [event : Nat, pane : Pane, sha : Content]
  BY <1>3 DEF IInv, TypeOK
<1>6. /\ pc' \in [Proc -> PC] /\ mem' \in [Proc -> MemType]
      /\ pc'[w] = "idle" /\ mem'[w] = NoMem /\ lock' \in Proc \cup {NoProc}
      /\ OnlyHolder' /\ \A q \in Proc : q # w => mem'[q] = mem[q] /\ HolderInv(q)'
  BY <1>3, <1>5, NoMemType, Frame DEF PC
<1>7. HolderInv(w)'
  BY <1>5, <1>6, IdleHolder
<1>8. ASSUME NEW t \in rows
      PROVE  /\ Cardinality(LinksTo(gone, t)) \in Nat
             /\ Cardinality(LinksTo(links \ gone, t)) =
                  Cardinality(LinksTo(links, t)) - Cardinality(LinksTo(gone, t))
  BY <1>4, CountRemove
<1> HIDE DEF gone
<1>9. TypeOK'
  <2>1. refcount' \in [Content -> Int]
    BY <1>3, <1>8 DEF IInv, TypeOK
  <2> QED
    BY <1>2, <1>3, <1>5, <1>6, <2>1 DEF IInv, TypeOK, env
<1>10. RefcountExact'
  <2> SUFFICES ASSUME NEW t \in rows PROVE refcount'[t] = Cardinality(LinksTo(links', t))
    BY <1>3 DEF RefcountExact
  <2>1. refcount[t] = Cardinality(LinksTo(links, t)) /\ t \in Content
    BY DEF IInv, TypeOK, TablesInv, RefcountExact
  <2> QED
    BY <1>3, <1>8, <2>1
<1>11. IdsInv'
  <2>1. IsFiniteSet(links')
    BY <1>3, <1>4, CountRemove
  <2>2. IsFiniteSet(events')
    BY <1>2, <1>3, FS_Subset DEF IInv, TablesInv, IdsInv
  <2> QED
    BY <1>2, <1>3, <2>1, <2>2 DEF IInv, TablesInv, IdsInv
<1>12. TablesInv'
  BY <1>3, <1>10, <1>11 DEF IInv, TablesInv, LinkedIsReadable
<1>13. CompleteIsLinked'
  <2> SUFFICES ASSUME NEW e \in kept, NEW p \in Pane, e.sha[p] # NoSha, e.id \notin torn
               PROVE  [event |-> e.id, pane |-> p, sha |-> e.sha[p]] \in links'
    BY <1>3 DEF CompleteIsLinked
  <2>1. \A q \in Proc : mem[q].todo = {}
    <3>1. mem[w].todo = {}
      BY <1>3, Holder DEF HolderInv, SaverInv, MemType
    <3>2. \A q \in Proc : q # w => mem[q] = NoMem
      BY <1>3 DEF IInv, OnlyHolder
    <3>3. NoMem.todo = {}
      BY DEF NoMem
    <3> QED
      BY <3>1, <3>2, <3>3
  <2>2. [event |-> e.id, pane |-> p, sha |-> e.sha[p]] \in links
    BY <1>2, <2>1 DEF IInv, CompleteIsLinked
  <2>3. e.id \notin Ids(E)
    BY <1>2 DEF Ids, IInv, TablesInv, IdsInv
  <2> QED
    BY <1>3, <2>2, <2>3 DEF gone
<1> QED
  BY <1>6, <1>7, <1>9, <1>12, <1>13 DEF IInv

LEMMA GCDeleteFileStep ==
  ASSUME IInv, NEW w \in Proc, NEW s \in Content, GCDeleteFile(w, s)
  PROVE  IInv'
<1> DEFINE m == [mem[w] EXCEPT !.orphans = mem[w].orphans \ {s}, !.victim = s]
<1>1. /\ pc[w] = "gc" /\ s \in mem[w].orphans /\ lock = w /\ lock' = w
      /\ files' = files \ {s}
      /\ UNCHANGED <<env, events, links, rows, refcount, meta, nextId, torn, stops>>
  BY Holder DEF GCDeleteFile, Goto
<1>2. Moves(w, "gcRow", m)
  BY Holder DEF GCDeleteFile, Goto, Moves
<1>3. mem[w] \in MemType
  BY Holder
<1>4. m \in MemType
  BY <1>3 DEF MemType
<1>5. /\ m.job = mem[w].job /\ m.sha = mem[w].sha /\ m.ev = mem[w].ev
      /\ m.todo = mem[w].todo /\ m.orphans = mem[w].orphans \ {s} /\ m.victim = s
  BY <1>3 DEF MemType
<1> HIDE DEF m
<1>6. links' \subseteq [event : Nat, pane : Pane, sha : Content]
  BY <1>1 DEF IInv, TypeOK
<1>7. /\ pc' \in [Proc -> PC] /\ mem' \in [Proc -> MemType]
      /\ pc'[w] = "gcRow" /\ mem'[w] = m /\ lock' \in Proc \cup {NoProc}
      /\ OnlyHolder' /\ \A q \in Proc : q # w => HolderInv(q)'
  BY <1>1, <1>2, <1>4, <1>6, Frame DEF PC
<1>8. LinksTo(links, s) = {}
  BY <1>1, Holder DEF HolderInv, CollectorInv
<1>9. SaverInv(w)'
  BY <1>1, <1>5, <1>7, Holder DEF HolderInv, SaverInv
<1>10. LinkerInv(w)'
  BY <1>7 DEF LinkerInv
<1>11. CollectorInv(w)'
  BY <1>1, <1>5, <1>7, <1>8, Holder DEF HolderInv, CollectorInv
<1>12. TypeOK'
  BY <1>1, <1>7 DEF IInv, TypeOK, env
<1>13. TablesInv'
  <2>1. \A l \in links : l.sha # s
    BY <1>8 DEF LinksTo
  <2> QED
    BY <1>1, <2>1 DEF IInv, TablesInv, IdsInv, RefcountExact, LinkedIsReadable
<1>14. CompleteIsLinked'
  BY <1>1, <1>2, <1>4, <1>5, CompleteFrame
<1> QED
  BY <1>7, <1>9, <1>10, <1>11, <1>12, <1>13, <1>14 DEF IInv, HolderInv

LEMMA GCDeleteFileFailsStep ==
  ASSUME IInv, NEW w \in Proc, NEW s \in Content, GCDeleteFileFails(w, s)
  PROVE  IInv'
<1> DEFINE m == [mem[w] EXCEPT !.orphans = mem[w].orphans \ {s}]
<1>1. /\ pc[w] = "gc" /\ lock = w /\ lock' = w /\ stops' \in Nat
      /\ UNCHANGED <<env, store, torn>>
  BY Holder DEF GCDeleteFileFails, IInv, TypeOK
<1>2. Moves(w, "gc", m)
  BY <1>1, Holder DEF GCDeleteFileFails, Moves
<1>3. mem[w] \in MemType
  BY Holder
<1>4. m \in MemType
  BY <1>3 DEF MemType
<1>5. /\ m.job = mem[w].job /\ m.sha = mem[w].sha /\ m.ev = mem[w].ev
      /\ m.todo = mem[w].todo /\ m.orphans = mem[w].orphans \ {s} /\ m.victim = mem[w].victim
  BY <1>3 DEF MemType
<1> HIDE DEF m
<1>6. pc'[w] = "gc" /\ mem'[w] = m
  BY <1>2, Holder DEF Moves
<1>7. SaverInv(w)'
  BY <1>1, <1>5, <1>6, Holder DEF HolderInv, SaverInv, store
<1>8. LinkerInv(w)' /\ CollectorInv(w)'
  BY <1>1, <1>5, <1>6, Holder DEF HolderInv, LinkerInv, CollectorInv, store
<1> QED
  BY <1>1, <1>2, <1>4, <1>5, <1>7, <1>8, LocalStep DEF HolderInv, IInv, TypeOK, PC, store

LEMMA GCDeleteRowStep ==
  ASSUME IInv, NEW w \in Proc, GCDeleteRow(w)
  PROVE  IInv'
<1> DEFINE m == [mem[w] EXCEPT !.victim = NoSha]
           v == mem[w].victim
<1>1. /\ pc[w] = "gcRow" /\ lock = w /\ lock' = w
      /\ rows' = IF LinksTo(links, v) = {} THEN rows \ {v} ELSE rows
      /\ UNCHANGED <<env, events, links, refcount, meta, files, nextId, torn, stops>>
  BY Holder DEF GCDeleteRow, Goto
<1>2. Moves(w, "gc", m)
  BY Holder DEF GCDeleteRow, Goto, Moves
<1>3. mem[w] \in MemType
  BY Holder
<1>4. m \in MemType
  BY <1>3 DEF MemType
<1>5. /\ m.job = mem[w].job /\ m.sha = mem[w].sha /\ m.ev = mem[w].ev
      /\ m.todo = mem[w].todo /\ m.orphans = mem[w].orphans /\ m.victim = NoSha
  BY <1>3 DEF MemType
<1> HIDE DEF m
<1>6. links' \subseteq [event : Nat, pane : Pane, sha : Content]
  BY <1>1 DEF IInv, TypeOK
<1>7. /\ pc' \in [Proc -> PC] /\ mem' \in [Proc -> MemType]
      /\ pc'[w] = "gc" /\ mem'[w] = m /\ lock' \in Proc \cup {NoProc}
      /\ OnlyHolder' /\ \A q \in Proc : q # w => HolderInv(q)'
  BY <1>1, <1>2, <1>4, <1>6, Frame DEF PC
<1>8. rows' \subseteq rows /\ \A l \in links : l.sha \in rows => l.sha \in rows'
  BY <1>1 DEF LinksTo
<1>9. SaverInv(w)'
  BY <1>1, <1>5, <1>7, <1>8, Holder DEF HolderInv, SaverInv
<1>10. LinkerInv(w)'
  BY <1>7 DEF LinkerInv
<1>11. CollectorInv(w)'
  <2>1. LinksTo(links', NoSha) = {}
    BY <1>6, ConstAssumption DEF LinksTo
  <2> QED
    BY <1>1, <1>5, <1>7, <2>1, Holder DEF HolderInv, CollectorInv
<1>12. TypeOK'
  BY <1>1, <1>7, <1>8 DEF IInv, TypeOK, env
<1>13. TablesInv'
  BY <1>1, <1>8 DEF IInv, TablesInv, IdsInv, RefcountExact, LinkedIsReadable
<1>14. CompleteIsLinked'
  BY <1>1, <1>2, <1>4, <1>5, CompleteFrame
<1> QED
  BY <1>7, <1>9, <1>10, <1>11, <1>12, <1>13, <1>14 DEF IInv, HolderInv

-----------------------------------------------------------------------------
(* The invariant is inductive. *)

LEMMA InitIInv == Init => IInv
<1> SUFFICES ASSUME Init PROVE IInv
  OBVIOUS
<1>1. \A w \in Proc : pc[w] = "idle" /\ mem[w] = NoMem
  BY DEF Init
<1>2. TypeOK
  <2>1. pc \in [Proc -> PC] /\ mem \in [Proc -> MemType]
    BY NoMemType DEF Init, PC
  <2>2. meta \in MetaType
    BY DEF Init, MetaType
  <2> QED
    BY <2>1, <2>2, ConstAssumption DEF Init, TypeOK
<1>3. OnlyHolder
  BY <1>1 DEF OnlyHolder
<1>4. \A w \in Proc : HolderInv(w)
  <2> SUFFICES ASSUME NEW w \in Proc PROVE HolderInv(w)
    OBVIOUS
  <2>1. SaverInv(w) /\ LinkerInv(w)
    BY <1>1 DEF SaverInv, LinkerInv, NoMem
  <2>2. CollectorInv(w)
    BY <1>1 DEF CollectorInv, NoMem, LinksTo, Init
  <2> QED
    BY <2>1, <2>2 DEF HolderInv
<1>5. TablesInv
  <2>1. IsFiniteSet(links) /\ IsFiniteSet(events)
    BY FS_EmptySet DEF Init
  <2> QED
    BY <2>1 DEF Init, TablesInv, IdsInv, RefcountExact, LinkedIsReadable
<1>6. CompleteIsLinked
  BY DEF Init, CompleteIsLinked
<1> QED
  BY <1>2, <1>3, <1>4, <1>5, <1>6 DEF IInv

\* A stuttering step preserves the invariant.
LEMMA Stutter ==
  ASSUME IInv, UNCHANGED vars
  PROVE  IInv'
<1>1. UNCHANGED <<live, act, clock, changes, events, links, rows, refcount, meta, files,
                  nextId, lock, pc, mem, torn, stops>>
  BY DEF vars, env, store
<1>2. TypeOK' /\ OnlyHolder'
  BY <1>1 DEF IInv, TypeOK, OnlyHolder
<1>3. \A w \in Proc : HolderInv(w)'
  BY <1>1 DEF IInv, HolderInv, SaverInv, LinkerInv, CollectorInv
<1>4. TablesInv' /\ CompleteIsLinked'
  BY <1>1 DEF IInv, TablesInv, IdsInv, RefcountExact, LinkedIsReadable, CompleteIsLinked
<1> QED
  BY <1>2, <1>3, <1>4 DEF IInv

\* Every step of every command, and every death of one, preserves the
\* invariant.
LEMMA Inductive == IInv /\ [Next]_vars => IInv'
<1> SUFFICES ASSUME IInv, [Next]_vars PROVE IInv'
  OBVIOUS
<1>1. CASE Restructure \/ Churn \/ Tick
  BY <1>1, EnvStep
<1>2. ASSUME NEW w \in Proc, SaveStart(w) \/ PruneStart(w) \/ GCStart(w) \/ Stop(w)
      PROVE  IInv'
  BY <1>2, SaveStartStep, PruneStartStep, GCStartStep, StopStep
<1>3. ASSUME NEW w \in Proc, Step(w)
      PROVE  IInv'
  <2>1. CASE SaveSkip(w) \/ Linked(w)
    BY <2>1, GotoStep
  <2>2. CASE SaveBuild(w)
    BY <2>2, SaveBuildStep
  <2>3. ASSUME NEW p \in Pane,
               CapturePane(w, p) \/ CapturePaneFails(w, p) \/ WorkerFails(w, p)
        PROVE  IInv'
    BY <2>3, WorkerStep
  <2>4. ASSUME NEW p \in Pane, Put(w, p) \/ UpsertScrollback(w, p) \/ LinkEventScrollback(w, p)
        PROVE  IInv'
    BY <2>4, PutStep, UpsertScrollbackStep, LinkEventScrollbackStep
  <2>5. CASE Captured(w)
    BY <2>5, CapturedStep
  <2>6. CASE InsertEvent(w)
    BY <2>6, InsertEventStep
  <2>7. CASE SetMeta(w)
    BY <2>7, SetMetaStep
  <2>8. CASE Prune(w)
    BY <2>8, PruneStep
  <2>9. ASSUME NEW s \in Content, GCDeleteFile(w, s) \/ GCDeleteFileFails(w, s)
        PROVE  IInv'
    BY <2>9, GCDeleteFileStep, GCDeleteFileFailsStep
  <2>10. CASE GCDeleteRow(w) \/ GCEnd(w)
    BY <2>10, GCDeleteRowStep, GCEndStep
  <2> QED
    BY <1>3, <2>1, <2>2, <2>3, <2>4, <2>5, <2>6, <2>7, <2>8, <2>9, <2>10
    DEF Step, SaveStep, GCStep
<1>4. CASE UNCHANGED vars
  BY <1>4, Stutter
<1> QED
  BY <1>1, <1>2, <1>3, <1>4 DEF Next

\* The inductive invariant holds in every reachable state, for any number of
\* processes, panes, texts and workers.
THEOREM Invariance == Spec => []IInv
BY InitIInv, Inductive, PTL DEF Spec

-----------------------------------------------------------------------------
(* What follows from it. *)

\* The variables always hold what the SQL schema and the Go types allow.
THEOREM TypeCorrect == Spec => []TypeOK
<1>1. IInv => TypeOK
  BY DEF IInv
<1> QED
  BY <1>1, Invariance, PTL

\* The hand-kept refcount column always equals the number of linking rows.
THEOREM RefcountsAreExact == Spec => []RefcountExact
<1>1. IInv => RefcountExact
  BY DEF IInv, TablesInv
<1> QED
  BY <1>1, Invariance, PTL

\* No interleaving or death of the writers reaps a linked scrollback.
THEOREM LinkedStaysReadable == Spec => []LinkedIsReadable
<1>1. IInv => LinkedIsReadable
  BY DEF IInv, TablesInv
<1> QED
  BY <1>1, Invariance, PTL

\* What a running save has captured but not yet linked stays in the store.
THEOREM InFlightStaysReadable == Spec => []InFlightIsReadable
<1>1. ASSUME IInv PROVE InFlightIsReadable
  <2> SUFFICES ASSUME NEW w \in Proc, NEW p \in Pane,
                      mem[w].job[p] = "done" \/ p \in mem[w].todo
               PROVE  mem[w].sha[p] \in rows \cap files
    BY DEF InFlightIsReadable
  <2> QED
    BY <1>1 DEF IInv, HolderInv, SaverInv
<1> QED
  BY <1>1, Invariance, PTL

\* Everything a snapshot's manifest names is linked and on disk once its save
\* is past the linking, unless that save died after the insert.
THEOREM CompleteStaysReadable == Spec => []CompleteIsReadable
<1>1. ASSUME IInv PROVE CompleteIsReadable
  <2> SUFFICES ASSUME NEW e \in events, NEW p \in Pane, e.sha[p] # NoSha, e.id \notin torn,
                      ~\E w \in Proc : mem[w].ev = e.id /\ p \in mem[w].todo
               PROVE  /\ [event |-> e.id, pane |-> p, sha |-> e.sha[p]] \in links
                      /\ e.sha[p] \in files
    BY DEF CompleteIsReadable
  <2>1. [event |-> e.id, pane |-> p, sha |-> e.sha[p]] \in links
    BY <1>1 DEF IInv, CompleteIsLinked
  <2> QED
    BY <1>1, <2>1 DEF IInv, TablesInv, LinkedIsReadable
<1> QED
  BY <1>1, Invariance, PTL

-----------------------------------------------------------------------------
(* SnapshotStore implements ScrollbackArchive. *)

LEMMA InitArchive == Init => Archive!ArchiveInit
BY DEF Init, Archive!ArchiveInit

\* Every step of the store is a step of the archive or changes nothing there.
LEMMA StepArchive ==
  ASSUME IInv, [Next]_vars
  PROVE  [Archive!ArchiveNext]_<<links, files>>
<1>1. ASSUME NEW w \in Proc, NEW p \in Pane, Put(w, p)
      PROVE  \E s \in Content : Archive!Write(s)
  <2>1. mem[w].sha[p] \in Content
    BY <1>1 DEF Put, IInv, HolderInv, SaverInv
  <2> QED
    BY <1>1, <2>1 DEF Put, Archive!Write
<1>2. ASSUME NEW w \in Proc, NEW p \in Pane, LinkEventScrollback(w, p)
      PROVE  \E l \in [event : 1..MaxId, pane : Pane, sha : Content] : Archive!File(l)
  <2> DEFINE l == [event |-> mem[w].ev, pane |-> p, sha |-> mem[w].sha[p]]
  <2>1. /\ pc[w] = "link" /\ p \in mem[w].todo /\ mem[w].sha[p] \in rows
        /\ links' = links \cup {l} /\ files' = files
    BY <1>2 DEF LinkEventScrollback
  <2>2. mem[w].ev \in Nat /\ nextId \in Nat /\ MaxId \in Nat
    BY Holder, ConstAssumption DEF MemType, IInv, TypeOK
  <2>3. /\ mem[w].ev > 0 /\ mem[w].ev + 1 = nextId /\ nextId <= MaxId + 1
        /\ \A k \in links : k.event = mem[w].ev => k.pane \notin mem[w].todo
        /\ mem[w].job[p] = "done" /\ mem[w].sha[p] \in Content /\ mem[w].sha[p] \in files
    BY <2>1, Holder DEF HolderInv, SaverInv, LinkerInv
  <2>4. \A k \in links : k.event \in Nat /\ k.event < nextId
    BY DEF IInv, TypeOK, TablesInv, IdsInv
  <2>5. \A k \in links : k.event < mem[w].ev \/ (k.event = mem[w].ev /\ k.pane # p)
    BY <2>1, <2>2, <2>3, <2>4
  <2>6. l \in [event : 1..MaxId, pane : Pane, sha : Content]
    BY <2>2, <2>3
  <2> QED
    BY <2>1, <2>3, <2>5, <2>6 DEF Archive!File
<1>3. ASSUME NEW w \in Proc, Prune(w)
      PROVE  Archive!Expire
  <2>1. PICK kept \in PruneSnapshots(events, Keep, clock) : DeleteEvents(events \ kept)
    BY <1>3 DEF Prune
  <2> DEFINE gone == {l.event : l \in {k \in links : k.event \in Ids(events \ kept)}}
  <2>2. gone \in SUBSET {l.event : l \in links}
    OBVIOUS
  <2>3. links' = {l \in links : l.event \notin gone} /\ files' = files
    BY <1>3, <2>1 DEF Prune, DeleteEvents
  <2> QED
    BY <2>2, <2>3 DEF Archive!Expire
<1>4. ASSUME NEW w \in Proc, NEW s \in Content, GCDeleteFile(w, s)
      PROVE  Archive!Forget(s)
  <2>1. LinksTo(links, s) = {}
    BY <1>4, Holder DEF GCDeleteFile, HolderInv, CollectorInv
  <2> QED
    BY <1>4, <2>1 DEF GCDeleteFile, LinksTo, Archive!Forget
<1>5. ASSUME NEW w \in Proc,
             \/ SaveStart(w) \/ PruneStart(w) \/ GCStart(w) \/ Stop(w)
             \/ SaveSkip(w) \/ SaveBuild(w) \/ Captured(w) \/ InsertEvent(w)
             \/ Linked(w) \/ SetMeta(w) \/ GCDeleteRow(w) \/ GCEnd(w)
      PROVE  UNCHANGED <<links, files>>
  BY <1>5 DEF SaveStart, PruneStart, GCStart, Stop, SaveSkip, SaveBuild, Captured,
              InsertEvent, Linked, SetMeta, GCDeleteRow, GCEnd, store
<1>6. ASSUME NEW w \in Proc, NEW p \in Pane,
             \/ CapturePane(w, p) \/ CapturePaneFails(w, p) \/ UpsertScrollback(w, p)
             \/ WorkerFails(w, p)
      PROVE  UNCHANGED <<links, files>>
  BY <1>6 DEF CapturePane, CapturePaneFails, UpsertScrollback, WorkerFails, store
<1>7. ASSUME NEW w \in Proc, NEW s \in Content, GCDeleteFileFails(w, s)
      PROVE  UNCHANGED <<links, files>>
  BY <1>7 DEF GCDeleteFileFails, store
<1>8. CASE Restructure \/ Churn \/ Tick \/ UNCHANGED vars
  BY <1>8 DEF Restructure, Churn, Tick, vars, store
<1> QED
  BY <1>1, <1>2, <1>3, <1>4, <1>5, <1>6, <1>7, <1>8
  DEF Next, Step, SaveStep, GCStep, Archive!ArchiveNext

\* The tables, refcounts, lock and collector keep the archive's promise.
THEOREM Refinement == Spec => ImplementsArchive
<1>1. IInv /\ [Next]_vars => [Archive!ArchiveNext]_<<links, files>>
  BY StepArchive
<1> QED
  BY <1>1, InitArchive, Invariance, PTL DEF Spec, ImplementsArchive, Archive!ArchiveSpec, Archive!avars

-----------------------------------------------------------------------------
(* Retention. *)

\* PruneSnapshots keeps the row LatestSnapshot answers with, whatever way the
\* ties of its LIMIT are broken, unless a row of the same ts stands in for it
\* and both have left the week of the day floor.
LEMMA PruneSnapshotsKeepsFirst ==
  ASSUME NEW E, IsFiniteSet(E), \A e \in E : e.ts \in Int /\ e.id \in Int,
         NEW keep \in Nat \ {0}, NEW now \in Int,
         NEW kept \in PruneSnapshots(E, keep, now), NEW e \in LatestSnapshot(E)
  PROVE  \/ e \in kept
         \/ e.ts < now - Week /\ \E f \in Snapshots(E) \ {e} : f.ts = e.ts
<1> DEFINE S == Snapshots(E)
<1>1. PICK K \in NewestByTs(S, keep) : kept = Closes(E) \cup K \cup DayFloor(S, now)
  BY DEF PruneSnapshots
<1>2. /\ S \subseteq E /\ e \in S /\ IsFiniteSet(S) /\ Week \in Int
      /\ \A f \in S : f.ts \in Int
      /\ \A f \in S : f # e => f.ts <= e.ts
  BY FS_Subset, DaysAssumption DEF LatestSnapshot, First, Newer, Snapshots
<1>3. CASE now - Week <= e.ts
  <2>1. e \in DayFloor(S, now)
    BY <1>2, <1>3 DEF DayFloor
  <2> QED
    BY <1>1, <2>1
<1>4. CASE \A f \in S : f # e => f.ts # e.ts
  <2>1. K # {}
    <3>1. Cardinality(S) # 0
      BY <1>2, FS_EmptySet
    <3>2. Cardinality(K) # 0
      BY <3>1 DEF NewestByTs
    <3> QED
      BY <3>2, FS_EmptySet
  <2>2. PICK k \in K : TRUE
    BY <2>1
  <2>3. K \subseteq S /\ \A s \in S \ K : s.ts <= k.ts
    BY DEF NewestByTs
  <2>4. e \in K
    <3> SUFFICES ASSUME e \notin K PROVE FALSE
      OBVIOUS
    <3>1. k \in S /\ k # e /\ e.ts <= k.ts
      BY <1>2, <2>2, <2>3
    <3> QED
      BY <1>2, <1>4, <3>1
  <2> QED
    BY <1>1, <2>4
<1>5. now - Week <= e.ts \/ e.ts < now - Week
  BY <1>2
<1> QED
  BY <1>3, <1>4, <1>5

\* Retention never deletes the snapshot a restore without an anchor would pick.
THEOREM RetentionKeepsLatest == Spec => PruneKeepsLatest
<1> DEFINE Kept(e) == \/ e \in events'
                      \/ e.ts < clock - Week /\ \E f \in Snapshots(events) \ {e} : f.ts = e.ts
<1>1. ASSUME IInv, [Next]_vars, NEW e \in LatestSnapshot(events)
      PROVE  Kept(e)
  <2>1. e \in events
    BY DEF LatestSnapshot, First, Snapshots
  <2>2. ASSUME NEW w \in Proc, Prune(w) PROVE Kept(e)
    <3>1. PICK kept \in PruneSnapshots(events, Keep, clock) : events' = events \ (events \ kept)
      BY <2>2 DEF Prune, DeleteEvents
    <3>2. /\ IsFiniteSet(events) /\ \A f \in events : f.ts \in Int /\ f.id \in Int
          /\ clock \in Int /\ Keep \in Nat \ {0}
      BY <1>1, ConstAssumption DEF IInv, TablesInv, IdsInv, TypeOK, EventRow
    <3>3. e \in kept \/ (e.ts < clock - Week /\ \E f \in Snapshots(events) \ {e} : f.ts = e.ts)
      BY <3>2, PruneSnapshotsKeepsFirst
    <3> QED
      BY <2>1, <3>1, <3>3
  <2>3. ASSUME NEW w \in Proc, InsertEvent(w) PROVE e \in events'
    BY <2>1, <2>3 DEF InsertEvent
  <2>4. ASSUME NEW w \in Proc,
               \/ SaveStart(w) \/ PruneStart(w) \/ GCStart(w) \/ Stop(w)
               \/ SaveSkip(w) \/ SaveBuild(w) \/ Captured(w) \/ Linked(w)
               \/ SetMeta(w) \/ GCDeleteRow(w) \/ GCEnd(w)
        PROVE  events' = events
    BY <2>4 DEF SaveStart, PruneStart, GCStart, Stop, SaveSkip, SaveBuild, Captured,
                Linked, SetMeta, GCDeleteRow, GCEnd, store
  <2>5. ASSUME NEW w \in Proc, NEW p \in Pane,
               \/ CapturePane(w, p) \/ CapturePaneFails(w, p) \/ Put(w, p)
               \/ UpsertScrollback(w, p) \/ WorkerFails(w, p) \/ LinkEventScrollback(w, p)
        PROVE  events' = events
    BY <2>5 DEF CapturePane, CapturePaneFails, Put, UpsertScrollback, WorkerFails,
                LinkEventScrollback, store
  <2>6. ASSUME NEW w \in Proc, NEW s \in Content,
               GCDeleteFile(w, s) \/ GCDeleteFileFails(w, s)
        PROVE  events' = events
    BY <2>6 DEF GCDeleteFile, GCDeleteFileFails, store
  <2>7. CASE Restructure \/ Churn \/ Tick \/ UNCHANGED vars
    BY <2>1, <2>7 DEF Restructure, Churn, Tick, vars, store
  <2> QED
    BY <1>1, <2>1, <2>2, <2>3, <2>4, <2>5, <2>6, <2>7 DEF Next, Step, SaveStep, GCStep
<1>2. IInv /\ [Next]_vars => [\A e \in LatestSnapshot(events) : Kept(e)]_vars
  BY <1>1
<1> QED
  BY <1>2, Invariance, PTL DEF Spec, PruneKeepsLatest

-----------------------------------------------------------------------------
(* What a skip relies on: the last_save_* values describe the latest       *)
(* snapshot.                                                               *)

\* The exception of PruneKeepsLatest does not arise: while a snapshot older
\* than the week is the latest, no other one has its millisecond.
LatestIsSafe ==
  \A e \in LatestSnapshot(events) :
    e.ts < clock - Week => \A f \in Snapshots(events) \ {e} : f.ts # e.ts

\* From the insert of its snapshot to the last of its three SetMeta.
Recording == {"link", "metaFP", "metaStruct", "metaTS"}

\* No snapshot is of the future, and none is newer than the save at work.
TimesInv ==
  /\ \A e \in events : e.ts <= clock
  /\ \A w \in Proc : pc[w] \in {"build", "capture", "insert"} =>
       /\ mem[w].savedAt <= clock
       /\ \A e \in events : e.ts <= mem[w].savedAt

\* A save that records works for the latest snapshot, and has written of it
\* what its control state says.
RecorderInv(w) ==
  pc[w] \in Recording =>
    \E e \in LatestSnapshot(events) :
      /\ e.id = mem[w].ev /\ e.fp = mem[w].fp
      /\ pc[w] \in {"metaStruct", "metaTS"} => meta.fp = e.fp
      /\ pc[w] = "metaTS" => meta.structFP = <<e.fp[1]>>

Described(e) == e.id \in torn \/ (meta.fp = e.fp /\ meta.structFP = <<e.fp[1]>>)

\* Nothing was ever saved, or the latest snapshot is described.
Settled ==
  \/ events = {} /\ meta.fp = <<>> /\ meta.structFP = <<>>
  \/ \E e \in LatestSnapshot(events) : Described(e)

Recorded ==
  /\ TimesInv
  /\ \A w \in Proc : RecorderInv(w)
  /\ (\A w \in Proc : pc[w] \notin Recording) => Settled

LEMMA InitRecorded == Init => Recorded
BY DEF Init, Recorded, TimesInv, RecorderInv, Recording, Settled

\* Beside a process that runs, or begins, all others are idle.
LEMMA OthersIdle ==
  ASSUME IInv, NEW w \in Proc, pc[w] # "idle" \/ lock = NoProc
  PROVE  \A q \in Proc : q # w => pc[q] = "idle"
BY ConstAssumption DEF IInv, OnlyHolder

\* The latest snapshot of a table is the latest of every part that has it.
LEMMA LatestOfPart ==
  ASSUME NEW E, NEW F \in SUBSET E, NEW e \in LatestSnapshot(E), e \in F
  PROVE  e \in LatestSnapshot(F)
BY DEF LatestSnapshot, First, Snapshots

\* A step outside the recording that leaves events and meta alone.
LEMMA AsideStep ==
  ASSUME IInv, Recorded, NEW w \in Proc,
         pc[w] # "idle" \/ lock = NoProc,
         pc[w] \notin Recording, pc'[w] \notin Recording,
         \A q \in Proc : q # w => pc'[q] = pc[q] /\ mem'[q] = mem[q],
         pc'[w] \in {"build", "capture", "insert"} =>
           \/ mem'[w].savedAt = clock
           \/ mem'[w].savedAt = mem[w].savedAt /\ pc[w] \in {"build", "capture", "insert"},
         UNCHANGED <<events, meta, torn, clock>>
  PROVE  Recorded'
<1>1. \A q \in Proc : q # w => pc[q] = "idle" /\ pc'[q] = "idle"
  BY OthersIdle
<1>2. TimesInv'
  BY <1>1 DEF Recorded, TimesInv, IInv, TypeOK
<1>3. \A q \in Proc : pc[q] \notin Recording /\ pc'[q] \notin Recording
  BY <1>1 DEF Recording
<1>4. Settled'
  <2>1. Settled
    BY <1>3 DEF Recorded
  <2> QED
    BY <2>1 DEF Settled, Described
<1> QED
  BY <1>2, <1>3, <1>4 DEF Recorded, RecorderInv

LEMMA InsertRecorded ==
  ASSUME IInv, Recorded, NEW w \in Proc, InsertEvent(w)
  PROVE  Recorded'
<1> DEFINE row == [id |-> nextId, ts |-> mem[w].savedAt, kind |-> "snapshot",
                   fp |-> mem[w].fp, skipped |-> mem[w].skipped, sha |-> mem[w].sha]
<1>1. /\ pc[w] = "insert" /\ events' = events \cup {row} /\ clock' = clock
      /\ pc' = [pc EXCEPT ![w] = "link"]
      /\ mem' = [mem EXCEPT ![w] = [mem[w] EXCEPT !.ev = nextId,
                                       !.todo = {p \in Pane : mem[w].sha[p] # NoSha}]]
  BY Holder DEF InsertEvent, Goto, env
<1>2. /\ pc'[w] = "link" /\ mem'[w].ev = nextId /\ mem'[w].fp = mem[w].fp
      /\ \A q \in Proc : q # w => pc'[q] = "idle"
  <2>1. \A q \in Proc : q # w => pc[q] = "idle"
    BY <1>1, OthersIdle
  <2> QED
    BY <1>1, <2>1, Holder DEF MemType
<1>3. row.id = nextId /\ row.ts = mem[w].savedAt /\ row.kind = "snapshot" /\ row.fp = mem[w].fp
  OBVIOUS
<1> HIDE DEF row
<1>4. /\ nextId \in Int /\ mem[w].savedAt \in Int /\ mem[w].savedAt <= clock
      /\ \A e \in events : e.id \in Int /\ e.ts \in Int /\ e.id < nextId /\ e.ts <= mem[w].savedAt
  BY <1>1, Holder DEF Recorded, TimesInv, IInv, TablesInv, IdsInv, TypeOK, EventRow, MemType
<1>5. row \in LatestSnapshot(events')
  <2>1. row \in Snapshots(events')
    BY <1>1, <1>3 DEF Snapshots
  <2>2. ASSUME NEW f \in Snapshots(events') \ {row} PROVE Newer(row, f)
    <3>1. f \in events
      BY <1>1 DEF Snapshots
    <3> QED
      BY <1>3, <1>4, <3>1 DEF Newer
  <2> QED
    BY <2>1, <2>2 DEF LatestSnapshot, First
<1>6. TimesInv'
  BY <1>1, <1>2, <1>3, <1>4 DEF Recorded, TimesInv
<1>7. \A q \in Proc : RecorderInv(q)'
  BY <1>2, <1>3, <1>5 DEF RecorderInv, Recording
<1> QED
  BY <1>2, <1>6, <1>7 DEF Recorded, Recording

\* The links and the SetMeta statements, in their order.
LEMMA RecordingStep ==
  ASSUME IInv, Recorded, NEW w \in Proc,
         (\E p \in Pane : LinkEventScrollback(w, p)) \/ Linked(w) \/ SetMeta(w)
  PROVE  Recorded'
<1>1. /\ pc[w] \in Recording /\ UNCHANGED <<events, torn, clock>>
      /\ mem'[w].ev = mem[w].ev /\ mem'[w].fp = mem[w].fp
  BY Holder DEF LinkEventScrollback, Linked, SetMeta, MemType, Recording, env, store
<1>2. \A q \in Proc : q # w => pc[q] = "idle"
  BY <1>1, OthersIdle DEF Recording
<1>3. PICK e \in LatestSnapshot(events) :
        /\ e.id = mem[w].ev /\ e.fp = mem[w].fp
        /\ pc[w] \in {"metaStruct", "metaTS"} => meta.fp = e.fp
        /\ pc[w] = "metaTS" => meta.structFP = <<e.fp[1]>>
  BY <1>1 DEF Recorded, RecorderInv
<1>4. meta \in MetaType /\ pc \in [Proc -> PC]
  BY DEF IInv, TypeOK
<1>5. /\ pc'[w] \in {"link", "metaFP", "metaStruct", "metaTS", "prune"}
      /\ \A q \in Proc : q # w => pc'[q] = "idle"
      /\ pc'[w] \in {"metaStruct", "metaTS", "prune"} => meta'.fp = e.fp
      /\ pc'[w] \in {"metaTS", "prune"} => meta'.structFP = <<e.fp[1]>>
  <2>1. CASE (\E p \in Pane : LinkEventScrollback(w, p)) \/ Linked(w)
    <3>1. pc'[w] \in {"link", "metaFP"} /\ \A q \in Proc : q # w => pc'[q] = "idle"
      BY <1>2, <1>4, <2>1 DEF LinkEventScrollback, Linked, Goto
    <3> QED
      BY <3>1
  <2>2. CASE pc[w] = "metaFP" /\ SetMeta(w)
    <3>1. pc'[w] = "metaStruct" /\ \A q \in Proc : q # w => pc'[q] = "idle"
      BY <1>2, <1>4, <2>2 DEF SetMeta, Goto
    <3>2. meta'.fp = mem[w].fp
      BY <1>4, <2>2 DEF SetMeta, MetaType
    <3> QED
      BY <1>3, <3>1, <3>2
  <2>3. CASE pc[w] = "metaStruct" /\ SetMeta(w)
    <3>1. pc'[w] = "metaTS" /\ \A q \in Proc : q # w => pc'[q] = "idle"
      BY <1>2, <1>4, <2>3 DEF SetMeta, Goto
    <3>2. meta'.fp = meta.fp /\ meta'.structFP = <<mem[w].fp[1]>>
      BY <1>4, <2>3 DEF SetMeta, MetaType
    <3> QED
      BY <1>3, <2>3, <3>1, <3>2
  <2>4. CASE pc[w] = "metaTS" /\ SetMeta(w)
    <3>1. pc'[w] = "prune" /\ \A q \in Proc : q # w => pc'[q] = "idle"
      BY <1>2, <1>4, <2>4 DEF SetMeta, Goto
    <3>2. meta'.fp = meta.fp /\ meta'.structFP = meta.structFP
      BY <1>4, <2>4 DEF SetMeta, MetaType
    <3> QED
      BY <1>3, <2>4, <3>1, <3>2
  <2>5. SetMeta(w) => pc[w] \in {"metaFP", "metaStruct", "metaTS"}
    BY DEF SetMeta
  <2> QED
    BY <2>1, <2>2, <2>3, <2>4, <2>5
<1>6. TimesInv'
  BY <1>1, <1>5 DEF Recorded, TimesInv
<1>7. \A q \in Proc : RecorderInv(q)'
  BY <1>1, <1>3, <1>5 DEF RecorderInv, Recording
<1>8. pc'[w] \notin Recording => Settled'
  <2> SUFFICES ASSUME pc'[w] = "prune" PROVE Settled'
    BY <1>5 DEF Recording
  <2>1. meta'.fp = e.fp /\ meta'.structFP = <<e.fp[1]>>
    BY <1>5
  <2>2. e \in LatestSnapshot(events')
    BY <1>1, <1>3
  <2> QED
    BY <2>1, <2>2 DEF Settled, Described
<1> QED
  BY <1>6, <1>7, <1>8 DEF Recorded

LEMMA PruneRecorded ==
  ASSUME IInv, Recorded, LatestIsSafe, NEW w \in Proc, Prune(w)
  PROVE  Recorded'
<1>1. PICK kept \in PruneSnapshots(events, Keep, clock) : events' = events \ (events \ kept)
  BY DEF Prune, DeleteEvents
<1>2. /\ pc[w] = "prune" /\ pc' = [pc EXCEPT ![w] = "idle"]
      /\ UNCHANGED <<meta, torn, clock>>
  BY DEF Prune, Finish, env
<1>3. \A q \in Proc : pc[q] \notin Recording /\ pc'[q] = "idle"
  <2>1. \A q \in Proc : q # w => pc[q] = "idle"
    BY <1>2, OthersIdle
  <2> QED
    BY <1>2, <2>1, Holder DEF Recording
<1>4. events' \subseteq events
  BY <1>1
<1>5. Settled
  BY <1>3 DEF Recorded
<1>6. CASE events = {} /\ meta.fp = <<>> /\ meta.structFP = <<>>
  <2>1. Settled'
    BY <1>2, <1>4, <1>6 DEF Settled
  <2>2. TimesInv'
    BY <1>2, <1>3, <1>4 DEF Recorded, TimesInv
  <2> QED
    BY <1>3, <2>1, <2>2 DEF Recorded, RecorderInv, Recording
<1>7. ASSUME NEW e \in LatestSnapshot(events), Described(e)
      PROVE  Recorded'
  <2>1. /\ IsFiniteSet(events) /\ \A f \in events : f.ts \in Int /\ f.id \in Int
        /\ clock \in Int /\ Keep \in Nat \ {0}
    BY ConstAssumption DEF IInv, TablesInv, IdsInv, TypeOK, EventRow
  <2>2. e \in kept \/ (e.ts < clock - Week /\ \E f \in Snapshots(events) \ {e} : f.ts = e.ts)
    BY <2>1, PruneSnapshotsKeepsFirst
  <2>3. e \in events'
    BY <1>1, <2>2 DEF LatestIsSafe, LatestSnapshot, First, Snapshots
  <2>4. e \in LatestSnapshot(events')
    BY <1>4, <2>3, LatestOfPart
  <2>5. Settled'
    BY <1>2, <1>7, <2>4 DEF Settled, Described
  <2>6. TimesInv'
    BY <1>2, <1>3, <1>4 DEF Recorded, TimesInv
  <2> QED
    BY <1>3, <2>5, <2>6 DEF Recorded, RecorderInv, Recording
<1> QED
  BY <1>5, <1>6, <1>7 DEF Settled

\* A death leaves the latest snapshot described, or marks it as torn.
LEMMA StopRecorded ==
  ASSUME IInv, Recorded, NEW w \in Proc, Stop(w)
  PROVE  Recorded'
<1>1. /\ pc[w] # "idle" /\ pc' = [pc EXCEPT ![w] = "idle"]
      /\ mem' = [mem EXCEPT ![w] = NoMem] /\ UNCHANGED <<events, meta, clock>>
  BY DEF Stop, Finish, env, store
<1>2. pc'[w] = "idle" /\ \A q \in Proc : q # w => pc'[q] = pc[q] /\ mem'[q] = mem[q]
  BY <1>1, Holder
<1>3. CASE pc[w] \notin Recording
  <2>1. torn' = torn
    BY <1>3 DEF Stop, Recording
  <2> QED
    BY <1>1, <1>2, <1>3, <2>1, AsideStep DEF Recording
<1>4. CASE pc[w] \in Recording
  <2>1. torn' = torn \cup {mem[w].ev}
    BY <1>4 DEF Stop, Recording
  <2>2. PICK e \in LatestSnapshot(events) : e.id = mem[w].ev
    BY <1>4 DEF Recorded, RecorderInv
  <2>3. Settled'
    BY <1>1, <2>1, <2>2 DEF Settled, Described
  <2>4. \A q \in Proc : pc'[q] = "idle"
    BY <1>1, <1>2, OthersIdle
  <2>5. TimesInv'
    BY <1>1, <2>4 DEF Recorded, TimesInv
  <2> QED
    BY <2>3, <2>4, <2>5 DEF Recorded, RecorderInv, Recording
<1> QED
  BY <1>3, <1>4

\* Every step keeps the last_save_* values true to the latest snapshot.
LEMMA RecordedStep ==
  ASSUME IInv, Recorded, LatestIsSafe, [Next]_vars
  PROVE  Recorded'
<1>1. CASE Restructure \/ Churn \/ Tick \/ UNCHANGED vars
  <2>1. UNCHANGED <<events, meta, torn, pc, mem>>
    BY <1>1 DEF Restructure, Churn, Tick, vars, store
  <2>2. clock \in Int /\ clock' \in Int /\ clock <= clock'
    BY <1>1 DEF Restructure, Churn, Tick, vars, env, IInv, TypeOK
  <2>3. TimesInv'
    BY <2>1, <2>2 DEF Recorded, TimesInv, IInv, TypeOK, EventRow, MemType
  <2> QED
    BY <2>1, <2>3 DEF Recorded, RecorderInv, Settled, Described
<1>2. ASSUME NEW w \in Proc,
             \/ SaveStart(w) \/ PruneStart(w) \/ GCStart(w) \/ SaveSkip(w) \/ SaveBuild(w)
             \/ Captured(w) \/ GCDeleteRow(w) \/ GCEnd(w)
             \/ \E p \in Pane : \/ CapturePane(w, p) \/ CapturePaneFails(w, p) \/ Put(w, p)
                                \/ UpsertScrollback(w, p) \/ WorkerFails(w, p)
             \/ \E s \in Content : GCDeleteFile(w, s) \/ GCDeleteFileFails(w, s)
      PROVE  Recorded'
  <2>1. /\ pc[w] # "idle" \/ lock = NoProc
        /\ UNCHANGED <<events, meta, torn, clock>>
    BY <1>2 DEF SaveStart, PruneStart, GCStart, SaveSkip, SaveBuild, Captured, GCDeleteRow,
                GCEnd, CapturePane, CapturePaneFails, Put, UpsertScrollback, WorkerFails,
                GCDeleteFile, GCDeleteFileFails, Begin, env, store
  <2>2. pc[w] \notin Recording /\ pc'[w] \notin Recording
    BY <1>2, Holder
    DEF SaveStart, PruneStart, GCStart, SaveSkip, SaveBuild, Captured, GCDeleteRow,
        GCEnd, CapturePane, CapturePaneFails, Put, UpsertScrollback, WorkerFails,
        GCDeleteFile, GCDeleteFileFails, Begin, Goto, Finish, Recording
  <2>3. \A q \in Proc : q # w => pc'[q] = pc[q] /\ mem'[q] = mem[q]
    BY <1>2, Holder
    DEF SaveStart, PruneStart, GCStart, SaveSkip, SaveBuild, Captured, GCDeleteRow,
        GCEnd, CapturePane, CapturePaneFails, Put, UpsertScrollback, WorkerFails,
        GCDeleteFile, GCDeleteFileFails, Begin, Goto, Finish
  <2>4. ASSUME pc'[w] \in {"build", "capture", "insert"}
        PROVE  \/ mem'[w].savedAt = clock
               \/ mem'[w].savedAt = mem[w].savedAt /\ pc[w] \in {"build", "capture", "insert"}
    <3>1. CASE SaveStart(w)
      BY <3>1, Holder DEF SaveStart, MemType
    <3>2. CASE SaveBuild(w)
      BY <3>2, Holder DEF SaveBuild, MemType
    <3>3. CASE Captured(w)
      BY <2>4, <3>3, Holder DEF Captured, Goto, Finish
    <3>4. ASSUME NEW p \in Pane,
                 \/ CapturePane(w, p) \/ CapturePaneFails(w, p) \/ Put(w, p)
                 \/ UpsertScrollback(w, p) \/ WorkerFails(w, p)
          PROVE  mem'[w].savedAt = mem[w].savedAt /\ pc[w] = "capture"
      BY <3>4, Holder
      DEF CapturePane, CapturePaneFails, Put, UpsertScrollback, WorkerFails, MemType
    <3>5. CASE \/ PruneStart(w) \/ GCStart(w) \/ SaveSkip(w) \/ GCDeleteRow(w) \/ GCEnd(w)
               \/ \E s \in Content : GCDeleteFile(w, s) \/ GCDeleteFileFails(w, s)
      BY <2>4, <3>5, Holder
      DEF PruneStart, GCStart, SaveSkip, GCDeleteRow, GCEnd, GCDeleteFile,
          GCDeleteFileFails, Begin, Goto, Finish
    <3> QED
      BY <1>2, <3>1, <3>2, <3>3, <3>4, <3>5
  <2> QED
    BY <2>1, <2>2, <2>3, <2>4, AsideStep
<1>3. ASSUME NEW w \in Proc,
             \/ InsertEvent(w) \/ Linked(w) \/ SetMeta(w) \/ Prune(w) \/ Stop(w)
             \/ \E p \in Pane : LinkEventScrollback(w, p)
      PROVE  Recorded'
  BY <1>3, InsertRecorded, RecordingStep, PruneRecorded, StopRecorded
<1> QED
  BY <1>1, <1>2, <1>3 DEF Next, Step, SaveStep, GCStep

\* As long as retention takes no latest snapshot, a save skips only what the
\* latest snapshot has: what last_save_* says is what is saved, wherever saves
\* died.
THEOREM SkipsLoseNothing == Spec /\ []LatestIsSafe => SkipLosesNoStructure
<1>1. ASSUME IInv, Recorded, NEW w \in Proc, SaveSkip(w), live # {}
      PROVE  \E e \in LatestSnapshot(events) : e.fp[1] = live \/ e.id \in torn
  <2>1. pc[w] = "build"
    BY <1>1 DEF SaveSkip
  <2>2. Settled
    BY <1>1, <2>1, OthersIdle DEF Recorded, Recording
  <2>3. Fingerprint = meta.fp \/ StructureFingerprint = meta.structFP
    BY <1>1 DEF SaveSkip, Skips
  <2>4. <<live, act>> # <<>> /\ <<live>> # <<>>
    OBVIOUS
  <2>5. PICK e \in LatestSnapshot(events) : Described(e)
    BY <2>2, <2>3, <2>4 DEF Settled, Fingerprint, StructureFingerprint
  <2>6. CASE Fingerprint = meta.fp
    BY <2>5, <2>6 DEF Described, Fingerprint
  <2>7. CASE StructureFingerprint = meta.structFP
    BY <2>5, <2>7 DEF Described, StructureFingerprint
  <2> QED
    BY <2>3, <2>6, <2>7
<1>2. IInv /\ Recorded => (\A w \in Proc : SaveSkip(w) /\ live # {} =>
         \E e \in LatestSnapshot(events) : e.fp[1] = live \/ e.id \in torn)
  BY <1>1
<1>3. IInv /\ Recorded /\ LatestIsSafe /\ [Next]_vars => Recorded'
  BY RecordedStep
<1> QED
  BY <1>2, <1>3, InitRecorded, Invariance, PTL DEF Spec, SkipLosesNoStructure
=============================================================================
