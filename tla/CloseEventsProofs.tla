-------------------------- MODULE CloseEventsProofs --------------------------
(***************************************************************************)
(* Theorems about CloseEvents, for every value of its constants: the       *)
(* types; a close is resolved against the past it was recorded in; what is *)
(* recorded as closed by a list of survivors is gone; the pruning after a  *)
(* save takes only what is lost anyway.                                    *)
(***************************************************************************)
EXTENDS CloseEvents, SequenceProofs

\* Rows have been given their id and their time; while a save builds, no
\* close is recorded after the time it started with.
RowsInv ==
  /\ clock \in Int /\ nextId \in Int
  /\ \A e \in events : e.id \in Int /\ e.ts \in Int /\ e.id < nextId /\ e.ts <= clock

SaverInv ==
  job.cmd = "save" =>
    /\ job = [cmd |-> "save", ts |-> job.ts, todo |-> job.todo,
              sessions |-> job.sessions, windows |-> job.windows, panes |-> job.panes]
    /\ job.todo \subseteq Queries
    /\ job.ts \in Int /\ job.ts <= clock
    /\ \A c \in Closes(events) : c.ts <= job.ts

BehindInv == RowsInv /\ SaverInv /\ NoSnapshotBehind

-----------------------------------------------------------------------------
(* The retention statements. *)

LEMMA PruneSnapshotsShrinks ==
  ASSUME NEW E, NEW keep, NEW now, NEW F \in PruneSnapshots(E, keep, now)
  PROVE  F \subseteq E /\ Closes(F) = Closes(E)
<1>1. PICK K \in NewestByTs(Snapshots(E), keep) :
        F = Closes(E) \cup K \cup DayFloor(Snapshots(E), now)
  BY DEF PruneSnapshots
<1>2. K \subseteq Snapshots(E)
  BY DEF NewestByTs
<1>3. DayFloor(Snapshots(E), now) \subseteq Snapshots(E)
  BY DEF DayFloor
<1> QED
  BY <1>1, <1>2, <1>3 DEF Snapshots, Closes

LEMMA PruneUnresolvableShrinks ==
  ASSUME NEW E
  PROVE  PruneUnresolvable(E) \subseteq E /\ Snapshots(PruneUnresolvable(E)) = Snapshots(E)
  BY DEF PruneUnresolvable, Snapshots, Closes

LEMMA PruneClosesShrinks ==
  ASSUME NEW E, NEW keep, NEW F \in PruneCloses(E, keep)
  PROVE  F \subseteq E
<1>1. PICK K \in NewestByTs(Closes(E), keep) : F = PruneUnresolvable(Snapshots(E) \cup K)
  BY DEF PruneCloses
<1>2. K \subseteq Closes(E)
  BY DEF NewestByTs
<1> QED
  BY <1>1, <1>2, PruneUnresolvableShrinks DEF Snapshots, Closes

-----------------------------------------------------------------------------
(* No snapshot behind a close. *)

\* Steps that add no row.
LEMMA FewerRows ==
  ASSUME BehindInv, events' \subseteq events, clock' = clock, nextId' = nextId,
         job' = job \/ job'.cmd # "save"
  PROVE  BehindInv'
  BY DEF BehindInv, RowsInv, SaverInv, NoSnapshotBehind, Snapshots, Closes

LEMMA BehindInit == Init => BehindInv
  BY DEF Init, BehindInv, RowsInv, SaverInv, NoSnapshotBehind, Snapshots, Closes, Idle

LEMMA BehindNext ==
  ASSUME BehindInv, [Next]_vars
  PROVE  BehindInv'
<1> USE DEF BehindInv
<1>1. CASE User
  BY <1>1, FewerRows
  DEF User, NewSession, NewWindow, SplitWindow, Rename, MoveWindow, PaneExits, KillPane,
      KillWindow, KillSession, ServerDies, Rest, db
<1>2. CASE Tick
  BY <1>2 DEF Tick, db, RowsInv, SaverInv, NoSnapshotBehind, Snapshots, Closes
<1>3. ASSUME NEW h \in hooks, CaptureStart(h)
      PROVE  BehindInv'
  BY <1>3, FewerRows DEF CaptureStart, db
<1>4. CASE CaptureEnd
  <2>1. job'.cmd # "save" /\ clock' = clock
    BY <1>4 DEF CaptureEnd, Idle
  <2>2. CASE UNCHANGED <<events, nextId>>
    BY <2>1, <2>2, FewerRows
  <2>3. ASSUME NEW h, NEW post, Insert(CloseRow(h, post))
        PROVE  BehindInv'
    <3>1. CloseRow(h, post).id = nextId /\ CloseRow(h, post).ts = clock
      BY DEF CloseRow
    <3>2. events' = events \cup {CloseRow(h, post)} /\ nextId' = nextId + 1
      BY <2>3 DEF Insert
    <3>3. RowsInv'
      BY <2>1, <3>1, <3>2 DEF RowsInv
    <3>4. NoSnapshotBehind'
      BY <3>1, <3>2 DEF RowsInv, NoSnapshotBehind, Snapshots, Closes
    <3> QED
      BY <2>1, <3>3, <3>4 DEF SaverInv
  <2>4. \E post : Record(job.hook, post)
    BY <1>4 DEF CaptureEnd
  <2> QED
    BY <2>2, <2>3, <2>4 DEF Record
<1>5. CASE SaveStart
  <2>1. /\ job' = [cmd |-> "save", ts |-> clock, todo |-> Queries,
                    sessions |-> {}, windows |-> {}, panes |-> {}]
        /\ UNCHANGED <<events, nextId, clock>>
    BY <1>5 DEF SaveStart, db
  <2>2. \A c \in Closes(events) : c.ts <= clock
    BY DEF RowsInv, Closes
  <2> QED
    BY <2>1, <2>2 DEF RowsInv, SaverInv, NoSnapshotBehind, Snapshots, Closes
<1>6. CASE SaveList
  <2>1. PICK q \in job.todo : job' = [job EXCEPT !.todo = @ \ {q}, ![q] = Listing(q)]
    BY <1>6 DEF SaveList
  <2>2. q \in {"sessions", "windows", "panes"} /\ job.cmd = "save" /\ SaverInv
    BY <1>6, <2>1 DEF SaveList, SaverInv, Queries
  <2>3. job'.cmd = "save" /\ job'.ts = job.ts /\ job'.todo = job.todo \ {q}
    BY <2>1, <2>2 DEF SaverInv
  <2>4. job' = [cmd |-> "save", ts |-> job'.ts, todo |-> job'.todo,
                sessions |-> job'.sessions, windows |-> job'.windows, panes |-> job'.panes]
    BY <2>1, <2>2 DEF SaverInv
  <2>5. UNCHANGED <<events, nextId, clock>>
    BY <1>6 DEF SaveList, db
  <2> QED
    BY <2>2, <2>3, <2>4, <2>5 DEF RowsInv, SaverInv, NoSnapshotBehind, Snapshots, Closes
<1>7. CASE SaveInsert
  <2>1. job'.cmd # "save" /\ clock' = clock /\ job.cmd = "save"
    BY <1>7 DEF SaveInsert
  <2>2. CASE UNCHANGED db
    BY <2>1, <2>2, FewerRows DEF db
  <2>3. CASE ~UNCHANGED db
    <3> DEFINE row == [id |-> nextId, ts |-> job.ts, kind |-> "snapshot", man |-> Manifest]
    <3>1. events' = events \cup {row} /\ nextId' = nextId + 1
      BY <1>7, <2>3 DEF SaveInsert, Insert
    <3>2. row.id = nextId /\ row.ts = job.ts /\ row.kind = "snapshot"
      OBVIOUS
    <3>3. RowsInv'
      BY <2>1, <3>1, <3>2 DEF RowsInv, SaverInv
    <3>4. NoSnapshotBehind'
      BY <2>1, <3>1, <3>2 DEF RowsInv, SaverInv, NoSnapshotBehind, Snapshots, Closes
    <3> QED
      BY <2>1, <3>3, <3>4 DEF SaverInv
  <2> QED
    BY <2>2, <2>3
<1>8. CASE SavePrune \/ SaveSweep
  <2>1. events' \subseteq events
    BY <1>8, PruneSnapshotsShrinks, PruneUnresolvableShrinks DEF SavePrune, SaveSweep
  <2>2. job'.cmd # "save" /\ UNCHANGED <<clock, nextId>>
    BY <1>8 DEF SavePrune, SaveSweep, Idle
  <2> QED
    BY <2>1, <2>2, FewerRows
<1>9. CASE Prune
  <2>1. PICK E \in PruneSnapshots(events, Keep, clock) : events' \in PruneCloses(E, KeepCloses)
    BY <1>9 DEF Prune
  <2>2. events' \subseteq events
    BY <2>1, PruneSnapshotsShrinks, PruneClosesShrinks
  <2> QED
    BY <1>9, <2>2, FewerRows DEF Prune
<1>10. CASE Abort
  BY <1>10, FewerRows DEF Abort, Idle, db
<1>11. ASSUME NEW s \in Contexts, Undo(s)
       PROVE  BehindInv'
  BY <1>11, FewerRows DEF Undo, UndoDiscard, UndoRestore
<1>12. CASE UNCHANGED vars
  BY <1>12, FewerRows DEF vars, db
<1> QED
  BY <1>1, <1>2, <1>3, <1>4, <1>5, <1>6, <1>7, <1>8, <1>9, <1>10, <1>11, <1>12 DEF Next

\* A snapshot is never added behind a recorded close, for any number of
\* hooks, saves and deaths: the lock spans a save from its timestamp to its
\* insert.
THEOREM NoneBehind == Spec => []NoSnapshotBehind
<1>1. BehindInv => NoSnapshotBehind
  BY DEF BehindInv
<1> QED
  BY <1>1, BehindInit, BehindNext, PTL DEF Spec

-----------------------------------------------------------------------------
(* What leaves the table. *)

\* The pruning that ends a save deletes no close event that can be restored.
THEOREM PruningIsHarmless == Spec => PruneKeepsRecoverable
<1>1. ASSUME BehindInv, SaveSweep, NEW c \in Closes(events) \ events'
      PROVE  ~Recoverable(events', c)
  <2>1. events' = PruneUnresolvable(events)
    BY <1>1 DEF SaveSweep
  <2>2. \A s \in Snapshots(events) : c.ts <= s.ts
    BY <2>1 DEF PruneUnresolvable, Closes
  <2>3. Snapshots(events') = Snapshots(events)
    BY <2>1, PruneUnresolvableShrinks
  <2>4. c.ts \in Int /\ \A s \in Snapshots(events) : s.ts \in Int
    BY <1>1 DEF BehindInv, RowsInv, Snapshots, Closes
  <2>5. {s \in Snapshots(events') : s.ts < c.ts} = {}
    BY <2>2, <2>3, <2>4
  <2>6. LatestSnapshotBefore(events', c.ts) = {}
    BY <2>5 DEF LatestSnapshotBefore, First
  <2> QED
    BY <2>6 DEF Recoverable, Resolve
<1>2. BehindInv => [SaveSweep => \A c \in Closes(events) \ events' : ~Recoverable(events', c)]_vars
  BY <1>1
<1>3. Spec => []BehindInv
  BY BehindInit, BehindNext, PTL DEF Spec
<1> QED
  BY <1>2, <1>3, PTL DEF PruneKeepsRecoverable

-----------------------------------------------------------------------------
(* A recorded close is one.  An id is given out once: what is not running   *)
(* of the ids given out never runs again, so it is enough that a hook, a    *)
(* listing, a row and a manifest only ever name ids that were given out.    *)

Kinds == {"session-closed", "window-unlinked", "pane-died"}

GivenIds ==
  {i \in Nat \X (Nat \ {0}) : i[1] < ids.server \/ (i[1] = ids.server /\ i[2] <= ids.n)}

LivePaneIds == {p.id : p \in panes}
LiveWinIds  == {p.win : p \in panes}

PaneRecord(p) == p = [id |-> p.id, win |-> p.win, sess |-> p.sess, name |-> p.name, idx |-> p.idx]

HookOK(h) ==
  /\ h = [kind |-> h.kind, sess |-> h.sess, name |-> h.name, win |-> h.win,
          pane |-> h.pane, lost |-> h.lost]
  /\ h.kind \in Kinds
  /\ h.kind = "window-unlinked" => h.win \in GivenIds
  /\ h.kind = "pane-died" => h.pane \in GivenIds \cup {NoId}

WindowsOK(windows) ==
  /\ IsFiniteSet(windows)
  /\ \A w \in windows : w.id \in GivenIds /\ IsFiniteSet(w.panes) /\ w.panes \subseteq GivenIds

ServerInv ==
  /\ ids = [server |-> ids.server, n |-> ids.n] /\ ids.server \in Nat /\ ids.n \in Nat
  /\ IsFiniteSet(panes)
  /\ \A p \in panes : PaneRecord(p)
  /\ LivePaneIds \subseteq GivenIds /\ LiveWinIds \subseteq GivenIds

HooksInv == \A h \in hooks : HookOK(h)

\* While capture-event holds the lock, a window that runs and was there when
\* its hook fired is one of the windows it listed, unless the query failed.
CaptureInv ==
  job.cmd = "capture" =>
    /\ HookOK(job.hook)
    /\ job.hook.kind = "window-unlinked" /\ job.hook.win \in LiveWinIds =>
         job.windows = {} \/ job.hook.win \in {w.id : w \in job.windows}

ListingsInv ==
  job.cmd = "save" =>
    /\ job = [cmd |-> "save", ts |-> job.ts, todo |-> job.todo,
              sessions |-> job.sessions, windows |-> job.windows, panes |-> job.panes]
    /\ job.todo \subseteq Queries
    /\ IsFiniteSet(job.windows) /\ {w.id : w \in job.windows} \subseteq GivenIds
    /\ IsFiniteSet(job.panes) /\ {p.id : p \in job.panes} \subseteq GivenIds

\* A recorded id was given out and, if anything was listed, is not running.
RowInv(e) ==
  /\ e.kind = "snapshot" => WindowsOK(e.man.windows)
  /\ e.kind # "snapshot" =>
       /\ e.kind \in Kinds
       /\ e.kind = "window-unlinked" =>
            e.hook.win \in GivenIds /\ (e.post.windows = {} \/ e.hook.win \notin LiveWinIds)
       /\ e.kind = "pane-died" =>
            e.hook.pane \in GivenIds /\ (e.post.panes = {} \/ e.hook.pane \notin LivePaneIds)

GoneInv ==
  /\ ServerInv /\ HooksInv /\ CaptureInv /\ ListingsInv
  /\ \A e \in events : RowInv(e)

\* No pane or window that was given its id earlier comes to life.
NothingReturns ==
  /\ GivenIds \subseteq GivenIds'
  /\ LivePaneIds' \cap GivenIds \subseteq LivePaneIds
  /\ LiveWinIds' \cap GivenIds \subseteq LiveWinIds

NewIdsUpTo(m) == {NewIds(k) : k \in 1 .. m}

LEMMA IdsGrow ==
  ASSUME ServerInv, NEW m \in Nat, ids' = [server |-> ids.server, n |-> ids.n + m]
  PROVE  /\ GivenIds \subseteq GivenIds'
         /\ NewIdsUpTo(m) \subseteq GivenIds'
         /\ NewIdsUpTo(m) \cap GivenIds = {}
<1>1. ids'.server = ids.server /\ ids'.n = ids.n + m /\ ids.server \in Nat /\ ids.n \in Nat
  BY DEF ServerInv
<1>2. GivenIds \subseteq GivenIds'
  BY <1>1 DEF GivenIds
<1>3. ASSUME NEW k \in 1 .. m
      PROVE  NewIds(k) \in GivenIds' /\ NewIds(k) \notin GivenIds
  <2> DEFINE i == <<ids.server, ids.n + k>>
  <2>1. i \in Nat \X (Nat \ {0}) /\ i[1] = ids.server /\ i[2] = ids.n + k
    BY <1>1
  <2> HIDE DEF i
  <2>2. i \in GivenIds' /\ i \notin GivenIds
    BY <1>1, <2>1 DEF GivenIds
  <2> QED
    BY <2>2 DEF i, NewIds
<1> QED
  BY <1>2, <1>3 DEF NewIdsUpTo

LEMMA ServerStep ==
  ASSUME ServerInv, NEW m \in Nat, ids' = [server |-> ids.server, n |-> ids.n + m],
         IsFiniteSet(panes'),
         \A p \in panes' : /\ PaneRecord(p)
                           /\ p.id \in LivePaneIds \cup NewIdsUpTo(m)
                           /\ p.win \in LiveWinIds \cup NewIdsUpTo(m)
  PROVE  ServerInv' /\ NothingReturns
<1>1. /\ GivenIds \subseteq GivenIds'
      /\ NewIdsUpTo(m) \subseteq GivenIds'
      /\ NewIdsUpTo(m) \cap GivenIds = {}
  BY IdsGrow
<1>2. LivePaneIds' \subseteq LivePaneIds \cup NewIdsUpTo(m)
  BY DEF LivePaneIds
<1>3. LiveWinIds' \subseteq LiveWinIds \cup NewIdsUpTo(m)
  BY DEF LiveWinIds
<1>4. LivePaneIds \subseteq GivenIds /\ LiveWinIds \subseteq GivenIds
  BY DEF ServerInv
<1>5. LivePaneIds' \subseteq GivenIds' /\ LiveWinIds' \subseteq GivenIds'
  BY <1>1, <1>2, <1>3, <1>4
<1>6. NothingReturns
  BY <1>1, <1>2, <1>3 DEF NothingReturns
<1>7. ids' = [server |-> ids'.server, n |-> ids'.n] /\ ids'.server \in Nat /\ ids'.n \in Nat
  BY DEF ServerInv
<1> QED
  BY <1>5, <1>6, <1>7 DEF ServerInv

\* The end of a server, or of panes on it.
LEMMA DeathStep ==
  ASSUME ServerInv, panes' = {}, ids' = [server |-> ids.server + 1, n |-> 0]
  PROVE  ServerInv' /\ NothingReturns
<1>1. ids'.server = ids.server + 1 /\ ids'.n = 0 /\ ids.server \in Nat /\ ids.n \in Nat
  BY DEF ServerInv
<1>2. GivenIds \subseteq GivenIds'
  BY <1>1 DEF GivenIds
<1>3. LivePaneIds' = {} /\ LiveWinIds' = {}
  BY DEF LivePaneIds, LiveWinIds
<1>4. ids' = [server |-> ids'.server, n |-> ids'.n]
  BY <1>1
<1>5. IsFiniteSet(panes')
  BY FS_EmptySet
<1> QED
  BY <1>1, <1>2, <1>3, <1>4, <1>5 DEF ServerInv, NothingReturns

LEMMA SameIds ==
  ASSUME ServerInv, ids' = ids
  PROVE  ids' = [server |-> ids.server, n |-> ids.n + 0]
  BY DEF ServerInv

LEMMA ServerFrame ==
  ASSUME ServerInv, UNCHANGED <<panes, ids>>
  PROVE  ServerInv' /\ NothingReturns
  BY DEF ServerInv, NothingReturns, GivenIds, LivePaneIds, LiveWinIds, PaneRecord

LEMMA AddStep ==
  ASSUME ServerInv, NEW new, NEW m \in Nat, Add(new, m), IsFiniteSet(new),
         \A p \in new : /\ PaneRecord(p)
                        /\ p.id \in LivePaneIds \cup NewIdsUpTo(m)
                        /\ p.win \in LiveWinIds \cup NewIdsUpTo(m)
  PROVE  ServerInv' /\ NothingReturns
<1>1. panes' = panes \cup new /\ ids' = [ids EXCEPT !.n = @ + m]
  BY DEF Add
<1>2. ids' = [server |-> ids.server, n |-> ids.n + m]
  BY <1>1 DEF ServerInv
<1>3. IsFiniteSet(panes) /\ \A p \in panes : PaneRecord(p)
  BY DEF ServerInv
<1>4. IsFiniteSet(panes')
  BY <1>1, <1>3, FS_Union
<1>5. \A p \in panes : p.id \in LivePaneIds /\ p.win \in LiveWinIds
  BY DEF LivePaneIds, LiveWinIds
<1>6. \A p \in panes' : /\ PaneRecord(p)
                        /\ p.id \in LivePaneIds \cup NewIdsUpTo(m)
                        /\ p.win \in LiveWinIds \cup NewIdsUpTo(m)
  BY <1>1, <1>3, <1>5
<1> QED
  BY <1>2, <1>4, <1>6, ServerStep

\* Panes that stay themselves, whatever session and index they move to.
LEMMA MapStep ==
  ASSUME ServerInv, NEW f, f = [p \in panes |-> f[p]],
         \A p \in panes : PaneRecord(f[p]) /\ f[p].id = p.id /\ f[p].win = p.win,
         panes' = {f[p] : p \in panes}, ids' = ids
  PROVE  ServerInv' /\ NothingReturns
<1>1. IsFiniteSet(panes')
  BY FiniteImage DEF ServerInv
<1>2. \A p \in panes' : PaneRecord(p) /\ p.id \in LivePaneIds /\ p.win \in LiveWinIds
  BY DEF LivePaneIds, LiveWinIds
<1>3. ids' = [server |-> ids.server, n |-> ids.n + 0]
  BY SameIds
<1> QED
  BY <1>1, <1>2, <1>3, ServerStep

LEMMA CloseStep ==
  ASSUME ServerInv, NEW gone, NEW own, Close(gone, own)
  PROVE  ServerInv' /\ NothingReturns
<1>1. panes' = panes \ gone /\ (panes' # {} => ids' = ids)
      /\ (panes' = {} => ids' = [server |-> ids.server + 1, n |-> 0])
  BY DEF Close
<1>2. IsFiniteSet(panes')
  BY <1>1, FS_Subset DEF ServerInv
<1>3. \A p \in panes' : PaneRecord(p) /\ p.id \in LivePaneIds /\ p.win \in LiveWinIds
  BY <1>1 DEF ServerInv, LivePaneIds, LiveWinIds
<1>4. CASE panes' = {}
  BY <1>1, <1>4, DeathStep
<1>5. CASE panes' # {}
  <2>1. ids' = [server |-> ids.server, n |-> ids.n + 0]
    BY <1>1, <1>5, SameIds
  <2> QED
    BY <1>2, <1>3, <2>1, ServerStep
<1> QED
  BY <1>4, <1>5

LEMMA NewIdsIn ==
  ASSUME NEW m \in Nat, NEW k \in 1 .. m
  PROVE  NewIds(k) \in NewIdsUpTo(m)
  BY DEF NewIdsUpTo

LEMMA MovedPane ==
  ASSUME NEW p, PaneRecord(p), NEW a, NEW b, NEW c
  PROVE  [p EXCEPT !.sess = a, !.name = b, !.idx = c]
           = [id |-> p.id, win |-> p.win, sess |-> a, name |-> b, idx |-> c]
<1> DEFINE r1 == [p EXCEPT !.sess = a]
           r2 == [r1 EXCEPT !.name = b]
<1>1. r1 = [id |-> p.id, win |-> p.win, sess |-> a, name |-> p.name, idx |-> p.idx]
  BY DEF PaneRecord
<1> HIDE DEF r1
<1>2. r2 = [id |-> p.id, win |-> p.win, sess |-> a, name |-> b, idx |-> p.idx]
  BY <1>1
<1> HIDE DEF r2
<1>3. [r2 EXCEPT !.idx = c] = [id |-> p.id, win |-> p.win, sess |-> a, name |-> b, idx |-> c]
  BY <1>2
<1> QED
  BY <1>3 DEF r1, r2

LEMMA SplitStep ==
  ASSUME ServerInv, NEW p \in panes, Add({[p EXCEPT !.id = NewIds(1)]}, 1)
  PROVE  ServerInv' /\ NothingReturns
<1> DEFINE q == [p EXCEPT !.id = NewIds(1)]
<1>1. PaneRecord(p) /\ p.win \in LiveWinIds
  BY DEF ServerInv, LiveWinIds
<1>2. PaneRecord(q) /\ q.id = NewIds(1) /\ q.win = p.win
  BY <1>1 DEF PaneRecord
<1>3. Add({q}, 1)
  OBVIOUS
<1> HIDE DEF q
<1>4. q.id \in NewIdsUpTo(1)
  BY <1>2, NewIdsIn
<1>5. IsFiniteSet({q})
  BY FS_Singleton
<1> QED
  BY <1>1, <1>2, <1>3, <1>4, <1>5, AddStep

LEMMA CreateStep ==
  ASSUME ServerInv, NewSession \/ NewWindow \/ SplitWindow
  PROVE  ServerInv' /\ NothingReturns
<1>1. CASE NewSession
  <2>1. PICK name \in Name \ LiveNames :
          Add({[id |-> NewIds(3), win |-> NewIds(2), sess |-> NewIds(1), name |-> name, idx |-> 0]}, 3)
    BY <1>1 DEF NewSession
  <2> DEFINE q == [id |-> NewIds(3), win |-> NewIds(2), sess |-> NewIds(1), name |-> name, idx |-> 0]
  <2>2. PaneRecord(q) /\ q.id = NewIds(3) /\ q.win = NewIds(2)
    BY DEF PaneRecord
  <2>3. Add({q}, 3)
    BY <2>1
  <2> HIDE DEF q
  <2>4. q.id \in NewIdsUpTo(3) /\ q.win \in NewIdsUpTo(3)
    BY <2>2, NewIdsIn
  <2>5. IsFiniteSet({q})
    BY FS_Singleton
  <2> QED
    BY <2>2, <2>3, <2>4, <2>5, AddStep
<1>2. CASE NewWindow
  <2>1. PICK p \in panes :
          Add({[p EXCEPT !.id = NewIds(2), !.win = NewIds(1), !.idx = FreeIndex(p.name)]}, 2)
    BY <1>2 DEF NewWindow
  <2> DEFINE q == [p EXCEPT !.id = NewIds(2), !.win = NewIds(1), !.idx = FreeIndex(p.name)]
  <2>2. PaneRecord(p)
    BY DEF ServerInv
  <2>3. q = [id |-> NewIds(2), win |-> NewIds(1), sess |-> p.sess, name |-> p.name,
             idx |-> FreeIndex(p.name)]
    <3> DEFINE q1 == [p EXCEPT !.id = NewIds(2)]
               q2 == [q1 EXCEPT !.win = NewIds(1)]
    <3>1. q1 = [id |-> NewIds(2), win |-> p.win, sess |-> p.sess, name |-> p.name, idx |-> p.idx]
      BY <2>2 DEF PaneRecord
    <3> HIDE DEF q1
    <3>2. q2 = [id |-> NewIds(2), win |-> NewIds(1), sess |-> p.sess, name |-> p.name,
                idx |-> p.idx]
      BY <3>1
    <3> HIDE DEF q2
    <3>3. [q2 EXCEPT !.idx = FreeIndex(p.name)]
            = [id |-> NewIds(2), win |-> NewIds(1), sess |-> p.sess, name |-> p.name,
               idx |-> FreeIndex(p.name)]
      BY <3>2
    <3> QED
      BY <3>3 DEF q1, q2
  <2>4. Add({q}, 2)
    BY <2>1
  <2> HIDE DEF q
  <2>7. PaneRecord(q) /\ q.id = NewIds(2) /\ q.win = NewIds(1)
    BY <2>3 DEF PaneRecord
  <2>5. q.id \in NewIdsUpTo(2) /\ q.win \in NewIdsUpTo(2)
    BY <2>7, NewIdsIn
  <2>6. IsFiniteSet({q})
    BY FS_Singleton
  <2> QED
    BY <2>7, <2>4, <2>5, <2>6, AddStep
<1>3. CASE SplitWindow
  <2>1. PICK p \in panes : Add({[p EXCEPT !.id = NewIds(1)]}, 1)
    BY <1>3 DEF SplitWindow
  <2> QED
    BY <2>1, SplitStep
<1> QED
  BY <1>1, <1>2, <1>3

LEMMA RenameStep ==
  ASSUME ServerInv, Rename
  PROVE  ServerInv' /\ NothingReturns
<1>1. PICK old \in LiveNames, new \in Name \ LiveNames :
        panes' = {IF p.name = old THEN [p EXCEPT !.name = new] ELSE p : p \in panes}
  BY DEF Rename
<1> DEFINE f == [p \in panes |-> IF p.name = old THEN [p EXCEPT !.name = new] ELSE p]
<1>2. \A p \in panes : PaneRecord(p)
  BY DEF ServerInv
<1>3. \A p \in panes : PaneRecord(f[p]) /\ f[p].id = p.id /\ f[p].win = p.win
  BY <1>2 DEF PaneRecord
<1>4. panes' = {f[p] : p \in panes} /\ f = [p \in panes |-> f[p]] /\ ids' = ids
  BY <1>1 DEF Rename
<1> HIDE DEF f
<1> QED
  BY <1>3, <1>4, MapStep

LEMMA MoveStep ==
  ASSUME ServerInv, MoveWindow
  PROVE  ServerInv' /\ NothingReturns
<1>1. PICK p, q \in panes :
        panes' = (panes \ PanesOf(p.win)) \cup
                 {[r EXCEPT !.sess = q.sess, !.name = q.name, !.idx = FreeIndex(q.name)] :
                    r \in PanesOf(p.win)}
  BY DEF MoveWindow
<1> DEFINE moved(r) == [r EXCEPT !.sess = q.sess, !.name = q.name, !.idx = FreeIndex(q.name)]
           f == [r \in panes |-> IF r.win = p.win THEN moved(r) ELSE r]
<1>2. \A r \in panes : PaneRecord(r)
  BY DEF ServerInv
<1>3. \A r \in panes : moved(r) = [id |-> r.id, win |-> r.win, sess |-> q.sess, name |-> q.name,
                                  idx |-> FreeIndex(q.name)]
  BY <1>2, MovedPane
<1>4. panes' = (panes \ PanesOf(p.win)) \cup {moved(r) : r \in PanesOf(p.win)}
  BY <1>1
<1> HIDE DEF moved
<1>5. \A r \in panes : PaneRecord(f[r]) /\ f[r].id = r.id /\ f[r].win = r.win
  BY <1>2, <1>3 DEF PaneRecord
<1>6. panes' = {f[r] : r \in panes} /\ f = [r \in panes |-> f[r]]
  BY <1>4 DEF PanesOf
<1>7. ids' = ids
  BY DEF MoveWindow
<1> HIDE DEF f
<1> QED
  BY <1>5, <1>6, <1>7, MapStep

LEMMA UserStep ==
  ASSUME ServerInv, User
  PROVE  ServerInv' /\ NothingReturns
<1>1. CASE NewSession \/ NewWindow \/ SplitWindow
  BY <1>1, CreateStep
<1>2. CASE Rename
  BY <1>2, RenameStep
<1>3. CASE MoveWindow
  BY <1>3, MoveStep
<1>4. CASE PaneExits
  BY <1>4, CloseStep DEF PaneExits
<1>5. CASE KillPane
  BY <1>5, CloseStep DEF KillPane
<1>6. CASE KillWindow
  BY <1>6, CloseStep DEF KillWindow
<1>7. CASE KillSession
  BY <1>7, CloseStep DEF KillSession
<1>8. CASE ServerDies
  BY <1>8, DeathStep DEF ServerDies
<1> QED
  BY <1>1, <1>2, <1>3, <1>4, <1>5, <1>6, <1>7, <1>8 DEF User

LEMMA HookIsOK ==
  ASSUME ServerInv, NEW p \in panes, NEW kind \in Kinds, NEW what
  PROVE  HookOK(Hook(kind, p, what))
<1> DEFINE h == Hook(kind, p, what)
<1>1. p.id \in GivenIds /\ p.win \in GivenIds
  BY DEF ServerInv, LivePaneIds, LiveWinIds
<1>2. /\ h = [kind |-> h.kind, sess |-> h.sess, name |-> h.name, win |-> h.win,
              pane |-> h.pane, lost |-> h.lost]
      /\ h.kind = kind
      /\ h.win = IF kind = "session-closed" THEN NoId ELSE p.win
      /\ h.pane = IF kind = "pane-died" THEN p.id ELSE NoId
  BY DEF Hook
<1> HIDE DEF h
<1> QED
  BY <1>1, <1>2 DEF HookOK, h

LEMMA BareHookIsOK ==
  ASSUME ServerInv, NEW p \in panes
  PROVE  HookOK(BareHook(p))
<1> DEFINE h0 == Hook("pane-died", p, p.id)
           h1 == [h0 EXCEPT !.sess = NoId]
           h2 == [h1 EXCEPT !.name = NoName]
           h3 == [h2 EXCEPT !.win = NoId]
           h4 == [h3 EXCEPT !.pane = NoId]
           Shape(h) == h = [kind |-> "pane-died", sess |-> h.sess, name |-> h.name, win |-> h.win,
                            pane |-> h.pane, lost |-> h.lost]
<1>1. Shape(h0)
  BY DEF Hook
<1> HIDE DEF h0
<1>2. Shape(h1)
  BY <1>1
<1> HIDE DEF h1
<1>3. Shape(h2)
  BY <1>2
<1> HIDE DEF h2
<1>4. Shape(h3)
  BY <1>3
<1> HIDE DEF h3
<1>5. Shape(h4) /\ h4.pane = NoId
  BY <1>4
<1>6. BareHook(p) = h4
  BY DEF BareHook, h0, h1, h2, h3
<1> HIDE DEF h4
<1> QED
  BY <1>5, <1>6 DEF HookOK, Kinds

LEMMA CascadeIsOK ==
  ASSUME ServerInv, NEW gone \in SUBSET panes, NEW h \in Cascade(gone)
  PROVE  HookOK(h)
<1>1. \E p \in panes, kind \in Kinds : \E what : h = Hook(kind, p, what)
  BY DEF Cascade, Kinds
<1> QED
  BY <1>1, HookIsOK

LEMMA UserHooks ==
  ASSUME ServerInv, User, NEW h \in hooks' \ hooks
  PROVE  HookOK(h)
<1>1. ASSUME NEW gone \in SUBSET panes, NEW own, Close(gone, own), \A k \in own : HookOK(k)
      PROVE  HookOK(h)
  BY <1>1, CascadeIsOK DEF Close
<1>2. CASE PaneExits
  <2>1. PICK p \in panes : Close({p}, {Hook("pane-died", p, p.id)})
    BY <1>2 DEF PaneExits
  <2>2. HookOK(Hook("pane-died", p, p.id))
    BY HookIsOK DEF Kinds
  <2> QED
    BY <1>1, <2>1, <2>2
<1>3. CASE KillPane
  <2>1. PICK p \in panes : Close({p}, {BareHook(p)})
    BY <1>3 DEF KillPane
  <2> QED
    BY <1>1, <2>1, BareHookIsOK
<1>4. CASE KillWindow
  BY <1>1, <1>4 DEF KillWindow, PanesOf
<1>5. CASE KillSession
  <2>1. PICK p \in panes : Close({q \in panes : q.sess = p.sess}, {})
    BY <1>5 DEF KillSession
  <2> QED
    BY <1>1, <2>1
<1>6. CASE MoveWindow
  <2>1. \E p \in panes, kind \in Kinds : \E what : h = Hook(kind, p, what)
    BY <1>6 DEF MoveWindow, Kinds
  <2> QED
    BY <2>1, HookIsOK
<1>7. CASE UNCHANGED hooks
  BY <1>7
<1> QED
  BY <1>2, <1>3, <1>4, <1>5, <1>6, <1>7
  DEF User, NewSession, NewWindow, SplitWindow, Rename, ServerDies

\* Whatever happens to the server, what is known about ids stays true.
LEMMA AfterServerStep ==
  ASSUME GoneInv, ServerInv', NothingReturns, UNCHANGED job, events' \subseteq events,
         \A h \in hooks' \ hooks : HookOK(h)
  PROVE  GoneInv'
<1>1. \A h : HookOK(h) => HookOK(h)'
  BY DEF HookOK, NothingReturns
<1>2. HooksInv'
  BY <1>1 DEF GoneInv, HooksInv
<1>3. CaptureInv'
  BY <1>1 DEF GoneInv, CaptureInv, HookOK, NoId, NothingReturns
<1>4. ListingsInv'
  BY DEF GoneInv, ListingsInv, NothingReturns
<1>5. ASSUME NEW e \in events'
      PROVE  RowInv(e)'
  <2>1. RowInv(e)
    BY <1>5 DEF GoneInv
  <2>2. e.kind = "snapshot" => WindowsOK(e.man.windows)'
    BY <2>1 DEF RowInv, WindowsOK, NothingReturns
  <2> QED
    BY <2>1, <2>2 DEF RowInv, NothingReturns
<1> QED
  BY <1>2, <1>3, <1>4, <1>5 DEF GoneInv

\* Steps that leave the server alone.
LEMMA AfterProgramStep ==
  ASSUME GoneInv, UNCHANGED <<panes, ids>>, hooks' \subseteq hooks,
         \A e \in events' \ events : RowInv(e), CaptureInv', ListingsInv'
  PROVE  GoneInv'
<1>1. ServerInv' /\ GivenIds' = GivenIds /\ LiveWinIds' = LiveWinIds /\ LivePaneIds' = LivePaneIds
  BY ServerFrame DEF GoneInv, GivenIds, LiveWinIds, LivePaneIds
<1>2. \A h : HookOK(h) => HookOK(h)'
  BY <1>1 DEF HookOK
<1>3. \A e : RowInv(e) => RowInv(e)'
  BY <1>1 DEF RowInv, WindowsOK
<1> QED
  BY <1>1, <1>2, <1>3 DEF GoneInv, HooksInv

LEMMA CaptureStartGone ==
  ASSUME GoneInv, NEW h \in hooks, CaptureStart(h)
  PROVE  GoneInv'
<1>1. PICK got \in {WindowList, {}} : job' = [cmd |-> "capture", hook |-> h, windows |-> got]
  BY DEF CaptureStart
<1>2. /\ job'.cmd = "capture" /\ job'.hook = h /\ (job'.windows = {} \/ job'.windows = WindowList)
      /\ hooks' = hooks \ {h} /\ UNCHANGED <<panes, ids, events>>
  BY <1>1 DEF CaptureStart, tmux, db
<1>3. HookOK(h) /\ HookOK(h)'
  BY <1>2 DEF GoneInv, HooksInv, HookOK, GivenIds
<1>4. ASSUME NEW p \in panes
      PROVE  p.win \in {w.id : w \in WindowList}
  <2> DEFINE w == [id |-> p.win, session |-> p.name, sess |-> p.sess, index |-> p.idx]
             v == [id |-> w.id, session |-> w.session]
  <2>1. w \in Windows
    BY DEF Windows
  <2>2. v \in WindowList
    BY <2>1 DEF WindowList
  <2>3. v.id = p.win
    OBVIOUS
  <2> QED
    BY <2>2, <2>3
<1>5. LiveWinIds' \subseteq {w.id : w \in WindowList}
  BY <1>2, <1>4 DEF LiveWinIds
<1>6. CaptureInv' /\ ListingsInv'
  BY <1>2, <1>3, <1>5 DEF CaptureInv, ListingsInv
<1> QED
  BY <1>2, <1>6, AfterProgramStep

\* What Capture makes of its hook names something that is gone: the hook's
\* own window or pane, unless that is listed, or the one pane that is missing;
\* all that if its queries listed anything.
LEMMA RecordedIsGone ==
  ASSUME GoneInv, job.cmd = "capture", NEW now, NEW got \in {PaneList, {}},
         NEW h \in Recorded(events, job.hook, [windows |-> job.windows, panes |-> got], now)
  PROVE  /\ h.kind \in Kinds
         /\ h.kind = "window-unlinked" =>
              h.win \in GivenIds /\ (job.windows = {} \/ h.win \notin LiveWinIds)
         /\ h.kind = "pane-died" =>
              h.pane \in GivenIds /\ (got = {} \/ h.pane \notin LivePaneIds)
<1> DEFINE post == [windows |-> job.windows, panes |-> got]
<1>1. post.windows = job.windows /\ post.panes = got /\ (got = {} \/ got = LivePaneIds)
  BY DEF PaneList, LivePaneIds
<1>2. h \in Completed(events, job.hook, post) /\ ~EntityStillLive(h, post)
  BY DEF Recorded
<1> HIDE DEF post
<1>3. HookOK(job.hook)
  BY DEF GoneInv, CaptureInv
<1>4. \A i \in GivenIds : Known(i) /\ Shown(i) \in Nat
  BY DEF GivenIds, Known, Shown
<1>5. CASE job.hook.kind = "pane-died" /\ ~Known(job.hook.pane)
  <2>1. PICK m \in KilledPanes(events, post) : h = [job.hook EXCEPT !.win = m[1], !.pane = m[2]]
    BY <1>2, <1>5 DEF Completed
  <2>2. PICK w \in UNION {s.man.windows : s \in LatestSnapshot(events)} :
          \E q \in w.panes : m = <<w.id, q>> /\ Shown(q) \notin LivePanes(post)
    BY <2>1 DEF KilledPanes
  <2>3. PICK q \in w.panes : m = <<w.id, q>> /\ Shown(q) \notin LivePanes(post)
    BY <2>2
  <2>4. PICK s \in events : s.kind = "snapshot" /\ w \in s.man.windows
    BY DEF LatestSnapshot, First, Snapshots
  <2>5. q \in GivenIds
    BY <2>3, <2>4 DEF GoneInv, RowInv, WindowsOK
  <2>6. got = {} \/ q \notin LivePaneIds
    BY <1>1, <2>3 DEF LivePanes, ShownIn
  <2>7. h.kind = "pane-died" /\ h.pane = q
    <3> DEFINE k == [job.hook EXCEPT !.win = m[1]]
    <3>1. k = [kind |-> job.hook.kind, sess |-> job.hook.sess, name |-> job.hook.name, win |-> m[1],
               pane |-> job.hook.pane, lost |-> job.hook.lost]
      BY <1>3 DEF HookOK
    <3>2. h = [k EXCEPT !.pane = m[2]]
      BY <2>1
    <3> HIDE DEF k
    <3> QED
      BY <1>5, <2>3, <3>1, <3>2
  <2> QED
    BY <2>5, <2>6, <2>7 DEF Kinds
<1>6. CASE ~(job.hook.kind = "pane-died" /\ ~Known(job.hook.pane))
  <2>1. h = job.hook
    BY <1>2, <1>6 DEF Completed
  <2>2. CASE h.kind = "window-unlinked"
    <3>1. h.win \in GivenIds
      BY <1>3, <2>1, <2>2 DEF HookOK
    <3>2. Shown(h.win) \notin LiveWindows(post)
      BY <1>2, <1>4, <2>2, <3>1 DEF EntityStillLive
    <3>3. h.win \notin {w.id : w \in job.windows}
      BY <1>1, <3>2 DEF LiveWindows, ShownIn
    <3>4. job.windows = {} \/ h.win \notin LiveWinIds
      BY <2>1, <2>2, <3>3 DEF GoneInv, CaptureInv
    <3> QED
      BY <2>2, <3>1, <3>4 DEF Kinds
  <2>3. CASE h.kind = "pane-died"
    <3>1. h.pane \in GivenIds
      BY <1>3, <1>6, <2>1, <2>3 DEF HookOK, NoId, Known, Shown
    <3>2. Shown(h.pane) \notin LivePanes(post)
      BY <1>2, <1>4, <2>3, <3>1 DEF EntityStillLive
    <3>3. got = {} \/ h.pane \notin LivePaneIds
      BY <1>1, <3>2 DEF LivePanes, ShownIn
    <3> QED
      BY <2>3, <3>1, <3>3 DEF Kinds
  <2> QED
    BY <1>3, <2>1, <2>2, <2>3 DEF HookOK, Kinds
<1> QED
  BY <1>5, <1>6

LEMMA CaptureEndGone ==
  ASSUME GoneInv, CaptureEnd
  PROVE  GoneInv'
<1>1. /\ job.cmd = "capture" /\ job' = Idle /\ UNCHANGED <<panes, ids, hooks>>
      /\ \E got \in {PaneList, {}} : Record(job.hook, [windows |-> job.windows, panes |-> got])
  BY DEF CaptureEnd, tmux
<1>2. ASSUME NEW e \in events' \ events
      PROVE  RowInv(e)
  <2>1. PICK got \in {PaneList, {}} : Record(job.hook, [windows |-> job.windows, panes |-> got])
    BY <1>1
  <2> DEFINE post == [windows |-> job.windows, panes |-> got]
  <2>2. PICK h \in Recorded(events, job.hook, post, clock) : e = CloseRow(h, post)
    BY <1>2, <2>1 DEF Record, Insert
  <2>3. e.kind = h.kind /\ e.hook = h /\ e.post.windows = job.windows /\ e.post.panes = got
    BY <2>2 DEF CloseRow
  <2>4. /\ h.kind \in Kinds
        /\ h.kind = "window-unlinked" =>
             h.win \in GivenIds /\ (job.windows = {} \/ h.win \notin LiveWinIds)
        /\ h.kind = "pane-died" =>
             h.pane \in GivenIds /\ (got = {} \/ h.pane \notin LivePaneIds)
    BY <1>1, <2>2, RecordedIsGone
  <2> QED
    BY <2>3, <2>4 DEF RowInv, Kinds
<1>3. CaptureInv' /\ ListingsInv'
  BY <1>1 DEF CaptureInv, ListingsInv, Idle
<1> QED
  BY <1>1, <1>2, <1>3, AfterProgramStep

LEMMA SaveListGone ==
  ASSUME GoneInv, SaveList
  PROVE  GoneInv'
<1>1. PICK q \in job.todo : job' = [job EXCEPT !.todo = @ \ {q}, ![q] = Listing(q)]
  BY DEF SaveList
<1>2. /\ job.cmd = "save" /\ UNCHANGED <<panes, ids, hooks, events>>
      /\ job = [cmd |-> "save", ts |-> job.ts, todo |-> job.todo,
                sessions |-> job.sessions, windows |-> job.windows, panes |-> job.panes]
      /\ job.todo \subseteq Queries
  BY DEF SaveList, tmux, db, GoneInv, ListingsInv
<1> DEFINE j == [job EXCEPT !.todo = @ \ {q}]
<1>3. j = [cmd |-> "save", ts |-> job.ts, todo |-> job.todo \ {q},
           sessions |-> job.sessions, windows |-> job.windows, panes |-> job.panes]
  BY <1>2
<1>4. job' = [j EXCEPT ![q] = Listing(q)] /\ q \in {"sessions", "windows", "panes"}
  BY <1>1, <1>2 DEF Queries
<1> HIDE DEF j
<1>5. /\ job' = [cmd |-> "save", ts |-> job'.ts, todo |-> job'.todo,
                 sessions |-> job'.sessions, windows |-> job'.windows, panes |-> job'.panes]
      /\ job'.todo = job.todo \ {q}
      /\ job'.windows = IF q = "windows" THEN Listing(q) ELSE job.windows
      /\ job'.panes = IF q = "panes" THEN Listing(q) ELSE job.panes
  BY <1>3, <1>4
<1>6. IsFiniteSet(panes) /\ LivePaneIds \subseteq GivenIds /\ LiveWinIds \subseteq GivenIds
  BY DEF GoneInv, ServerInv
<1>7. IsFiniteSet(Listing("windows")) /\ {w.id : w \in Listing("windows")} \subseteq GivenIds
  <2> DEFINE f == [p \in panes |-> [session |-> p.name, index |-> p.idx, id |-> p.win]]
  <2> DEFINE g == [p \in panes |-> [id |-> p.win, session |-> p.name, sess |-> p.sess, index |-> p.idx]]
             seen(w) == [session |-> w.session, index |-> w.index, id |-> w.id]
  <2>1. Windows = {g[p] : p \in panes} /\ Listing("windows") = {seen(w) : w \in Windows}
    BY DEF Listing, Windows
  <2>2. \A p \in panes : seen(g[p]) = f[p]
    OBVIOUS
  <2> HIDE DEF g, seen
  <2>3. Listing("windows") = {f[p] : p \in panes}
    <3> HIDE DEF f
    <3>1. {seen(w) : w \in {g[p] : p \in panes}} = {seen(g[p]) : p \in panes}
      OBVIOUS
    <3> QED
      BY <2>1, <2>2, <3>1
  <2>4. \A p \in panes : f[p].id = p.win
    OBVIOUS
  <2>5. f = [p \in panes |-> f[p]]
    OBVIOUS
  <2> HIDE DEF f
  <2>6. IsFiniteSet(Listing("windows"))
    BY <1>6, <2>3, <2>5, FiniteImage
  <2> QED
    BY <1>6, <2>3, <2>4, <2>6 DEF LiveWinIds
<1>8. IsFiniteSet(Listing("panes")) /\ {p.id : p \in Listing("panes")} \subseteq GivenIds
  <2> DEFINE f == [p \in panes |-> [session |-> p.name, index |-> p.idx, id |-> p.id]]
  <2>1. Listing("panes") = {f[p] : p \in panes}
    BY DEF Listing
  <2>2. \A p \in panes : f[p].id = p.id
    OBVIOUS
  <2>3. f = [p \in panes |-> f[p]]
    OBVIOUS
  <2> HIDE DEF f
  <2>4. IsFiniteSet(Listing("panes"))
    BY <1>6, <2>1, <2>3, FiniteImage
  <2> QED
    BY <1>6, <2>1, <2>2, <2>4 DEF LivePaneIds
<1>9. GivenIds' = GivenIds
  BY <1>2 DEF GivenIds
<1>10. CaptureInv' /\ ListingsInv'
  BY <1>2, <1>5, <1>7, <1>8, <1>9 DEF GoneInv, CaptureInv, ListingsInv
<1> QED
  BY <1>2, <1>10, AfterProgramStep

LEMMA ManifestWindows ==
  ASSUME GoneInv, job.cmd = "save"
  PROVE  WindowsOK(Manifest.windows)
<1> DEFINE names == {s.name : s \in job.sessions}
           kept == {v \in job.windows : v.session \in names}
           here(w) == {q \in job.panes : q.session = w.session /\ q.index = w.index}
           f == [w \in kept |-> [session |-> w.session, index |-> w.index, id |-> w.id,
                                 panes |-> {p.id : p \in here(w)}]]
<1>1. Manifest.windows = {f[w] : w \in kept}
  BY DEF Manifest
<1>2. /\ IsFiniteSet(job.windows) /\ {w.id : w \in job.windows} \subseteq GivenIds
      /\ IsFiniteSet(job.panes) /\ {p.id : p \in job.panes} \subseteq GivenIds
  BY DEF GoneInv, ListingsInv
<1>3. IsFiniteSet(kept)
  BY <1>2, FS_Subset
<1>4. IsFiniteSet(Manifest.windows)
  <2>1. f = [w \in kept |-> f[w]]
    OBVIOUS
  <2> HIDE DEF f, kept
  <2> QED
    BY <1>1, <1>3, <2>1, FiniteImage
<1>5. ASSUME NEW w \in kept
      PROVE  f[w].id \in GivenIds /\ IsFiniteSet(f[w].panes) /\ f[w].panes \subseteq GivenIds
  <2> DEFINE g == [p \in here(w) |-> p.id]
  <2>1. f[w].id = w.id /\ f[w].panes = {g[p] : p \in here(w)} /\ g = [p \in here(w) |-> g[p]]
    OBVIOUS
  <2>2. IsFiniteSet(here(w)) /\ here(w) \subseteq job.panes
    BY <1>2, FS_Subset
  <2>3. \A p \in here(w) : g[p] = p.id
    OBVIOUS
  <2>4. w \in job.windows
    OBVIOUS
  <2> HIDE DEF f, g, here, kept
  <2>5. IsFiniteSet({g[p] : p \in here(w)})
    BY <2>1, <2>2, FiniteImage
  <2> QED
    BY <1>2, <2>1, <2>2, <2>3, <2>4, <2>5
<1> HIDE DEF f, kept
<1> QED
  BY <1>1, <1>4, <1>5 DEF WindowsOK

LEMMA SaveInsertGone ==
  ASSUME GoneInv, SaveInsert
  PROVE  GoneInv'
<1> DEFINE row == [id |-> nextId, ts |-> job.ts, kind |-> "snapshot", man |-> Manifest]
<1>1. job.cmd = "save" /\ job' = [cmd |-> "tail"] /\ UNCHANGED <<panes, ids, hooks>>
  BY DEF SaveInsert, tmux
<1>2. events' = events \/ events' = events \cup {row}
  BY DEF SaveInsert, Insert, db
<1>3. row.kind = "snapshot" /\ row.man = Manifest
  OBVIOUS
<1> HIDE DEF row
<1>4. RowInv(row)
  BY <1>1, <1>3, ManifestWindows DEF RowInv
<1>5. CaptureInv' /\ ListingsInv'
  BY <1>1 DEF CaptureInv, ListingsInv
<1> QED
  BY <1>1, <1>2, <1>4, <1>5, AfterProgramStep

LEMMA RankBounds ==
  ASSUME NEW S, IsFiniteSet(S), NEW i \in S, Shown(i) \in Int
  PROVE  Rank(i, S) \in 1 .. Cardinality(S)
<1> DEFINE T == {j \in S : Shown(j) <= Shown(i)}
<1>1. T \subseteq S /\ i \in T
  OBVIOUS
<1> HIDE DEF T
<1>2. IsFiniteSet(T) /\ Cardinality(T) <= Cardinality(S)
  BY <1>1, FS_Subset
<1>3. Cardinality(T) \in Nat /\ Cardinality(S) \in Nat /\ Cardinality(T) # 0
  BY <1>1, <1>2, FS_CardinalityType, FS_EmptySet
<1>4. Rank(i, S) = Cardinality(T)
  BY DEF Rank, T
<1> QED
  BY <1>2, <1>3, <1>4

\* Rebuilt windows and panes are numbered on from the last id.
LEMMA RebuiltStep ==
  ASSUME ServerInv, NEW ws, WindowsOK(ws), NEW name, NEW insert, Rebuilt(ws, name, insert)
  PROVE  ServerInv' /\ NothingReturns
<1> DEFINE all == UNION {w.panes : w \in ws}
           winIds == {v.id : v \in ws}
           here == {q \in panes : q.name = name}
           used == {q.idx : q \in here}
           sess == IF here = {} THEN NewIds(1) ELSE CHOOSE s \in {q.sess : q \in here} : TRUE
           pushed(q) == q \in here /\ \E w \in ws : w.index <= q.idx /\ w.index .. q.idx \subseteq used
           new(w, p) ==
             [id |-> NewIds(1 + Cardinality(ws) + Rank(p, all)), win |-> NewIds(1 + Rank(w.id, winIds)),
              sess |-> sess, name |-> name, idx |-> w.index]
           f == [q \in panes |-> IF pushed(q) THEN [q EXCEPT !.idx = @ + 1] ELSE q]
           g == [w \in ws |-> {new(w, p) : p \in w.panes}]
           m == 1 + Cardinality(ws) + Cardinality(all)
<1>1. panes' = {f[q] : q \in panes} \cup UNION {g[w] : w \in ws}
  BY DEF Rebuilt
<1>2. /\ ids' = [ids EXCEPT !.n = @ + 1 + Cardinality(ws) + Cardinality(all)]
      /\ ids = [server |-> ids.server, n |-> ids.n] /\ ids.n \in Nat
  BY DEF Rebuilt, ServerInv
<1>3. /\ IsFiniteSet(ws)
      /\ \A w \in ws : w.id \in GivenIds /\ IsFiniteSet(w.panes) /\ w.panes \subseteq GivenIds
  BY DEF WindowsOK
<1>4. f = [q \in panes |-> f[q]] /\ g = [w \in ws |-> g[w]] /\ winIds = {v.id : v \in ws}
  OBVIOUS
<1>5. \A q \in panes : PaneRecord(f[q]) /\ f[q].id = q.id /\ f[q].win = q.win
  <2>1. \A q \in panes : PaneRecord(q)
    BY DEF ServerInv
  <2> HIDE DEF pushed
  <2> QED
    BY <2>1 DEF PaneRecord
<1>6. \A w \in ws : g[w] = {new(w, p) : p \in w.panes}
  OBVIOUS
<1>7. \A w, p : /\ PaneRecord(new(w, p))
               /\ new(w, p).id = NewIds(1 + Cardinality(ws) + Rank(p, all))
               /\ new(w, p).win = NewIds(1 + Rank(w.id, winIds))
  BY DEF PaneRecord
<1> HIDE DEF new, f, g, sess, pushed, used, here
<1>8. IsFiniteSet(winIds) /\ IsFiniteSet(all)
  <2> DEFINE h1 == [w \in ws |-> w.id]
             h2 == [w \in ws |-> w.panes]
  <2>1. winIds = {h1[w] : w \in ws} /\ {w.panes : w \in ws} = {h2[w] : w \in ws}
    OBVIOUS
  <2>2. h1 = [w \in ws |-> h1[w]] /\ h2 = [w \in ws |-> h2[w]]
    OBVIOUS
  <2> HIDE DEF h1, h2
  <2>3. IsFiniteSet({h1[w] : w \in ws})
    BY <1>3, <2>2, FiniteImage
  <2>4. IsFiniteSet({h2[w] : w \in ws})
    BY <1>3, <2>2, FiniteImage
  <2>5. IsFiniteSet(all)
    BY <1>3, <2>1, <2>4, FS_UNION
  <2> QED
    BY <2>1, <2>3, <2>5
<1>9. Cardinality(ws) \in Nat /\ Cardinality(all) \in Nat /\ Cardinality(winIds) \in Nat
      /\ Cardinality(winIds) <= Cardinality(ws)
  <2> DEFINE h1 == [w \in ws |-> w.id]
  <2>1. h1 \in Surjection(ws, winIds)
    BY DEF Surjection
  <2> HIDE DEF h1
  <2> QED
    BY <1>3, <1>8, <2>1, FS_Surjection, FS_CardinalityType
<1>10. m \in Nat /\ ids' = [server |-> ids.server, n |-> ids.n + m]
  <2> DEFINE a == Cardinality(ws)
             b == Cardinality(all)
  <2> HIDE DEF a, b, all
  <2>1. a \in Nat /\ b \in Nat
    BY <1>9 DEF a, b
  <2>2. ids' = [ids EXCEPT !.n = @ + 1 + a + b] /\ m = 1 + a + b
    BY <1>2 DEF a, b
  <2>3. ids' = [server |-> ids.server, n |-> ids.n + 1 + a + b]
    BY <1>2, <2>2
  <2>4. ids.n + 1 + a + b = ids.n + m /\ m \in Nat
    BY <1>2, <2>1, <2>2
  <2> HIDE DEF m
  <2> QED
    BY <2>3, <2>4
<1>11. ASSUME NEW w \in ws, NEW p \in w.panes
       PROVE  /\ PaneRecord(new(w, p))
              /\ new(w, p).id \in NewIdsUpTo(m) /\ new(w, p).win \in NewIdsUpTo(m)
  <2>1. p \in all /\ w.id \in winIds /\ Shown(p) \in Int /\ Shown(w.id) \in Int
    BY <1>3 DEF GivenIds, Shown
  <2>2. Rank(p, all) \in 1 .. Cardinality(all) /\ Rank(w.id, winIds) \in 1 .. Cardinality(winIds)
    BY <1>8, <2>1, RankBounds
  <2>3. 1 + Cardinality(ws) + Rank(p, all) \in 1 .. m /\ 1 + Rank(w.id, winIds) \in 1 .. m
    BY <1>9, <2>2
  <2> HIDE DEF m, all, winIds
  <2> QED
    BY <1>7, <1>10, <2>3, NewIdsIn
<1>12. IsFiniteSet(panes')
  <2>1. IsFiniteSet({f[q] : q \in panes})
    BY <1>4, FiniteImage DEF ServerInv
  <2>2. IsFiniteSet({g[w] : w \in ws})
    BY <1>3, <1>4, FiniteImage
  <2>3. ASSUME NEW w \in ws
        PROVE  IsFiniteSet(g[w])
    <3> DEFINE h == [p \in w.panes |-> new(w, p)]
    <3>1. g[w] = {h[p] : p \in w.panes} /\ h = [p \in w.panes |-> h[p]]
      BY <1>6
    <3> HIDE DEF h
    <3> QED
      BY <1>3, <3>1, FiniteImage
  <2>4. IsFiniteSet(UNION {g[w] : w \in ws})
    BY <2>2, <2>3, FS_UNION
  <2> QED
    BY <1>1, <2>1, <2>4, FS_Union
<1>13. \A p \in panes' : /\ PaneRecord(p)
                         /\ p.id \in LivePaneIds \cup NewIdsUpTo(m)
                         /\ p.win \in LiveWinIds \cup NewIdsUpTo(m)
  <2> HIDE DEF m
  <2>1. \A q \in panes : q.id \in LivePaneIds /\ q.win \in LiveWinIds
    BY DEF LivePaneIds, LiveWinIds
  <2> QED
    BY <1>1, <1>5, <1>6, <1>11, <2>1
<1> HIDE DEF m
<1> QED
  BY <1>10, <1>12, <1>13, ServerStep

\* An item's windows are windows of the manifest it was found in.
LEMMA ItemWindows ==
  ASSUME GoneInv, NEW e \in events, e.kind \in Kinds, NEW i \in Resolve(events, e)
  PROVE  WindowsOK(i.windows)
<1>1. PICK s \in LatestSnapshotBefore(events, e.ts) : i \in FindClosed(s.man, e)
  BY DEF Resolve
<1>2. WindowsOK(s.man.windows)
  BY <1>1 DEF LatestSnapshotBefore, First, Snapshots, GoneInv, RowInv
<1>3. i.windows \subseteq s.man.windows
  <2>1. CASE e.kind = "session-closed"
    <3>1. i \in FindClosedSession(s.man, e)
      BY <1>1, <2>1 DEF FindClosed
    <3>2. PICK c : i = Item(c.id, c.name, {w \in s.man.windows : w.session = c.name})
      BY <3>1, Zenon DEF FindClosedSession
    <3> QED
      BY <3>2 DEF Item
  <2>2. CASE e.kind = "window-unlinked"
    <3>1. i \in FindClosedWindow(s.man, e)
      BY <1>1, <2>2 DEF FindClosed
    <3> QED
      BY <3>1 DEF FindClosedWindow, Item
  <2>3. CASE e.kind = "pane-died"
    <3>1. i \in FindClosedPane(s.man, e)
      BY <1>1, <2>3 DEF FindClosed
    <3>2. PICK w \in s.man.windows : \E p : i = Item(p, w.session, {w})
      BY <3>1 DEF FindClosedPane
    <3> QED
      BY <3>2 DEF Item
  <2> QED
    BY <2>1, <2>2, <2>3 DEF Kinds
<1> QED
  BY <1>2, <1>3, FS_Subset DEF WindowsOK

LEMMA RestoredStep ==
  ASSUME ServerInv, NEW e, NEW i, WindowsOK(i.windows), NEW ws \in SUBSET i.windows,
         Restored(e, i, ws)
  PROVE  ServerInv' /\ NothingReturns
<1>1. \/ \E p \in panes : Add({[p EXCEPT !.id = NewIds(1)]}, 1)
      \/ Rebuilt({w \in ws : w.panes # {}}, i.session, e.kind # "session-closed")
  BY DEF Restored
<1>2. CASE \E p \in panes : Add({[p EXCEPT !.id = NewIds(1)]}, 1)
  BY <1>2, SplitStep
<1>3. CASE Rebuilt({w \in ws : w.panes # {}}, i.session, e.kind # "session-closed")
  <2> DEFINE full == {w \in ws : w.panes # {}}
  <2>1. Rebuilt(full, i.session, e.kind # "session-closed")
    BY <1>3
  <2>2. WindowsOK(full)
    BY FS_Subset DEF WindowsOK
  <2> HIDE DEF full
  <2> QED
    BY <2>1, <2>2, RebuiltStep
<1> QED
  BY <1>1, <1>2, <1>3

LEMMA UndoGone ==
  ASSUME GoneInv, NEW s \in Contexts, Undo(s)
  PROVE  GoneInv'
<1>1. ServerInv /\ UNCHANGED <<hooks, job>>
  BY DEF Undo, GoneInv
<1>2. CASE UndoDiscard(s)
  <2>1. events' \subseteq events /\ UNCHANGED <<panes, ids>>
    BY <1>2 DEF UndoDiscard
  <2> QED
    BY <1>1, <2>1, ServerFrame, AfterServerStep
<1>3. CASE UndoRestore(s)
  <2>1. PICK e \in UndoTarget(events, s) : \E i \in Resolve(events, e) :
          /\ (\E ws \in SUBSET i.windows : Restored(e, i, ws)) \/ UNCHANGED <<panes, ids>>
          /\ events' = events \ {e} \/ UNCHANGED events
    BY <1>3 DEF UndoRestore
  <2>2. PICK i \in Resolve(events, e) :
          (\E ws \in SUBSET i.windows : Restored(e, i, ws)) \/ UNCHANGED <<panes, ids>>
    BY <2>1
  <2>3. e \in events /\ e.kind \in Kinds
    BY DEF UndoTarget, Best, Fallback, First, Scan, Newest, Closes, GoneInv, RowInv
  <2>4. ServerInv' /\ NothingReturns
    BY <1>1, <2>2, <2>3, ItemWindows, RestoredStep, ServerFrame
  <2>5. events' \subseteq events
    BY <2>1
  <2> QED
    BY <1>1, <2>4, <2>5, AfterServerStep
<1> QED
  BY <1>2, <1>3 DEF Undo

LEMMA GoneInit == Init => GoneInv
<1> SUFFICES ASSUME Init PROVE GoneInv
  OBVIOUS
<1>1. ids = [server |-> 1, n |-> 0] /\ panes = {} /\ hooks = {} /\ events = {} /\ job.cmd = "idle"
  BY DEF Init, Idle
<1>2. ServerInv
  BY <1>1, FS_EmptySet DEF ServerInv, LivePaneIds, LiveWinIds
<1> QED
  BY <1>1, <1>2 DEF GoneInv, HooksInv, CaptureInv, ListingsInv

LEMMA GoneNext ==
  ASSUME GoneInv, [Next]_vars
  PROVE  GoneInv'
<1>1. CASE User
  <2>1. UNCHANGED <<job, events>>
    BY <1>1
    DEF User, NewSession, NewWindow, SplitWindow, Rename, MoveWindow, PaneExits, KillPane,
        KillWindow, KillSession, ServerDies, Rest, db
  <2> QED
    BY <1>1, <2>1, UserStep, UserHooks, AfterServerStep DEF GoneInv
<1>2. ASSUME UNCHANGED <<panes, ids, job>>, events' \subseteq events, hooks' \subseteq hooks
      PROVE  GoneInv'
  BY <1>2, ServerFrame, AfterServerStep DEF GoneInv
<1>3. ASSUME UNCHANGED <<panes, ids>>, events' \subseteq events, hooks' \subseteq hooks,
             job' = Idle \/ job'.cmd = "sweep"
      PROVE  GoneInv'
  <2>1. CaptureInv' /\ ListingsInv'
    BY <1>3 DEF CaptureInv, ListingsInv, Idle
  <2> QED
    BY <1>3, <2>1, AfterProgramStep
<1>4. CASE Tick
  BY <1>2, <1>4 DEF Tick, tmux, db
<1>5. ASSUME NEW h \in hooks, CaptureStart(h)
      PROVE  GoneInv'
  BY <1>5, CaptureStartGone
<1>6. CASE CaptureEnd
  BY <1>6, CaptureEndGone
<1>7. CASE SaveStart
  <2>1. /\ job' = [cmd |-> "save", ts |-> clock, todo |-> Queries,
                   sessions |-> {}, windows |-> {}, panes |-> {}]
        /\ UNCHANGED <<panes, ids, hooks, events>>
    BY <1>7 DEF SaveStart, tmux, db
  <2>2. CaptureInv' /\ ListingsInv'
    BY <2>1, FS_EmptySet DEF CaptureInv, ListingsInv
  <2> QED
    BY <2>1, <2>2, AfterProgramStep
<1>8. CASE SaveList
  BY <1>8, SaveListGone
<1>9. CASE SaveInsert
  BY <1>9, SaveInsertGone
<1>10. CASE SavePrune \/ SaveSweep
  <2>1. events' \subseteq events
    BY <1>10, PruneSnapshotsShrinks, PruneUnresolvableShrinks DEF SavePrune, SaveSweep
  <2>2. UNCHANGED <<panes, ids, hooks>> /\ (job' = Idle \/ job'.cmd = "sweep")
    BY <1>10 DEF SavePrune, SaveSweep, tmux
  <2> QED
    BY <1>3, <2>1, <2>2
<1>11. CASE Prune
  <2>1. PICK E \in PruneSnapshots(events, Keep, clock) : events' \in PruneCloses(E, KeepCloses)
    BY <1>11 DEF Prune
  <2>2. events' \subseteq events
    BY <2>1, PruneSnapshotsShrinks, PruneClosesShrinks
  <2> QED
    BY <1>2, <1>11, <2>2 DEF Prune, tmux
<1>12. CASE Abort
  BY <1>2, <1>3, <1>12 DEF Abort, tmux, db
<1>13. ASSUME NEW s \in Contexts, Undo(s)
       PROVE  GoneInv'
  BY <1>13, UndoGone
<1>14. CASE UNCHANGED vars
  BY <1>2, <1>14 DEF vars, tmux, db
<1> QED
  BY <1>1, <1>4, <1>5, <1>6, <1>7, <1>8, <1>9, <1>10, <1>11, <1>12, <1>13, <1>14 DEF Next

\* No row with a list of survivors says of a window or a pane that it was
\* closed while it runs: hooks that come late, moves, renames, server restarts
\* and restores included.
THEOREM RecordedIsClosed == Spec => []ClosedIsGone
<1>1. GoneInv => ClosedIsGone
  BY DEF GoneInv, RowInv, ClosedIsGone, Closes, LivePaneIds, LiveWinIds
<1> QED
  BY <1>1, GoneInit, GoneNext, PTL DEF Spec

-----------------------------------------------------------------------------
(* Types. *)

TypeInv == TypeOK /\ (job.cmd = "save" => job.ts \in 1 .. clock)

Commands == {"idle", "capture", "save", "tail", "sweep"}

\* Steps that add no row.
LEMMA FewerRowsType ==
  ASSUME TypeInv, events' \subseteq events, clock' = clock, nextId' = nextId,
         job'.cmd \in Commands, job'.cmd = "save" => job'.ts \in 1 .. clock,
         word' = word \/ word' \in {<<>>} \cup {<<s>> : s \in Contexts}
  PROVE  TypeInv'
<1>1. \A e : RowOK(e)' <=> RowOK(e)
  BY DEF RowOK
<1> QED
  BY <1>1 DEF TypeInv, TypeOK, Commands

LEMMA InsertType ==
  ASSUME TypeInv, NEW row, Insert(row), clock' = clock, job'.cmd \in Commands \ {"save"},
         word' = <<>>, {"id", "ts", "kind"} \subseteq DOMAIN row, row.id = nextId,
         row.ts \in 1 .. clock, row.kind \in {"snapshot"} \cup Kinds
  PROVE  TypeInv'
<1>1. events' = events \cup {row} /\ nextId' = nextId + 1
  BY DEF Insert
<1>2. nextId \in Nat \ {0} /\ \A e \in events : RowOK(e) /\ e.id # nextId
  BY DEF TypeInv, TypeOK, RowOK
<1>3. \A e : RowOK(e) => RowOK(e)'
  BY <1>1, <1>2 DEF RowOK
<1>4. RowOK(row)'
  BY <1>1, <1>2 DEF RowOK, Kinds
<1>5. \A e, f \in events' : e.id = f.id => e = f
  BY <1>1, <1>2 DEF TypeInv, TypeOK
<1> QED
  BY <1>1, <1>2, <1>3, <1>4, <1>5 DEF TypeInv, TypeOK, Commands

LEMMA TypeInit == Init => TypeInv
  BY DEF Init, TypeInv, TypeOK, Idle

LEMMA TypeNext ==
  ASSUME TypeInv, GoneInv, [Next]_vars
  PROVE  TypeInv'
<1>1. job.cmd \in Commands /\ clock \in Int /\ clock \in 1 .. clock
  BY EventsAssumption DEF TypeInv, TypeOK, Commands
<1>2. ASSUME UNCHANGED <<clock, nextId, job>>, events' \subseteq events,
             word' = word \/ word' \in {<<>>} \cup {<<s>> : s \in Contexts}
      PROVE  TypeInv'
  BY <1>1, <1>2, FewerRowsType DEF TypeInv
<1>3. ASSUME UNCHANGED <<clock, nextId>>, events' \subseteq events, job'.cmd \in Commands \ {"save"},
             word' = word \/ word' = <<>>
      PROVE  TypeInv'
  BY <1>3, FewerRowsType
<1>4. CASE User
  BY <1>2, <1>4
  DEF User, NewSession, NewWindow, SplitWindow, Rename, MoveWindow, PaneExits, KillPane,
      KillWindow, KillSession, ServerDies, Rest, db
<1>5. CASE Tick
  <2>1. clock' = clock + 1 /\ clock < MaxClock /\ UNCHANGED <<events, nextId, job, word>>
    BY <1>5 DEF Tick, db
  <2>2. clock' \in 1 .. MaxClock /\ 1 .. clock \subseteq 1 .. clock'
    BY <1>1, <2>1, EventsAssumption DEF TypeInv, TypeOK
  <2>3. \A e : RowOK(e) => RowOK(e)'
    BY <2>1, <2>2 DEF RowOK
  <2> QED
    BY <2>1, <2>2, <2>3 DEF TypeInv, TypeOK
<1>6. ASSUME NEW h \in hooks, CaptureStart(h)
      PROVE  TypeInv'
  BY <1>3, <1>6 DEF CaptureStart, db, Commands
<1>7. CASE CaptureEnd
  <2>1. PICK got \in {PaneList, {}} : Record(job.hook, [windows |-> job.windows, panes |-> got])
    BY <1>7 DEF CaptureEnd
  <2> DEFINE post == [windows |-> job.windows, panes |-> got]
  <2>2. /\ job.cmd = "capture" /\ job'.cmd \in Commands \ {"save"}
        /\ word' = <<>> /\ clock' = clock
    BY <1>7 DEF CaptureEnd, Idle, Commands
  <2>3. CASE UNCHANGED <<events, nextId>>
    BY <1>3, <2>2, <2>3
  <2>4. ASSUME NEW h \in Recorded(events, job.hook, post, clock), Insert(CloseRow(h, post))
        PROVE  TypeInv'
    <3> DEFINE row == CloseRow(h, post)
    <3>1. h.kind \in Kinds
      BY <2>2, <2>4, RecordedIsGone
    <3>2. /\ {"id", "ts", "kind"} \subseteq DOMAIN row /\ row.id = nextId /\ row.ts = clock
          /\ row.kind = h.kind
      BY DEF CloseRow
    <3> HIDE DEF row
    <3> QED
      BY <1>1, <2>2, <2>4, <3>1, <3>2, InsertType DEF row
  <2> QED
    BY <2>1, <2>3, <2>4 DEF Record
<1>8. CASE SaveStart
  <2>1. job'.cmd = "save" /\ job'.ts = clock /\ UNCHANGED <<events, nextId, clock, word>>
    BY <1>8 DEF SaveStart, db
  <2> QED
    BY <1>1, <2>1, FewerRowsType DEF Commands
<1>9. CASE SaveList
  <2>1. PICK q \in job.todo : job' = [job EXCEPT !.todo = @ \ {q}, ![q] = Listing(q)]
    BY <1>9 DEF SaveList
  <2>2. /\ job = [cmd |-> "save", ts |-> job.ts, todo |-> job.todo,
                  sessions |-> job.sessions, windows |-> job.windows, panes |-> job.panes]
        /\ q \in {"sessions", "windows", "panes"}
    BY <1>9, <2>1 DEF SaveList, GoneInv, ListingsInv, Queries
  <2>3. job'.cmd = "save" /\ job'.ts = job.ts
    BY <2>1, <2>2
  <2>4. UNCHANGED <<events, nextId, clock, word>> /\ job.cmd = "save"
    BY <1>9 DEF SaveList, db
  <2> QED
    BY <2>3, <2>4, FewerRowsType DEF TypeInv, Commands
<1>10. CASE SaveInsert
  <2> DEFINE row == [id |-> nextId, ts |-> job.ts, kind |-> "snapshot", man |-> Manifest]
  <2>1. /\ job.cmd = "save" /\ job'.cmd \in Commands \ {"save"} /\ word' = <<>> /\ clock' = clock
        /\ UNCHANGED db \/ Insert(row)
    BY <1>10 DEF SaveInsert, Commands
  <2>2. job.ts \in 1 .. clock
    BY <2>1 DEF TypeInv
  <2>3. /\ {"id", "ts", "kind"} \subseteq DOMAIN row /\ row.id = nextId /\ row.ts = job.ts
        /\ row.kind = "snapshot"
    OBVIOUS
  <2> HIDE DEF row
  <2>4. CASE UNCHANGED db
    BY <1>3, <2>1, <2>4 DEF db
  <2>5. CASE Insert(row)
    BY <2>1, <2>2, <2>3, <2>5, InsertType
  <2> QED
    BY <2>1, <2>4, <2>5
<1>11. CASE SavePrune \/ SaveSweep
  <2>1. events' \subseteq events
    BY <1>11, PruneSnapshotsShrinks, PruneUnresolvableShrinks DEF SavePrune, SaveSweep
  <2>2. job'.cmd \in Commands \ {"save"} /\ word' = <<>> /\ UNCHANGED <<clock, nextId>>
    BY <1>11 DEF SavePrune, SaveSweep, Idle, Commands
  <2> QED
    BY <1>3, <2>1, <2>2
<1>12. CASE Prune
  <2>1. PICK E \in PruneSnapshots(events, Keep, clock) : events' \in PruneCloses(E, KeepCloses)
    BY <1>12 DEF Prune
  <2>2. events' \subseteq events
    BY <2>1, PruneSnapshotsShrinks, PruneClosesShrinks
  <2> QED
    BY <1>2, <1>12, <2>2 DEF Prune
<1>13. CASE Abort
  BY <1>2, <1>3, <1>13 DEF Abort, Idle, db, Commands
<1>14. ASSUME NEW s \in Contexts, Undo(s)
       PROVE  TypeInv'
  BY <1>2, <1>14 DEF Undo, UndoDiscard, UndoRestore
<1>15. CASE UNCHANGED vars
  BY <1>2, <1>15 DEF vars, db
<1> QED
  BY <1>4, <1>5, <1>6, <1>7, <1>8, <1>9, <1>10, <1>11, <1>12, <1>13, <1>14, <1>15 DEF Next

\* Types: every row has an id of its own that was given out and a time that
\* has passed, and one of the commands holds the lock.
THEOREM TypeCorrect == Spec => []TypeOK
<1>1. TypeInv => TypeOK
  BY DEF TypeInv
<1> QED
  BY <1>1, GoneInit, GoneNext, TypeInit, TypeNext, PTL DEF Spec

=============================================================================
