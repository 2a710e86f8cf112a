----------------------------- MODULE CloseEvents -----------------------------
(***************************************************************************)
(* The life of a close event.  The user closes, moves and creates things   *)
(* in tmux; each close starts hook processes; they and `save`, `prune` and *)
(* `undo --pop` get the lock in any order, read a server that goes on      *)
(* changing, and leave rows behind that a later undo resolves.             *)
(*                                                                         *)
(* Only the command that holds the lock has any state: a waiting hook is   *)
(* its arguments.  Scrollback, throttling and the statement-by-statement   *)
(* course of a save are SnapshotStore's; here a save is its timestamp, its *)
(* three concurrent listings, its insert and its pruning.                  *)
(***************************************************************************)
EXTENDS CloseResolution

CONSTANTS
  Name,                \* session names
  Ops,                 \* what the user does
  Keep, KeepCloses,    \* cfg.SnapshotHistoryLimit, cfg.CloseEventLimit
  Quiet,               \* bound: commands during which the user sits still
  MaxClock, MaxChanges, MaxSaves, MaxLost   \* bounds of the model

ASSUME EventsAssumption ==
  /\ NoName \notin Name
  /\ {Keep, KeepCloses} \subseteq Nat \ {0}
  /\ {MaxClock, MaxChanges, MaxSaves, MaxLost} \subseteq Nat

VARIABLES
  panes,       \* the tmux server: {[id, win, sess, name, idx]}, one per pane
  ids,         \* [server, n]: the server's number and its last id
  clock,
  hooks,       \* arguments of the capture-event processes waiting for the lock
  events,      \* table events
  nextId,      \* its AUTOINCREMENT counter
  lastFP,      \* last_save_fingerprint
  job,         \* the command that holds the lock, with its locals
  word,        \* auxiliary: <<s>> when the last undo, in s, promised another
  changes, saves, lost   \* counters of the model's bounds

tmux == <<panes, ids, changes>>
db   == <<events, nextId, lastFP>>
vars == <<tmux, clock, hooks, db, job, word, saves, lost>>

Idle     == [cmd |-> "idle"]
Queries  == {"sessions", "windows", "panes"}

Init ==
  /\ panes = {} /\ ids = [server |-> 1, n |-> 0] /\ clock = 1 /\ changes = 0
  /\ hooks = {} /\ events = {} /\ nextId = 1 /\ lastFP = <<>>
  /\ job = Idle /\ word = <<>> /\ saves = 0 /\ lost = 0

-----------------------------------------------------------------------------
(* tmux.  Sessions, windows and panes draw from one counter here, so that  *)
(* an id names one thing of one server; tmux's three counters restart with *)
(* every server just the same.                                             *)

NewIds(k) == <<ids.server, ids.n + k>>

Windows      == {[id |-> p.win, session |-> p.name, sess |-> p.sess, index |-> p.idx] : p \in panes}
LiveNames    == {p.name : p \in panes}
PanesOf(win) == {p \in panes : p.win = win}

\* The lowest index no window of the session has.
FreeIndex(name) ==
  LET used == {p.idx : p \in {q \in panes : q.name = name}}
  IN  CHOOSE i \in 0 .. Cardinality(used) :
        i \notin used /\ \A j \in 0 .. i - 1 : j \in used

Add(new, k) ==
  /\ panes' = panes \cup new
  /\ ids' = [ids EXCEPT !.n = @ + k]

MayChange(op) ==
  /\ op \in Ops /\ job.cmd \notin Quiet
  /\ changes < MaxChanges /\ changes' = changes + 1

Rest == UNCHANGED <<clock, db, job, word, saves, lost>>

NewSession ==
  /\ MayChange("newSession")
  /\ \E name \in Name \ LiveNames :
       Add({[id |-> NewIds(3), win |-> NewIds(2), sess |-> NewIds(1), name |-> name, idx |-> 0]}, 3)
  /\ UNCHANGED hooks /\ Rest

NewWindow ==
  /\ MayChange("newWindow")
  /\ \E p \in panes :
       Add({[p EXCEPT !.id = NewIds(2), !.win = NewIds(1), !.idx = FreeIndex(p.name)]}, 2)
  /\ UNCHANGED hooks /\ Rest

SplitWindow ==
  /\ MayChange("split")
  /\ \E p \in panes : Add({[p EXCEPT !.id = NewIds(1)]}, 1)
  /\ UNCHANGED hooks /\ Rest

Rename ==
  /\ MayChange("rename")
  /\ \E old \in LiveNames, new \in Name \ LiveNames :
       panes' = {IF p.name = old THEN [p EXCEPT !.name = new] ELSE p : p \in panes}
  /\ UNCHANGED <<ids, hooks>> /\ Rest

Hook(kind, p, what) ==
  [kind |-> kind, sess |-> p.sess, name |-> p.name,
   win  |-> IF kind = "session-closed" THEN NoId ELSE p.win,
   pane |-> IF kind = "pane-died" THEN p.id ELSE NoId,
   lost |-> what]

\* after-kill-pane is a command hook: it carries nothing at all.
BareHook(p) ==
  [Hook("pane-died", p, p.id) EXCEPT !.sess = NoId, !.name = NoName, !.win = NoId, !.pane = NoId]

\* What the end of the panes gone takes with it.
Cascade(gone) ==
  LET left == panes \ gone
  IN  {Hook("window-unlinked", p, p.win) : p \in {q \in gone : q.win \notin {r.win : r \in left}}}
      \cup {Hook("session-closed", p, p.sess) : p \in {q \in gone : q.sess \notin {r.sess : r \in left}}}

\* The last session takes the server with it.
Close(gone, ownHooks) ==
  /\ panes' = panes \ gone
  /\ ids' = IF panes' = {} THEN [server |-> ids.server + 1, n |-> 0] ELSE ids
  /\ hooks' = hooks \cup ownHooks \cup Cascade(gone)

PaneExits ==
  /\ MayChange("exit")
  /\ \E p \in panes : Close({p}, {Hook("pane-died", p, p.id)})
  /\ Rest

KillPane ==
  /\ MayChange("killPane")
  /\ \E p \in panes : Close({p}, {BareHook(p)})
  /\ Rest

KillWindow ==
  /\ MayChange("killWindow")
  /\ \E p \in panes : Close(PanesOf(p.win), {})
  /\ Rest

KillSession ==
  /\ MayChange("killSession")
  /\ \E p \in panes : Close({q \in panes : q.sess = p.sess}, {})
  /\ Rest

\* kill-server, a crash or a shutdown: no hook runs.
ServerDies ==
  /\ MayChange("restart") /\ panes # {}
  /\ panes' = {} /\ ids' = [server |-> ids.server + 1, n |-> 0]
  /\ UNCHANGED hooks /\ Rest

\* window-unlinked fires for the session it leaves.
MoveWindow ==
  /\ MayChange("move")
  /\ \E p, q \in panes :
       /\ p.sess # q.sess
       /\ panes' = (panes \ PanesOf(p.win)) \cup
                   {[r EXCEPT !.sess = q.sess, !.name = q.name, !.idx = FreeIndex(q.name)] :
                      r \in PanesOf(p.win)}
       /\ hooks' = hooks \cup {Hook("window-unlinked", p, p.win)} \cup
                   IF \A r \in panes : r.sess = p.sess => r.win = p.win
                   THEN {Hook("session-closed", p, p.sess)} ELSE {}
  /\ UNCHANGED ids /\ Rest

User ==
  \/ NewSession \/ NewWindow \/ SplitWindow \/ Rename \/ MoveWindow
  \/ PaneExits \/ KillPane \/ KillWindow \/ KillSession \/ ServerDies

Tick ==
  /\ clock < MaxClock /\ clock' = clock + 1
  /\ UNCHANGED <<tmux, hooks, db, job, word, saves, lost>>

-----------------------------------------------------------------------------
(* capture-event *)

WindowList == {[id |-> w.id, session |-> w.session] : w \in Windows}
PaneList   == {p.id : p \in panes}

\* Mutant: the counter stands still.
InsertSameId(row) == events' = events \cup {row} /\ nextId' = nextId

Insert(row) == events' = events \cup {row} /\ nextId' = nextId + 1

CloseRow(h, post) ==
  [id |-> nextId, ts |-> clock, kind |-> h.kind, hook |-> h, post |-> post]

\* Insert what Capture makes of the hook; several rows are never possible.
Record(hook, post) ==
  LET found == Recorded(events, hook, post, clock)
  IN  IF found = {} THEN UNCHANGED <<events, nextId>>
      ELSE \E h \in found : Insert(CloseRow(h, post))

\* A query that fails although the server runs (a fork, the pipe, the parse)
\* is not told from one that finds nothing: its list is empty.
Asked(list, got) ==
  \/ got = list /\ UNCHANGED lost
  \/ got = {} /\ list # {} /\ lost < MaxLost /\ lost' = lost + 1

\* Mutant: capture-event does without the lock.
CaptureUnlocked(hook) ==
  /\ hooks' = hooks \ {hook} /\ word' = <<>>
  /\ Record(hook, [windows |-> WindowList, panes |-> PaneList])
  /\ UNCHANGED <<tmux, clock, lastFP, job, saves, lost>>

\* The lock is taken, then the windows are listed.
CaptureStart(hook) ==
  /\ job = Idle
  /\ \E got \in {WindowList, {}} :
       Asked(WindowList, got) /\ job' = [cmd |-> "capture", hook |-> hook, windows |-> got]
  /\ hooks' = hooks \ {hook}
  /\ UNCHANGED <<tmux, clock, db, word, saves>>

\* Mutant: a hook that leaves no row does not give the lock back.
CaptureEndHolds ==
  /\ job.cmd = "capture"
  /\ LET post == [windows |-> job.windows, panes |-> PaneList]
     IN  /\ Record(job.hook, post)
         /\ job' = IF events' = events THEN job ELSE Idle
  /\ word' = <<>>
  /\ UNCHANGED <<tmux, clock, hooks, lastFP, saves, lost>>

\* The panes are listed, and Capture decides.
CaptureEnd ==
  /\ job.cmd = "capture"
  /\ \E got \in {PaneList, {}} :
       Asked(PaneList, got) /\ Record(job.hook, [windows |-> job.windows, panes |-> got])
  /\ job' = Idle /\ word' = <<>>
  /\ UNCHANGED <<tmux, clock, hooks, lastFP, saves>>

-----------------------------------------------------------------------------
(* save *)

SaveStart ==
  /\ job = Idle /\ saves < MaxSaves
  /\ job' = [cmd |-> "save", ts |-> clock, todo |-> Queries,
             sessions |-> {}, windows |-> {}, panes |-> {}]
  /\ saves' = saves + 1
  /\ UNCHANGED <<tmux, clock, hooks, db, word, lost>>

Listing(q) ==
  CASE q = "sessions" -> {[name |-> p.name, id |-> p.sess] : p \in panes}
    [] q = "windows"  -> {[session |-> w.session, index |-> w.index, id |-> w.id] : w \in Windows}
    [] q = "panes"    -> {[session |-> p.name, index |-> p.idx, id |-> p.id] : p \in panes}

\* Build's three goroutines, in any order, with the server going on between.
SaveList ==
  /\ job.cmd = "save"
  /\ \E q \in job.todo : job' = [job EXCEPT !.todo = @ \ {q}, ![q] = Listing(q)]
  /\ UNCHANGED <<tmux, clock, hooks, db, word, saves, lost>>

\* Windows are filed by session name, panes by session name and window index.
Manifest ==
  LET names == {s.name : s \in job.sessions}
  IN  [sessions |-> job.sessions,
       windows  |-> {[session |-> w.session, index |-> w.index, id |-> w.id,
                      panes |-> {p.id : p \in {q \in job.panes : /\ q.session = w.session
                                                                 /\ q.index = w.index}}] :
                       w \in {v \in job.windows : v.session \in names}}]

Fingerprint(man) ==
  <<{s.name : s \in man.sessions},
    {[w EXCEPT !.id = Shown(@), !.panes = ShownIn(@)] : w \in man.windows}>>

\* No server or nothing new: no row.  Pruning follows either way.
SaveInsert ==
  /\ job.cmd = "save" /\ job.todo = {}
  /\ IF Manifest.sessions = {} \/ Fingerprint(Manifest) = lastFP
     THEN UNCHANGED db
     ELSE /\ Insert([id |-> nextId, ts |-> job.ts, kind |-> "snapshot", man |-> Manifest])
          /\ lastFP' = Fingerprint(Manifest)
  /\ job' = [cmd |-> "tail"] /\ word' = <<>>
  /\ UNCHANGED <<tmux, clock, hooks, saves, lost>>

SavePrune ==
  /\ job.cmd = "tail" /\ events' \in PruneSnapshots(events, Keep, clock)
  /\ job' = [cmd |-> "sweep"] /\ word' = <<>>
  /\ UNCHANGED <<tmux, clock, hooks, nextId, lastFP, saves, lost>>

SaveSweep ==
  /\ job.cmd = "sweep" /\ events' = PruneUnresolvable(events)
  /\ job' = Idle /\ word' = <<>>
  /\ UNCHANGED <<tmux, clock, hooks, nextId, lastFP, saves, lost>>

\* `prune`: snapshots, then close events.
Prune ==
  /\ job = Idle /\ "prune" \in Ops
  /\ \E E \in PruneSnapshots(events, Keep, clock) : events' \in PruneCloses(E, KeepCloses)
  /\ events' # events /\ word' = <<>>
  /\ UNCHANGED <<tmux, clock, hooks, nextId, lastFP, job, saves, lost>>

\* The command dies or fails, or a waiting hook does: the server exits and
\* takes it along, or its queries fail.
Abort ==
  /\ lost < MaxLost /\ lost' = lost + 1
  /\ \/ job # Idle /\ job' = Idle /\ UNCHANGED hooks
     \/ \E h \in hooks : hooks' = hooks \ {h} /\ UNCHANGED job
  /\ UNCHANGED <<tmux, clock, db, word, saves>>

-----------------------------------------------------------------------------
(* undo --pop *)

\* 1 .. Cardinality(S) in the order of the ids' numbers.
Rank(i, S) == Cardinality({j \in S : Shown(j) <= Shown(i)})

\* Rebuild the windows ws under the session name, with ids of this server.
\* A lone window is inserted at its index (-b) and pushes the windows from
\* there to the next gap up; a session's windows must find theirs free.
Rebuilt(ws, name, insert) ==
  LET all  == UNION {w.panes : w \in ws}
      here == {q \in panes : q.name = name}
      used == {q.idx : q \in here}
      pushed(q) == q \in here /\ \E w \in ws : w.index <= q.idx /\ w.index .. q.idx \subseteq used
      new(w, p) ==
        [id   |-> NewIds(1 + Cardinality(ws) + Rank(p, all)),
         win  |-> NewIds(1 + Rank(w.id, {v.id : v \in ws})),
         sess |-> IF here = {} THEN NewIds(1) ELSE CHOOSE s \in {q.sess : q \in here} : TRUE,
         name |-> name, idx |-> w.index]
  IN  /\ insert \/ \A w \in ws : w.index \notin used
      /\ panes' = {IF pushed(q) THEN [q EXCEPT !.idx = @ + 1] ELSE q : q \in panes}
                  \cup UNION {{new(w, p) : p \in w.panes} : w \in ws}
      /\ ids' = [ids EXCEPT !.n = @ + 1 + Cardinality(ws) + Cardinality(all)]

\* A lost pane goes back into its window if the live windows list it (a
\* failed query lists none); anything else is rebuilt.  Apply is
\* best-effort: some windows ws may not come up.
Restored(e, i, ws) ==
  \E got \in {WindowList, {}} :
    LET parent == {p \in panes : /\ p.win \in {w.id : w \in got}
                                 /\ Shown(p.win) \in ShownIn({w.id : w \in i.windows})}
    IN  /\ IF e.kind = "pane-died" THEN Asked(WindowList, got)
           ELSE got = WindowList /\ UNCHANGED lost
        /\ IF e.kind = "pane-died" /\ parent # {}
           THEN /\ ws = i.windows
                /\ \E p \in parent : Add({[p EXCEPT !.id = NewIds(1)]}, 1)
           ELSE Rebuilt({w \in ws : w.panes # {}}, i.session, e.kind # "session-closed")

\* One press.  A row leaves the table only if it is discarded, or if no
\* action of its restore failed; a plan without actions cannot fail.  Dead
\* rows go one by one, the newest first, and a delete that fails ends it.
UndoDiscard(session) ==
  LET dead == Discarded(events, session)
  IN  \E last \in dead :
        /\ events' = events \ {e \in dead : e = last \/ Newer(e, last)}
        /\ word' = IF events' = events \ dead /\ MoreAvailable(events, session)
                   THEN <<session>> ELSE <<>>
        /\ UNCHANGED <<panes, ids, lost>>

UndoRestore(session) ==
  /\ \E e \in UndoTarget(events, session) : \E i \in Resolve(events, e) :
       \/ Restored(e, i, i.windows) /\ events' = events \ {e}
       \/ /\ \E w \in i.windows : w.panes # {}
          /\ \/ \E ws \in SUBSET i.windows : Restored(e, i, ws)
             \/ UNCHANGED <<panes, ids, lost>>
          /\ UNCHANGED events
  /\ word' = <<>>

Undo(session) ==
  /\ job = Idle /\ MayChange("undo")
  /\ UndoDiscard(session) \/ UndoRestore(session)
  /\ UNCHANGED <<clock, hooks, nextId, lastFP, job, saves>>

-----------------------------------------------------------------------------
Contexts == Name \cup {NoName}

Next ==
  \/ User \/ Tick
  \/ \E h \in hooks : CaptureStart(h)
  \/ CaptureEnd
  \/ SaveStart \/ SaveList \/ SaveInsert \/ SavePrune \/ SaveSweep
  \/ Prune \/ Abort
  \/ \E s \in Contexts : Undo(s)

Spec == Init /\ [][Next]_vars

\* Every command ends; a hook that keeps polling for the lock gets it in the
\* end, since every holder ends and saves come a minute apart.
FairSpec ==
  /\ Spec
  /\ WF_vars(CaptureEnd \/ SaveList \/ SaveInsert \/ SavePrune \/ SaveSweep)
  /\ SF_vars(\E h \in hooks : CaptureStart(h))
-----------------------------------------------------------------------------
(* What holds *)

RowOK(e) ==
  /\ {"id", "ts", "kind"} \subseteq DOMAIN e
  /\ e.id \in 1 .. nextId - 1 /\ e.ts \in 1 .. clock
  /\ e.kind \in {"snapshot", "session-closed", "window-unlinked", "pane-died"}

\* Types: rows have ids that were given out and times that have passed, a
\* primary key is used once, and the lock's holder is one of the commands.
TypeOK ==
  /\ clock \in 1 .. MaxClock \cup {1} /\ nextId \in Nat \ {0}
  /\ \A e \in events : RowOK(e)
  /\ \A e, f \in events : e.id = f.id => e = f
  /\ job.cmd \in {"idle", "capture", "save", "tail", "sweep"}
  /\ word \in {<<>>} \cup {<<s>> : s \in Contexts}

\* A snapshot is never added behind a close event that is already recorded
\* (main.go: "pruned, never added behind a timestamp"): a close keeps being
\* resolved against a server in which it had not happened yet, although a
\* save takes its timestamp long before it inserts.
NoSnapshotBehind ==
  \A s \in Snapshots(events), c \in Closes(events) : c.id < s.id => c.ts <= s.ts

\* A row whose list of survivors has anything in it names nothing that
\* runs, however late its hook ran and however often the window or pane was
\* moved meanwhile.
ClosedIsGone ==
  \A c \in Closes(events) :
    /\ c.kind = "window-unlinked" /\ c.post.windows # {}
         => c.hook.win \notin {p.win : p \in panes}
    /\ c.kind = "pane-died" /\ c.post.panes # {}
         => c.hook.pane \notin {p.id : p \in panes}

\* The pruning that follows every save takes no close event that could still
\* be restored (store.go: only those with "no prior snapshot").
PruneKeepsRecoverable ==
  [][SaveSweep => \A c \in Closes(events) \ events' : ~Recoverable(events', c)]_vars

\* Every hook is answered: recorded, or found not worth a row; and the lock
\* is given back.
HooksAreAnswered == hooks # {} ~> hooks = {} /\ job = Idle

-----------------------------------------------------------------------------
(* What the repository says and the program does not do *)

\* capture.go: "Recording nothing beats recording a lie" - a pane-died row
\* names the pane that died.
RecordsTheKilledPane ==
  \A c \in Closes(events) : c.kind = "pane-died" => c.hook.pane = c.hook.lost

\* diff.go: "born and gone within a snapshot gap" is unrecoverable, and with
\* one candidate left "a rename explains the mismatch" - a row resolves to what
\* was closed, under whatever name, to a session of its name, or to nothing.
ResolvesToWhatWasClosed ==
  \A c \in Closes(events) :
    c.kind # "pane-died" =>
      \A i \in Resolve(events, c) :
        \/ i.lost = c.hook.lost
        \/ c.kind = "session-closed" /\ i.session = c.hook.name

\* main.go: where dead rows are discarded and more is available, "this press
\* explains them and the next one restores": in a session that runs, the next
\* press finds a row to restore.
UndoKeepsItsWord ==
  \A s \in LiveNames : word = <<s>> => UndoTarget(events, s) # {}
=============================================================================
