# A verification project for tmux-remux

tmux-remux (`cmd/tmux-remux`, `internal/`) snapshots a tmux server into a SQLite
database and a content-addressed scrollback directory, records what gets closed,
and restores or undoes from there. There is no daemon: every operation is a
short-lived process started by a tmux hook, a timer, a key binding or a shell, and
all of them take one lock file. This directory holds TLA+ modules that model that
program, TLC configurations that check them on small instances, and TLAPS proofs.

## 1. Inventory

| component | state | operations | talks to |
|---|---|---|---|
| event store (`internal/store`) | tables `events`, `event_scrollbacks`, `scrollbacks`, `meta` | insert, latest (before), list, prune, upsert, link, set meta, zero-ref list, delete | everyone |
| saver (`internal/snapshot/save.go`, `manifest.go`) | none of its own: last_save_* in `meta` | `Save` | tmux, store, scrollbacks |
| manifest builder (`build.go`) | - | three concurrent list commands, joined | tmux |
| scrollback store (`internal/scrollback`) | files named by sha256 | `Put`, `Get`, `Stream`, `Delete` | saver, gc, picker |
| lock (`internal/lockfile`) | an flock | `Acquire` (polling), `TryAcquire`, `Release` | every command |
| commands (`cmd/tmux-remux/main.go`) | one process each | `save`, `restore`, `undo`, `pick`, `capture-event`, `list`, `prune`, `gc` | all of the above |
| close events (`internal/closeevent`) | close rows in `events` | `Capture` with cascade dedup and killed-pane resolution; `FindClosed` | hooks, store, undo, picker |
| restore (`internal/restore`) | - | `BuildPlan`, `BuildPaneRestore`, `Apply` | tmux |
| filter (`internal/filter`) | - | which snapshots, sessions, windows and panes a restore leaves out, and why | restore, picker |
| picker (`internal/picker`, `internal/panemap`) | the interactive model: mode, cursors, folds, filter, scroll offsets, loads | keys, resizes, loaded scrollbacks | store (read), scrollback store, restore |
| tmux client (`internal/tmux`) | - | runs tmux, parses its tables | tmux |
| the rest: triggers, config, applog, agenthook, relaunch stamp | files | rendering, environment, one-shot edits | - |

**What is hard.** Hook processes start concurrently and get the lock in no
particular order. A command can be killed between any two statements, and the saver
uses many small transactions. What a command reads of tmux is read by several
commands, while the server goes on. Ids restart with every server. Restore works at
the birth of a server, when hooks and a timer are already saving the new one.
Retention removes snapshots that close events are resolved against. A restore may
fail half way and be repeated.

**What makes each part correct.**
store: refcounts equal the links, retention keeps what restore and undo need.
saver: every structure reaches a snapshot, everything a snapshot names is readable.
gc: takes only what nothing refers to.
close events: an undo brings back what was closed, once, and never something else.
restore: picks the last snapshot from before this server, never duplicates what runs.
filter and plan: what is shown as skipped is what is skipped.
picker: cursors stay on what they name and in view, what is shown is what Enter restores, every preview arrives and can be scrolled through.

## 2. Modules

| module | what it is | models |
|---|---|---|
| `EventStore` | operators | the queries and retention statements of `internal/store/store.go` over a set of rows |
| `SnapshotStore` | state machine | `save`, `prune` and `gc` with lock, tables, files, deaths |
| `ScrollbackArchive` | abstract state machine | what the scrollback side promises: texts are filed under a snapshot and readable while filed |
| `SnapshotStoreProofs` | proofs | theorems about `SnapshotStore` |
| `CloseResolution` | operators | `internal/closeevent` and the undo scan: what a hook means, what a row resolves to |
| `CloseEvents` | state machine | the tmux server, hooks, `capture-event`, the torn `Build` of `save`, pruning, `undo --pop` |
| `CloseEventsProofs` | proofs | theorems about `CloseEvents` |
| `RestorePlan` | operators | `internal/filter`, `BuildPlan` and the startup command of `internal/restore` |
| `Restore` | state machine | a tmux server and its user, saves, `restore` with and without `--auto`, the restore a picker ends in, `Apply` one tmux command at a time |
| `RestoreProofs` | proofs | theorems about `Restore` |
| `CloseList` | operators | `closelist.go`: the grouped list of closes, and which panes of a close are previewed |
| `CloseListProofs` | proofs | theorems about `CloseList` |
| `PickerLayout` | operators | `view.go`, `preview.go`: how rows and columns are divided, which rows and lines are shown |
| `PickerLayoutProofs` | proofs | theorems about `PickerLayout` |
| `Picker` | state machine | `model.go`, `tree.go`: one action per key or message, in both modes |
| `PickerProofs` | proofs | theorems about `Picker`: the list, the cursors, the folds, the choice |
| `PickerScreenProofs` | proofs | theorems about `Picker`: its types, what is in view, what is previewed, what the tree promises |
| `SequenceProofs` | proofs | induction over the naturals and over sequences, for the folds the plan and the list are built from; what flattening and sorting a set keep |
| `MCSnapshotStore`, `MCCloseEvents`, `MCRestore`, `MCPicker` | models | symmetry and inputs for TLC |

The modules compose where the code does. `SnapshotStore`, `CloseResolution` and
`Restore` extend `EventStore`: the same statements of `store.go` choose the anchor and
prune the rows of all three. `Picker` extends `RestorePlan`, `CloseList` and
`PickerLayout`: the same `BuildPlan` that `Restore` applies is what the picker's tree
must agree with, and a picker that is open is the command `pick` of `Restore`.

### SnapshotStore

State: `events`, `links` (`event_scrollbacks`), `rows` and `refcount`
(`scrollbacks`), `meta`, `files`, `nextId` (AUTOINCREMENT) are the persistent state;
`lock`, `pc`, `mem` the processes; `live` (which panes exist), `act` (what they do)
and `clock` the outside world. A text stands for its own sha256. One action is one
statement, one transaction or one file operation of the Go code, so `Stop` (the
process dies or returns the error of that step) can fall between any two of them;
the kernel then frees the lock. Workers of `captureScrollbacks` interleave, at most
`Workers` past their start. The file write of `Put` is one step because the content
appears by rename. `SaveSkip` and the rest of `save` end in `Prune`, as `SaveCmd`
does. Close events are no part of this module: nothing here reads them.

`Begin` is `withStore`: a command waits for the lock and only then starts, so a
waiting process needs no state of its own.

Two abstractions to know about. `Build` returns the structure as it is at that step:
the three concurrent queries inside it, which may disagree, are modelled in
`CloseEvents`. And a fingerprint is the value that is hashed, so two different
structures never collide.

`torn` is auxiliary: the ids of snapshots whose save died after the insert. The code
keeps no such record, the properties need it to say which snapshots are complete.

### ScrollbackArchive

The refinement target: `Write` a text, `File` an entry for the newest snapshot,
`Expire` whole snapshots, `Forget` a text no entry files. `SnapshotStore`
implements it under the mapping archive = `links`, texts = `files`: the property
says that all the machinery of lock, refcounts, trigger and collector never forgets
a filed text, never files twice, never expires half a snapshot.

### CloseResolution and CloseEvents

State: `panes` is the tmux server (one record per pane, with its window, session,
session name and window index; a window or session exists while it has a pane),
`ids` hands out ids and starts again with every server; `hooks` are the arguments of
the `capture-event` processes that wait for the lock; `events`, `nextId`, `lastFP`
are the tables; `job` is the command that holds the lock, with its locals: the lock
admits one, and a command that waits for it has nothing but its arguments.
`capture-event` is two actions (windows listed; panes listed and `Capture`),
`save` is its timestamp, three listings in any order, the insert, the pruning of
snapshots (`SavePrune`) and of closes (`SaveSweep`); `undo` and `prune` are one action
each, and dead rows that undo discards go one by one, so that a delete that fails leaves
the older ones. The user may act between any two of them, and `Abort` ends the holder or
a waiting hook at any point. Where the code drops a query's error and goes on
(main.go:764, and the windows that undo of a pane looks for), the query's list may be empty
although the server runs (`Asked`); `Build` gives up instead, which is `Abort`.

An id is a pair of the server that gave it and a number. The code sees the number only, and
every operator that translates code compares `Shown` ids; the server's part lets the
properties say what was meant. `lost` in a hook (what was closed), the session id in a
manifest and `word` (the promise of the last undo) are auxiliary in the same way: no
decision reads them. One counter serves sessions, windows and panes, where tmux has three
that restart together.

An undo's plan is taken window by window: a closed session's windows must find their
index free, a lone window is inserted at its index and pushes others up, a lost pane
is split into the window with its old window's id or brings its window back. A failed
`Apply` leaves any part of it standing and keeps the event.

Left out: the sessions of a bridge host, which `Build` skips (here and in `Restore`);
windows linked into several sessions, the match of a lost pane's parent by
window name, the matches by position for rows of releases that recorded no ids, and
scrollback and throttling of saves (`SnapshotStore`).

### RestorePlan and Restore

`RestorePlan` has `SkipReason`, `SkipPane` and `SkipWindow` of the filter and
`BuildPlan`: for each session that is not skipped, for each window with a kept pane, its
creation, its decoration, a split per further pane and its layout. `Startup` is what a
pane's startup command comes to: the text it replays and the program it runs, a pane's
own relaunch before the list of commands.

State of `Restore`: `windows` and `attached` are the tmux server, `server` numbers it and
has its start time and next window id; `rows` are the snapshots, `lastFP` the fingerprint
of the last save; `auto` says that the `run-shell` of the server's tmux.conf still waits
for the lock; `cmd` is the command that holds it: idle, a save with its time stamp, a
picker that is open with the set of running sessions it read, or a restore with what is
left of its plan. `Init` is the program installed on a server that runs. The user makes
sessions and windows, attaches, kills windows and servers between any two steps, in the
middle of a restore too. A restore that loses its server ends with it, and so does a
picker, whose popup it was; the save of a timer goes on, and may find the next server.

One action is one call of tmux. `CreateWindow` is `new-session` and the `move-window`
after it as one step: nothing the user does between them is lost, only the moment at
which the window is at the base index. What tmux does is modelled from how the code uses
it: an index in use fails `new-window`; a detached window has `Room` for so many panes
and `split-window` beyond fails; a layout needs a cell for every pane. What fails is
skipped, as in `Apply`; a window that could not be made makes the actions on it be left
out (`failed`).

Time is in milliseconds, `Second` of them a second; start times and last_attached are cut
to seconds, as tmux reports them. A save is two steps: `SaveStart` takes the lock and the
time (save.go:59), `SaveEnd` lists the server that runs by then, inserts and prunes, or
`SaveFails`. So a server can be born between the time of a row and its listing. The rest of
a save is taken apart in `SnapshotStore` and `CloseEvents`; no two saves share a
millisecond, for each holds the lock longer than that. Manifests here are whole, session
names are not prefixes of each other, and windows are never renumbered.

`from` and `srv` in a row (the servers at its time stamp and at its listing) and `snap`,
`filter`, `running`, `now`, `old`, `live` and `alone` in `cmd` are auxiliary once the plan
is built: no decision reads them, the properties do. Window names, automatic-rename,
directories and the wording of commands are left out. What the user makes or kills inside a
window that the restore itself is creating is outside `RestoreIsComplete`, which speaks of
restores nobody worked into.

### CloseList, PickerLayout and Picker

`CloseList` is `BuildCloseList`: recoverable closes grouped by what they would look like,
one section for the session we sit in and one for the others, each group showing its
newest close. `PickerLayout` is the arithmetic of the panels: which rows a list shows
(`ScrollWindow`, `ListWindow`), on which line of its frame a row is drawn (`FrameLine`), and
the height at which the frame cuts (`MaxHeight`, which is the panel's own height, while the
row counts have a floor of their own). The tree's window follows `HighlightIdx`, the cursor
while the tree has the focus and the first node otherwise.

State of `Picker`: `given` is what it was opened on and never changes; `cursor`, `focus`,
`treeCursor`, `filter`, `scroll`, `scrollX`, `size`, `selected` and `closed` are the fields
of `PickerModel`; `trees` are the trees built so far with their folds and marks, `bad` the
snapshots that did not parse, `loads` the state of each scrollback. A node is its path.
Each action is one case of `Update` with the `PreviewCmd` it ends in. Scrollbacks arrive,
or fail, at any time and in any order (`ScrollbackLoaded`).

Left out: dimming by age, the help overlay and footer notes, which no decision reads; the
drawing of pane maps, of which only the height matters; the rows of the list that
`PickCmd` reads from the store, which are inputs.

## 3. Runs

| run | question | bounds |
|---|---|---|
| `snapshot_safety` | do refcounts, linked, in-flight and complete scrollbacks survive two competing commands and a death? does a skipped save lose structure, does pruning keep the latest snapshot, does the store implement the archive? is the proof's invariant an invariant? | 2 processes, 2 panes, 2 texts, 3 snapshots, 1 death, clock to 3 |
| `snapshot_live` | does churn reach a snapshot? | 2 processes, 1 pane, 2 activities, 4 snapshots, no deaths |
| `close_capture` | is every recorded close one, though a query may fail, and no snapshot behind it? | 2 names, 3 user actions (create, split, move, exit, kill, undo), 2 saves, 1 loss (a death, a lost hook or a failed query), 2 ticks |
| `close_live` | is every hook answered and the lock given back? does the pruning after a save take a restorable close? | 3 user actions with server restarts, 2 saves, `prune`, limits of 1, days of 2 of 3 ticks, no losses |
| `close_killed`, `close_resolve`, `close_scan` | statements of the repository that the code does not keep | smallest instances that show it |
| `restore` | does restore take the last snapshot whose save began under an earlier server, bring back exactly what its filter keeps, and leave everything else alone? does every session a server owes come back, although others save and a picker holds the lock? | 2 sessions of 2 shapes (3 panes with room for 2, 1 idle shell), 3 user actions of 5 kinds, 2 saves with a limit of 2, 1 picker or restore by hand, 1 tick within a second of 2 |
| `restore_anchor` | "snapshots written by the current server's own save hooks ... can never be selected" | 2 sessions of one pane, 3 user actions of 2 kinds, 2 saves, 2 ticks |
| `restore_attached` | "Skip session if last_attached older than threshold" | 4 user actions, 2 saves, 3 ticks |
| `picker` | is what is shown what Enter restores, are cursors where they should be and in view, does every preview arrive? | snapshot lists of 0, 1 and 3 with one that does not parse; every pair of 5 kinds of closes at two times, triples around another, a list longer than its frame, closes of no session and a picker outside any; terminals of 130x18 and 100x6, 2 scrollbacks |
| `picker_nav` | "so the user can step onto a collapsed window/session and press Right to re-expand" | the snapshot lists of `picker` |

Why the bounds are enough. In `SnapshotStore`, two processes show every race, since the lock
admits one at a time and the third would only repeat the second; two panes with two texts
give shared and distinct texts, concurrent workers and a link loop that can die half way;
three snapshots with a limit of one prune old and new ones; a death at every point is
reached with one death, because a death leaves nothing but the tables. Time matters only
through `now - last_save_ts`, days and the week, so a handful of ticks around one interval,
one day and one week covers all orders. `MaxClock`, `MaxChanges`, `MaxId`, `MaxStops` are
the only bounds and stand in the guards of `Tick`, `MayChange`, `SaveStart`, `Stop` and the
failure actions. `SkipLosesNoStructure` is checked with a week longer than the run: once
snapshots of one millisecond have left the week, retention may drop the one with the larger
id, which is the exception `PruneKeepsLatest` names.

In `CloseEvents`, three user actions are two things made and one closed, moved or undone, or
one session of which first a pane and then the rest is closed: enough for two hooks that
overtake each other (each close of a last pane starts three), a snapshot between them, and
an undo. Two saves with a limit of one prune, and a day kept by the floor puts a snapshot on
either side of a close. `Ops` picks the user actions of a run, `MaxChanges` bounds them,
with undo among them; `MaxClock`, `MaxSaves` and `MaxLost` bound time, saves and losses and
stand in the guards of `Tick`, `SaveStart`, `Abort` and `Asked`. The counterexamples that
are longer have runs of their own with fewer kinds of actions and up to six of them. Every
behaviour ends when these are used up, so deadlock is not checked. `Quiet` names commands
during which the user sits still: it shortens some of the runs that search for a
counterexample and is empty in the runs that pass. A tick stands for the dedup window; days
are two ticks. The undo scan sees its fifty rows, more than a run makes, but in
`close_scan`, where it sees two of three.

In `Restore`, a server and its successor are what a restore is between; two saves are one
of each server, two of the old one, or one that begins under the one and lists the other,
and a limit of two keeps both, so that which is older matters. Three user actions after the
first session make another window or session, kill the server and start the next, or work
into the restore. The clock begins in the middle of a second, so a save and a server birth
share one. The large shape has a listed command, an idle shell and an agent with a
relaunch of its own, and one pane more than there is room for; the small one is dropped
by the filter. `MaxClock`, `MaxWindows`, `MaxChanges`, `MaxSaves` and `MaxPicks` stand in
the guards of `Tick`, `NewWindow`, `Changed`, `SaveStart` and `Pick` and `RestoreByHand`
(`saves` counts the rows that were stored), and `Toggles` says which settings of its two
toggles the picker is left with: the defaults and both off. The runs have no age limit on
snapshots; the theorems hold for any.

In `Picker`, the snapshots have a running session and one that is gone, a window of two
panes and one of one, texts longer and shorter than the preview; the closes have every
scope, one that cannot be recovered and one whose session has another name. The sizes
give a list beside its preview and one above it, with fewer rows than entries, and the least
panel, in which the tree has no room for a row. `MaxX`
bounds the sideways scroll, which nothing reads back. The picker ends when it is
closed, so deadlock is not checked.

**Fairness** (liveness properties only). In `snapshot_live`, time passes; a started process
takes its next step; saves are started again and again (the systemd timer or the tmux 3.8
monitor hook, once a minute) and get the lock, hence strong fairness of `SaveStart`:
`Acquire` polls, and the lock is free again and again because every holder ends. Deaths are
excluded in the liveness runs. `close_live` assumes the same of `CloseEvents`: the steps of
the holder (`CaptureEnd` and those of a save) are weakly fair; that some waiting hook gets
the lock is strongly fair, since each polls every 50 ms while holders come and go. A picker,
which makes hooks wait for as long as it is open, is not in `CloseEvents`. `restore`: weak
fairness of whatever the holder can end with (`ApplyStep`, `Applied`, a save that fails, a
picker that is cancelled: a command goes on, the user closes the picker some time; that a
save succeeds is not assumed), strong fairness of `Answered`, that the restore has its turn,
for the polling. Nothing is assumed of the user, of saves or of time. `picker`: weak
fairness of `ScrollbackLoaded`, one for each text, because the runtime runs every command it
was given; nothing of the user's keys.

**Findings**, one run each.

- `close_killed`: a save between two kills makes the first kill's hook record the second
  pane, so the first leaves no row ("Recording nothing beats recording a lie").
- `close_resolve`: what no snapshot holds resolves to something else: the close of a
  session to another session that was renamed or closed too ("it is unambiguous, and a
  rename explains the mismatch"), a window to a window of another server whose id was the
  same, because ids restart.
- `close_scan`: undo discards the dead rows it sees and promises the next press a restore;
  with more close events than the scan sees, discarding lets older dead rows into view, and
  the next press discards those instead ("this press explains them and the next one
  restores").
- `restore_anchor`: a save takes its time before it asks tmux what runs. Begun with no server
  in the last instant of a second and listing a server born in the next, it stores that
  server's own sessions under a time before its start, and that server's restore takes them
  for the past ("snapshots written by the current server's own save hooks ... can never be
  selected"), so what the previous server had does not come back. What holds is
  `AutoPicksThePast`: the save behind the snapshot *began* under an earlier server.
- `restore_attached`: a session that restore made and nobody attached to has no
  last_attached, is stored with 0 and dropped as stale at the next restart, however young
  ("Skip session if `last_attached` older than threshold").
- `picker_nav`: the toggle of running sessions folds rows away under the tree's cursor;
  where the cursor ends two rows past the last, neither Up, Down, Left nor Right does
  anything, until the toggle is pressed again or Tab moves the cursor.

Seen while modelling, without a run:

- last_save_* is written after the event; after a death in between, going back to the
  older structure is skipped as unchanged although the latest snapshot shows another
  one, against "So structure always saves" (save.go:86).
- A structural change within the throttle interval is saved without scrollback, and its
  recorded fingerprint makes every later timer save skip: an idle server never gets its
  scrollback, against README.md:11.
- A session that dies between the listings of `Build` is saved without windows; undo of
  its close does nothing, cannot fail, and deletes the row, against main.go:310.
- A save that dies between inserting and linking leaves a surviving snapshot whose texts
  gc deletes; a file written just before a death is never collected.
- Pruning a snapshot can make an unrecoverable close restorable again, from an older
  snapshot, against "Recoverability only decays" (main.go:339), on which discarding rests.
- A window closed long before its session loses its row when the session's hook
  gets the lock first, because dedup compares the time a row was written.
- `capture-event` takes the empty list of a failed query for the truth ("which is also the
  truth: nothing survived", main.go:762): a window that was moved is then recorded as closed
  although it runs. `ClosedIsGone` is therefore about rows whose list of survivors has
  anything in it.
- With the panel under the list and six rows or fewer, the tree's frame has two lines, its
  border and its title, and cuts the row of the cursor off (view.go:426); `ListShowsCursor`
  states that exception.
- A save in the second in which the next server starts is not before that server, so the
  session it alone holds is not restored (README.md:160 promises the last snapshot before
  the server).
- Right and Left in the picker's tree do not reset the scroll offset of the preview, moves
  in the list do not reset its sideways one; after a toggle the preview of the pane that
  came under the cursor says "(scrollback pending)" until the next key.

## 4. Proofs

Every invariant and every action property that a passing run checks is a theorem here,
for every value of the constants; one has a hypothesis, named below. The liveness
properties stay with TLC.

**`SnapshotStoreProofs`** proves, from `ConstAssumption` and `DaysAssumption`: `TypeOK`,
`RefcountExact`, `LinkedIsReadable`, `InFlightIsReadable`, `CompleteIsReadable`,
`PruneKeepsLatest`, `SkipLosesNoStructure`, and that `Spec` implements `ScrollbackArchive`.

The inductive invariant `IInv` (also an invariant of `snapshot_safety`) has these
parts. `OnlyHolder`: who does not hold the lock is idle with empty locals; this is
what makes every step a step of a single process. `SaverInv`: what the workers have
done for a pane, so that what is inserted and linked has its file and row.
`LinkerInv`: the linking save works on the newest id, each pane once, with the
manifest's texts; without it a link could repeat and the count would drift from the
set. `CollectorInv`: what gc holds has no link, which is where the lock is needed.
`TablesInv`: fresh ids, exact counts, linked implies readable. `CompleteIsLinked`:
every text a finished manifest names is linked. `Frame` and `LocalStep` prove once
what holds of all processes but the one that moves; there is one lemma per action;
`CountAdd` and `CountRemove` are the cardinality facts behind the bumped refcount and
the trigger.

`SkipsLoseNothing` (`SkipLosesNoStructure`) adds the invariant `Recorded`: while a save
writes its three last_save_* values, its snapshot is the latest and what is written so
far is of it (`RecorderInv`); when no save does, the latest snapshot is the one they
describe, or its save died before it had written them (`Settled`). That the row a save
inserts becomes the latest needs the lock and a clock that does not go back
(`TimesInv`). The hypothesis `LatestIsSafe` excludes the exception `PruneKeepsLatest`
names: two snapshots of one millisecond, the latest, both older than the week, of which
retention may drop the one with the larger id. It always holds in the runs, whose week
is longer than they are.

**`CloseEventsProofs`**, from `EventsAssumption` and `ResolutionAssumption`.
`NoneBehind` (`NoSnapshotBehind`): every row is no later than the clock and no younger
than its id (`RowsInv`), and while a save holds the lock every close is no later than
the save's timestamp (`SaverInv`): no hook can record between `SaveStart` and
`SaveInsert`, which is where the lock is needed. `PruningIsHarmless`
(`PruneKeepsRecoverable`): a row the pruning takes has no snapshot before it, in any
outcome of the retention query.

`RecordedIsClosed` (`ClosedIsGone`) speaks of every row whose list of survivors has anything
in it: since a failed query is taken for an empty server, an empty list tells nothing. It
rests on one idea: an id is given out once, so what was given out and is not running never
runs again (`NothingReturns`). `GoneInv` then only has to say that everything the program
stores names ids that were given out: what runs and the counter (`ServerInv`), what a
waiting hook was told (`HooksInv`), what the first query of `capture-event` saw
(`CaptureInv`: if its hook's window runs, it is listed or nothing is), the listings of a
save in progress (`ListingsInv`) and the rows (`RowInv`: of a close, also that the id is not
running or nothing was listed). The listings and manifests are needed because a killed
pane's row takes its id from the latest snapshot, and a restart must not give an id of the
old server again: it does as a number, not as the pair it is here. `TypeCorrect` (`TypeOK`)
uses the same invariant.

**`RestoreProofs`** proves, for every set of names, shapes and filters, every length of a
second and every bound (`RestoreAssumption`, and `ShapesAssumption`: a window has panes
and its layout a cell for each), `TypeOK`, `AutoPicksThePast`, `OldWindowsUntouched` and
`RestoreIsComplete`. The inductive invariant `IInv` has three
parts. `ServerInv`: windows are finitely many records with ids below the server's next
one, a place of their own and a cell for each pane. `RowsInv`: a row's manifest is made
of what the server can hold (`GoodManifest`) and `Stamped`: its save began under this server
or an earlier one, and if under this one, no earlier than its start time, cut to the second
as it is. So the save of a row before the start began under an earlier server, which is
`AutoPicksThePast`; what it listed may be this server's, as the run `restore_anchor` shows.
`CmdInv`: the time stamp of a save under way is `Stamped` too, and every action
left of a plan is `Ready`, that is, about a window the restore has yet to create earlier
in the plan, could not create (its place is in `failed`), or has created, so that no
window with an old id sits at its place. This is why the bookkeeping of failed windows
suffices although the user goes on working: a place an old window holds fails the
creation, and a window the user makes later has a new id.

`RestoresAreComplete` needs to know where a restore is in the middle of its plan.
`About(plan, p)` are the actions of a plan about the window at place p, and
`PlanActionsAre` says of a new plan that for each window that is due they are exactly its
`WindowActions`, in order, and that a session's first creation comes before its others;
two windows never share a place, because a manifest's sessions and indexes are `Apart`.
`Halfway` says how far a restore is with one window: k of its actions are done and the
window that is there is what k actions make (`Staged`: its creation, its decoration, its
splits while there is room, its layout), or none are and the place is free. `Completing`
says this of all windows that are due, that nothing else is there but sessions that were,
and that nothing failed but what is in those. `CompletingBegins` shows it of a restore that
begins, `CompletingStep` that any action whose `Effect` is at its own place keeps it,
`CreateEffect` and `ArrangeEffect` that the actions of `Apply` are such; the user's steps
end `alone`. When the plan is empty all k are at their end (`LastStage`), and
`ComesBackWithPanes` says that what then stands is what the property names.

That a new plan is good rests on what the folds of `BuildPlan` return. The library's
induction theorems take an operator as a parameter, which the provers cannot
instantiate; `SequenceProofs` gets induction from the pigeonhole principle instead, with
a set in place of the predicate: `NatInduct`, if 0 is in S and S is closed under
successor, Nat is a subset of S. From it come `Recursion` (a function defined by
recursion exists, so its equation may be used), `FlattenSeqClosed` (a set of sequences
with the empty one, closed under concatenation, contains the flattening of its members),
`FlattenPrefixes`, `FlattenOnlyOne` and `FlattenFirst` (an element of a flattened sequence
comes from one of its parts, the only one that has it, in order), `ChosenRanks` and
`ChosenInOrder` (what a subsequence keeps of an order) and `SetToSeqIsSeq`,
`SetToSeqIsApart`. `BuildPlanIsGood`, `ManifestIsGood` and `ManifestIsApart` use them.

**`PickerLayoutProofs`** proves about the functions, for every input: `HeaderStaysInView`
(in a close list of any length and height the cursor is in view and its section's header
shown once), `ColumnsFit` (at every width the columns fill the terminal and the
preview beside a list has the columns the code promises) and `BlocksFit` (the blocks of a
close's preview take no more rows than there are, and each has two; `EvenShare` is the
count behind the remainder that the first blocks get).

**`CloseListProofs`** proves `BuildCloseListIsRight`: of any closes, each listed once, in
any order and of any times, the list has a row for each group, with its newest and its
number, newest group first in its section, and every row that comes under a header (no other
between them) belongs to the section that the header names: to this session if it is about a
window or a pane of the session the picker was opened in. `Groups` and `FinishCloseGroups`
are recursive functions over the closes and the groups; `GroupsSteps` and `FinishSteps` show
that they exist, and the induction then goes one close (`JoinIsGood`) and one rank
(`RankedStep`) at a time. `Prefix` is what makes the rank right: in a sorted sequence the
newer and equal groups are the first ones, so their number is where the next one goes. No
group is in both sections because `Mine` depends on the key alone (`SectionsAreGood`), which
is also why a row tells whose it is (`SectionHasTitle`, `SectionsHaveTitles`).

**`PickerProofs`** proves, for every set of inputs in which ids are not repeated
(`InputsAssumption`: they are primary keys of the store, and a manifest that was parsed is
made of arrays, `IsManifest`), `CloseListIsRight`,
`CursorOnClose`, `ChoiceIsRestorable` and `ManualExpandSurvives`. The inductive invariant
is that what is given is one of the inputs (`GivenInv`), that only the two toggles touch
the filter (`FilterInv`), and that each tree is of a snapshot that parsed and is marked
under the present filter (`TreesInv`). The last is why no decorate pass but the running
toggle's folds: what the marks say of running sessions is already what the pass will
find, since the idle toggle does not change what runs (`RunningIsRunning`).

**`PickerScreenProofs`** adds that every tree is of a snapshot of the list and that only
nodes with something below them are unfolded (`Screen`), and from it proves the picker's
other five properties; `SizesAssumption` says that terminals and scrollbacks have a size.
`TypeCorrect`; `CursorStaysInView` (`ListShowsCursor`), from the layout's lemmas about
every window of every list: the floor of a row count and the height at which the frame cuts
are two things, and `WindowDraws` is about the line of the frame a row is drawn on
(`FrameLine`), which is within that height but for a tree of two lines, where the property
says that the row is cut; `PreviewsReachTheirFirstLine` (`PreviewReachesAll`), where the
furthest scroll is the maximum over the shown texts, so that none is out of reach;
`PreviewsAreScheduled` (`PreviewIsScheduled`), for every step: a key that changes what the
preview reads ends in `PreviewCmd`. `PlanAgreesWithTree` (`PlanIsWhatTheTreeShows`) is the
hardest. The picker walks the paths of a tree and drops those its decorate pass dimmed;
`BuildPlan` walks the manifest and drops what the filter skips. Both are flattenings of
flattenings, sessions over windows over panes. One side of the proof shows that the
undimmed panes of a tree, in its order, are the flattening of the runs each window keeps,
the other that the creations and splits of the plan are, so that both are the same
sequence of places and startup commands and not only the same set.

**Only model-checked**: liveness, which is out of TLAPS's reach (`ChurnEventuallySaved`,
`HooksAreAnswered`, `AutoRestores`, `ClosePreviewCompletes`); and the properties of the
runs that expect a violation, which are false.

## 5. Plan

1. (done) `EventStore`, `SnapshotStore`, `ScrollbackArchive`, proofs.
2. (done) `CloseResolution`, `CloseEvents`, proofs.
3. (done) `RestorePlan`, `Restore`, proofs.
4. (done) `CloseList`, `PickerLayout`, `Picker`, proofs.
5. (done) A theorem for every safety property the passing runs check.
6. (done) A query that fails, a server born between a save's time and its listing, a
   history longer than the scan, frames that cut.
7. A clock that is set back; `EnsureDirs` with the legacy directory move; the geometry of
   `panemap`.

## 6. Not modelled

Colours and texts of the terminal interface, the drawing of pane maps (`panemap`),
parsing of tmux output, shell quoting, compression, logging, the migration runner, the
generated tmux.conf, the agent hook files and the one-time move of a legacy directory:
they hold no state the properties speak about. A clock that is set back is not modelled
either: the code orders everything by wall time and states nothing about such a clock.
