------------------------------- MODULE Restore -------------------------------
(***************************************************************************)
(* From the death of one tmux server into the next: saves, the             *)
(* `restore --auto` that tmux starts with every server, `restore` by hand  *)
(* and the snapshot picker, each applying its plan one tmux command at a   *)
(* time to a server whose user goes on working.                            *)
(*                                                                         *)
(* Time is counted in milliseconds of which Second make one: snapshots     *)
(* have them, a server's start time and last_attached are cut to seconds.  *)
(* A save is two steps here, its time stamp and the rest: SnapshotStore    *)
(* and CloseEvents take that apart.                                        *)
(***************************************************************************)
EXTENDS RestorePlan, EventStore

CONSTANTS
  Name,               \* session names
  Shapes,             \* the windows the user makes: [panes, deco, layout]
  Ops,                \* what the user does beside making sessions
  AutoFilter,         \* cfg: the filter of `restore`
  Toggles,            \* how the picker's user leaves <<skip idle shells, skip running>>
  SnapshotAge,        \* cfg.RestoreMaxSnapshotAge, 0 for no limit
  Keep,               \* cfg.SnapshotHistoryLimit
  Second, BaseIndex, Room,   \* tmux: ms a second, base-index, panes that fit
  Epoch,              \* the first instant of the model, long after 1970
  MaxClock, MaxWindows, MaxChanges, MaxSaves, MaxPicks   \* bounds

ASSUME RestoreAssumption ==
  /\ Second \in Nat \ {0} /\ BaseIndex \in Nat /\ Room \in Nat \ {0} /\ Keep \in Nat \ {0}
  /\ {SnapshotAge, Epoch, MaxClock, MaxWindows, MaxChanges, MaxSaves, MaxPicks} \subseteq Nat
  /\ Toggles \subseteq BOOLEAN \X BOOLEAN

\* A window has panes, and its layout a cell for each.
ASSUME ShapesAssumption ==
  \A s \in Shapes :
    /\ s.panes \in Seq({s.panes[i] : i \in DOMAIN s.panes}) /\ s.panes # <<>>
    /\ s.layout[2] = Len(s.panes)

VARIABLES
  windows,    \* the tmux server: {[id, sess, index, panes, deco, layout]}
  attached,   \* session_last_attached in ms, 0 for none; of live sessions
  server,     \* [n |-> how many there were, start |-> start_time in ms,
              \*  next |-> its next window id]
  clock,
  rows,       \* table events, snapshots only
  lastFP,     \* last_save_fingerprint
  auto,       \* whether the server's `restore --auto` still waits for the lock
  cmd,        \* the command that holds the lock, with its locals
  changes, saves, picks   \* counters of the bounds

counters == <<changes, saves, picks>>
tmux     == <<windows, attached, server>>
vars     == <<tmux, clock, rows, lastFP, auto, cmd, counters>>

Idle      == [op |-> "idle"]
Free      == cmd = Idle
Applying  == cmd.op = "apply"
Saving    == cmd.op = "save"
Live      == {w.sess : w \in windows}

\* Mutant: rounded up.
SecUp(t) == ((t + Second - 1) \div Second) * Second

\* #{start_time} and session_last_attached are whole seconds.
Sec(t) == (t \div Second) * Second

Window(n, i, shape) ==
  [id |-> server.next, sess |-> n, index |-> i,
   panes |-> shape.panes, deco |-> shape.deco, layout |-> shape.layout]

\* The program is installed on a server that runs.
Init ==
  /\ clock = Epoch /\ server = [n |-> 1, start |-> Sec(Epoch), next |-> 2]
  /\ \E n \in Name, shape \in Shapes :
       /\ windows = {[Window(n, BaseIndex, shape) EXCEPT !.id = 1]}
       /\ attached = [m \in Name |-> IF m = n THEN Sec(Epoch) ELSE 0]
  /\ rows = {} /\ lastFP = {} /\ auto = FALSE /\ cmd = Idle
  /\ changes = 0 /\ saves = 0 /\ picks = 0

-----------------------------------------------------------------------------
(* The user and the tmux server *)

Numbered == server' = [server EXCEPT !.next = @ + 1]

Changed  == changes < MaxChanges /\ changes' = changes + 1
May(op)  == op \in Ops /\ Changed

\* A restore that the user works into is not alone any more.
Disturb == cmd' = IF Applying THEN [cmd EXCEPT !.alone = FALSE] ELSE cmd

\* The first session is born with its server, whose tmux.conf starts the
\* restore; the user's own sessions are attached.
NewSession ==
  /\ Changed /\ Disturb
  /\ \E n \in Name \ Live, shape \in Shapes :
       /\ windows' = windows \cup {Window(n, BaseIndex, shape)}
       /\ attached' = [attached EXCEPT ![n] = Sec(clock)]
  /\ IF windows = {}
     THEN server' = [n |-> server.n + 1, start |-> Sec(clock), next |-> 2] /\ auto' = TRUE
     ELSE Numbered /\ UNCHANGED auto
  /\ UNCHANGED <<clock, rows, lastFP, saves, picks>>

NewWindow ==
  /\ May("newWindow") /\ Disturb /\ Cardinality(windows) < MaxWindows
  /\ \E n \in Live, shape \in Shapes :
       \E i \in BaseIndex .. BaseIndex + MaxWindows :
         /\ \A w \in windows : w.sess = n => w.index # i
         /\ windows' = windows \cup {Window(n, i, shape)}
  /\ Numbered /\ UNCHANGED <<attached, clock, rows, lastFP, auto, saves, picks>>

Attach ==
  /\ May("attach") /\ Disturb
  /\ \E n \in Live : attached[n] # Sec(clock) /\ attached' = [attached EXCEPT ![n] = Sec(clock)]
  /\ UNCHANGED <<windows, server, clock, rows, lastFP, auto, saves, picks>>

\* The end of the last window ends the server, which takes its jobs and
\* popups with it: the restore and the picker.  The timer's save goes on.
Remain(left) ==
  /\ windows' = left /\ server' = IF left = {} THEN [server EXCEPT !.next = 1] ELSE server
  /\ attached' = [n \in Name |-> IF \E w \in left : w.sess = n THEN attached[n] ELSE 0]
  /\ IF left = {} THEN auto' = FALSE /\ cmd' = IF Saving THEN cmd ELSE Idle
     ELSE Disturb /\ UNCHANGED auto
  /\ UNCHANGED <<clock, rows, lastFP, saves, picks>>

KillWindow == May("killWindow") /\ \E w \in windows : Remain(windows \ {w})

KillServer == May("killServer") /\ windows # {} /\ Remain({})

Tick ==
  /\ clock < MaxClock /\ clock' = clock + 1
  /\ UNCHANGED <<tmux, rows, lastFP, auto, cmd, counters>>

-----------------------------------------------------------------------------
(* save *)

SavedWindow(w) == [id |-> w.id, index |-> w.index, panes |-> w.panes, deco |-> w.deco, layout |-> w.layout]

\* In the order of tmux's listings.
ByIndex(ws) ==
  [i \in 1 .. Cardinality(ws) |->
     CHOOSE w \in ws : Cardinality({v \in ws : v.index <= w.index}) = i]

SessionWindows(n) == {SavedWindow(w) : w \in {v \in windows : v.sess = n}}

Manifest ==
  LET names == SetToSeq(Live)
  IN  [i \in DOMAIN names |->
         [name |-> names[i], attached |-> attached[names[i]],
          windows |-> ByIndex(SessionWindows(names[i]))]]

\* Neither last_attached nor decoration counts as a change.
Fingerprint(m) ==
  {<<m[i].name, [j \in DOMAIN m[i].windows |-> [m[i].windows[j] EXCEPT !.deco = ""]]>> :
     i \in DOMAIN m}

\* The timer or a hook: the save takes the lock and its time stamp.  No two
\* share a millisecond: each holds the lock for longer.
SaveStart ==
  /\ Free /\ saves < MaxSaves /\ \A e \in rows : e.ts < clock
  /\ cmd' = [op |-> "save", ts |-> clock, from |-> server.n]
  /\ UNCHANGED <<tmux, clock, rows, lastFP, auto, counters>>

\* What it saves is the server of this moment, under the earlier time; from
\* and srv, the servers at either, are for the properties.
Row == [id |-> saves + 1, ts |-> cmd.ts, kind |-> "snapshot", from |-> cmd.from,
        srv |-> server.n, man |-> Manifest]

News == windows # {} /\ Fingerprint(Manifest) # lastFP

\* No server or nothing new: no row.
Insert ==
  IF News THEN <<rows \cup {Row}, Fingerprint(Manifest), saves + 1>> ELSE <<rows, lastFP, saves>>

\* Mutant: the limit counts the new row twice.
SavePruneShort ==
  /\ Saving /\ cmd' = Idle
  /\ \E new \in {Insert} :
       rows' = Newest(new[1], Keep - 1) /\ lastFP' = new[2] /\ saves' = new[3]
  /\ UNCHANGED <<tmux, clock, auto, changes, picks>>

SaveEnd ==
  /\ Saving /\ cmd' = Idle
  /\ \E new \in {Insert} :
       rows' \in PruneSnapshots(new[1], Keep, clock) /\ lastFP' = new[2] /\ saves' = new[3]
  /\ UNCHANGED <<tmux, clock, auto, changes, picks>>

\* A query fails, or the save dies.
SaveFails ==
  /\ Saving /\ cmd' = Idle
  /\ UNCHANGED <<tmux, clock, rows, lastFP, auto, counters>>

-----------------------------------------------------------------------------
(* restore --auto and pick *)

\* What Apply starts from; f, running, now, old and alone are what the
\* properties judge it by.
Begin(by, e, f, running) ==
  [op |-> "apply", by |-> by, plan |-> BuildPlan(e.man, f, running, clock), failed |-> {},
   snap |-> e, filter |-> f, running |-> running, now |-> clock,
   old |-> {w.id : w \in windows}, live |-> Live, alone |-> TRUE]

\* Mutant: the newest snapshot, whoever saved it.
RestoreNewest ==
  /\ auto /\ Free /\ auto' = FALSE
  /\ \/ LatestSnapshot(rows) = {} /\ UNCHANGED cmd
     \/ \E e \in LatestSnapshot(rows) : cmd' = Begin("restore", e, AutoFilter, Live)
  /\ UNCHANGED <<tmux, clock, rows, lastFP, counters>>

TooOld(e) == SnapshotAge > 0 /\ clock - e.ts > SnapshotAge

\* The last snapshot from before the server.
Anchor == {e \in LatestSnapshotBefore(rows, server.start) : ~TooOld(e)}

RestoreAuto ==
  /\ auto /\ Free /\ auto' = FALSE
  /\ \/ Anchor = {} /\ UNCHANGED cmd
     \/ \E e \in Anchor : cmd' = Begin("restore", e, AutoFilter, Live)
  /\ UNCHANGED <<tmux, clock, rows, lastFP, counters>>

\* The same by hand, at any time.
RestoreByHand ==
  /\ Free /\ windows # {} /\ picks < MaxPicks /\ picks' = picks + 1
  /\ \E e \in Anchor : cmd' = Begin("restore", e, AutoFilter, Live)
  /\ UNCHANGED <<tmux, clock, rows, lastFP, auto, changes, saves>>

\* The picker reads rows and running sessions once and waits for its user.
Pick ==
  /\ Free /\ windows # {} /\ rows # {} /\ picks < MaxPicks /\ picks' = picks + 1
  /\ cmd' = [op |-> "pick", running |-> Live]
  /\ UNCHANGED <<tmux, clock, rows, lastFP, auto, changes, saves>>

\* The picker's filter has no age limit and leaves windows to their panes.
Toggled ==
  {[age |-> 0, idleShells |-> t[1], idleWindows |-> FALSE, skipRunning |-> t[2]] : t \in Toggles}

PickCancel ==
  /\ cmd.op = "pick" /\ cmd' = Idle
  /\ UNCHANGED <<tmux, clock, rows, lastFP, auto, counters>>

PickChoose ==
  /\ cmd.op = "pick"
  /\ \E e \in rows, f \in Toggled : cmd' = Begin("pick", e, f, cmd.running)
  /\ UNCHANGED <<tmux, clock, rows, lastFP, auto, counters>>

-----------------------------------------------------------------------------
(* Apply *)

At(place) == {w \in windows : <<w.sess, w.index>> = place}

\* The command runs behind the replayed scrollback; tmux's shell otherwise.
Pane(run) ==
  [cmd |-> IF run.target = "" THEN "shell" ELSE run.target,
   kids |-> IF run.target = "" THEN 0 ELSE 1, relaunch |-> "", text |-> run.replay]

Fresh(a, place) ==
  [id |-> server.next, sess |-> place[1], index |-> place[2],
   panes |-> <<Pane(a.run)>>, deco |-> "", layout |-> <<"even", 1>>]

\* Mutant: the window stays where new-session puts it.
CreateWindowStays(a) ==
  LET place == IF a.newSession /\ a.at[1] \notin Live THEN <<a.at[1], BaseIndex>> ELSE a.at
  IN  IF At(place) = {} /\ (a.newSession \/ a.at[1] \in Live)
      THEN windows' = windows \cup {Fresh(a, place)} /\ Numbered
                /\ cmd' = [cmd EXCEPT !.plan = Tail(@)]
      ELSE cmd' = [cmd EXCEPT !.plan = Tail(@), !.failed = @ \cup {a.at}] /\ UNCHANGED <<windows, server>>

\* new-session and, unless tmux put the window there, move-window; in a
\* session that is live, new-window, which fails where the index is in use.
CreateWindow(a) ==
  IF At(a.at) = {} /\ (a.newSession \/ a.at[1] \in Live)
  THEN /\ windows' = windows \cup {Fresh(a, a.at)} /\ Numbered
       /\ cmd' = [cmd EXCEPT !.plan = Tail(@)]
  ELSE /\ cmd' = [cmd EXCEPT !.plan = Tail(@), !.failed = @ \cup {a.at}]
       /\ UNCHANGED <<windows, server>>

\* What split-window, select-layout and set-window-option make of a window:
\* a detached window has room for so many panes, a layout needs a cell for
\* every pane.
After(a, w) ==
  IF a.op = "split" /\ Len(w.panes) < Room
  THEN [w EXCEPT !.panes = Append(@, Pane(a.run)), !.layout = <<"even", Len(w.panes) + 1>>]
  ELSE IF a.op = "layout" /\ Len(w.panes) <= a.layout[2] THEN [w EXCEPT !.layout = a.layout]
  ELSE IF a.op = "option" THEN [w EXCEPT !.deco = a.value] ELSE w

\* Mutant: later actions run although their window was not created.
ArrangeAnyway(a) ==
  /\ windows' = (windows \ At(a.at)) \cup {After(a, w) : w \in At(a.at)}
  /\ cmd' = [cmd EXCEPT !.plan = Tail(@)]
  /\ UNCHANGED server

Arrange(a) ==
  /\ windows' = IF a.at \in cmd.failed THEN windows
                ELSE (windows \ At(a.at)) \cup {After(a, w) : w \in At(a.at)}
  /\ cmd' = [cmd EXCEPT !.plan = Tail(@)]
  /\ UNCHANGED server

ApplyStep ==
  /\ Applying /\ cmd.plan # <<>>
  /\ LET a == Head(cmd.plan) IN IF a.op = "window" THEN CreateWindow(a) ELSE Arrange(a)
  /\ UNCHANGED <<attached, clock, rows, lastFP, auto, changes, saves, picks>>

Applied ==
  /\ Applying /\ cmd.plan = <<>> /\ cmd' = Idle
  /\ UNCHANGED <<tmux, clock, rows, lastFP, auto, counters>>

User == NewSession \/ NewWindow \/ Attach \/ KillWindow \/ KillServer

Next ==
  User \/ Tick \/ SaveStart \/ SaveEnd \/ SaveFails
  \/ RestoreAuto \/ RestoreByHand \/ Pick \/ PickCancel \/ PickChoose \/ ApplyStep \/ Applied

Spec == Init /\ [][Next]_vars

\* The restore that waits for the lock has had its turn (or its server died).
Answered == auto /\ Free /\ auto' = FALSE

\* Commands that run go on, and one that does not end otherwise ends without
\* success: the save fails, the user closes the picker.  The restore, which
\* polls for the lock, gets it.
FairSpec ==
  Spec /\ WF_vars(SaveFails \/ PickCancel \/ ApplyStep \/ Applied) /\ SF_auto(Answered)
-----------------------------------------------------------------------------
(* Properties *)

\* Types: an id names one window, an index of a session holds one, and a
\* restore that runs has a server.
TypeOK ==
  /\ \A v, w \in windows : v = w \/ (v.id # w.id /\ <<v.sess, v.index>> # <<w.sess, w.index>>)
  /\ \A w \in windows : w.id < server.next /\ w.sess \in Name /\ Len(w.panes) \in 1 .. w.layout[2]
  /\ clock \in Epoch .. MaxClock \cup {Epoch} /\ server.start <= clock
  /\ cmd.op \in {"idle", "save", "pick", "apply"}
  /\ auto \/ cmd.op \in {"pick", "apply"} => windows # {}

\* Apply never changes a window that was there when it began: not by a
\* split, layout or option meant for one it failed to create (apply.go:
\* "land on whatever unrelated live window happens to sit there"), however
\* stale the picker's set of running sessions is.
OldWindowsUntouched ==
  [][ApplyStep => \A w \in windows : w.id \in cmd.old => w \in windows']_vars

\* `restore` never brings back what its server's saves recorded, though
\* server birth and saves race and start times are cut to seconds: the save
\* behind its snapshot began under an earlier server.
AutoPicksThePast == Applying /\ cmd.by = "restore" => cmd.snap.from < server.n

\* The panes of a window that come back: those that are not idle shells,
\* started with their command or the shell, as many as fit.
ComesBack(f, w) ==
  LET kept == {i \in DOMAIN w.panes : ~SkipPane(f, w.panes[i])}
      nth(k) == CHOOSE i \in kept : Cardinality({j \in kept : j <= i}) = k
      n    == IF Cardinality(kept) < Room THEN Cardinality(kept) ELSE Room
  IN  [k \in 1 .. n |-> Pane(Startup(w.panes[nth(k)]))]

\* A restore nobody works into brings back every session that is neither
\* skipped nor live, at the recorded indexes, with layout and decoration;
\* and no other session.
RestoreIsComplete ==
  Applying /\ cmd.plan = <<>> /\ cmd.alone =>
    LET kept == {s \in {cmd.snap.man[i] : i \in DOMAIN cmd.snap.man} :
                   s.name \notin cmd.live /\ SkipReason(cmd.filter, s, cmd.running, cmd.now) = ""}
        is(s) == {[w EXCEPT !.id = 0] : w \in {v \in windows : v.sess = s.name}}
        due(s) == {[id |-> 0, sess |-> s.name, index |-> w.index,
                    panes |-> ComesBack(cmd.filter, w), deco |-> w.deco, layout |-> w.layout] :
                     w \in {s.windows[i] : i \in DOMAIN s.windows}}
    IN  /\ \A s \in kept : is(s) = {w \in due(s) : w.panes # <<>>}
        /\ Live \subseteq cmd.live \cup {s.name : s \in kept}

Kept(f, w) == \E i \in DOMAIN w.panes : ~SkipPane(f, w.panes[i])

\* The last of the older snapshots of earlier servers, and the sessions of
\* it that the filter keeps: what a server that is coming up owes.
Expected == {e \in LatestSnapshot({d \in rows : d.srv < server.n /\ d.ts < server.start}) : ~TooOld(e)}

Owed ==
  UNION {{s.name : s \in {e.man[i] : i \in {j \in DOMAIN e.man :
                            /\ SkipReason(AutoFilter, e.man[j], Live, clock) = ""
                            /\ \E k \in DOMAIN e.man[j].windows : Kept(AutoFilter, e.man[j].windows[k])}}} :
           e \in Expected}

\* A save that its server's birth overtook: restore takes it for the past.
Overtaken == \E e \in rows : e.srv = server.n /\ e.ts < server.start

\* A session of the last server's last snapshot comes back, whatever holds
\* the lock and is saved first, unless its server dies again, its birth
\* overtook a save or the saves of the new one use up the limit, or session
\* or snapshot pass an age limit, before the restore gets the lock.
AutoRestores ==
  \A n \in Name :
    (auto /\ n \in Owed) ~>
      \/ n \in Live \/ windows = {} \/ Overtaken
      \/ Cardinality({e \in rows : e.ts >= server.start}) >= Keep
      \/ \E e \in LatestSnapshotBefore(rows, server.start) :
           TooOld(e) \/ \E i \in DOMAIN e.man :
             e.man[i].name = n /\ SkipReason(AutoFilter, e.man[i], {}, clock) # ""

\* main.go: "snapshots written by the current server's own save hooks ... can
\* never be selected" - what `restore` brings back was saved of another server.
AutoPicksAnotherServer == Applying /\ cmd.by = "restore" => cmd.snap.srv < server.n

\* README: "Skip session if last_attached older than threshold" - a session
\* is left out as stale only if it came up longer ago than the threshold.
FreshIsNotStale ==
  Applying => \A i \in DOMAIN cmd.snap.man :
    SkipReason(cmd.filter, cmd.snap.man[i], cmd.running, cmd.now) = "stale"
      => cmd.now - Epoch > cmd.filter.age
=============================================================================
