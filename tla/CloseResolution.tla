-------------------------- MODULE CloseResolution --------------------------
(***************************************************************************)
(* internal/closeevent and the undo scan of cmd/tmux-remux: what a close   *)
(* hook is taken to mean, and which lost entity a close row is resolved    *)
(* to.  Operators only; CloseEvents runs them.                             *)
(*                                                                         *)
(* A tmux id is a pair <<g, n>>.  Tmux prints n alone; g is the server     *)
(* that handed it out, which the program cannot see and which its          *)
(* decisions may therefore not depend on: they compare Shown ids.          *)
(*                                                                         *)
(* Rows of the events table (see EventStore) carry                         *)
(*   a snapshot   man  = [sessions |-> {[name, id]},                       *)
(*                        windows  |-> {[session, index, id, panes]}]      *)
(*                (a manifest has no session id: that field is auxiliary)  *)
(*   a close      hook = [kind, sess, name, win, pane, lost]               *)
(*                post = [windows |-> {[id, session]}, panes |-> {id}]     *)
(* where lost, the entity tmux really closed, is auxiliary.                *)
(***************************************************************************)
EXTENDS EventStore

CONSTANTS
  NoName,         \* the empty session name
  DedupWindow,    \* dedupWindow, in ticks
  DedupScan,      \* the Limit: 5 of Capture's two queries
  UndoScan        \* undoScanLimit

ASSUME ResolutionAssumption ==
  DedupWindow \in Nat /\ {DedupScan, UndoScan} \subseteq Nat \ {0}

NoId       == <<0, 0>>
Shown(i)   == i[2]
Known(i)   == Shown(i) # 0
ShownIn(S) == {Shown(i) : i \in S}

LiveWindows(post)  == ShownIn({w.id : w \in post.windows})
LiveSessions(post) == {w.session : w \in post.windows}
LivePanes(post)    == ShownIn(post.panes)

-----------------------------------------------------------------------------
(* Capture *)

\* after-kill-pane names no pane: the one pane of the latest snapshot that is
\* no longer listed is taken for it, provided its window is.
KilledPanes(E, post) ==
  LET missing == UNION {{<<w.id, p>> : p \in {q \in w.panes : Shown(q) \notin LivePanes(post)}} :
                          w \in UNION {s.man.windows : s \in LatestSnapshot(E)}}
  IN  {m \in missing : Cardinality(missing) = 1 /\ Shown(m[1]) \in LiveWindows(post)}

\* The hook with its ids filled in; nothing if an id-less one stays a riddle.
Completed(E, hook, post) ==
  IF hook.kind = "pane-died" /\ ~Known(hook.pane)
  THEN {[hook EXCEPT !.win = m[1], !.pane = m[2]] : m \in KilledPanes(E, post)}
  ELSE {hook}

\* Mutant: a window that was only moved passes for closed.
NeverStillLive(hook, post) == FALSE

EntityStillLive(hook, post) ==
  \/ hook.kind = "window-unlinked" /\ Known(hook.win) /\ Shown(hook.win) \in LiveWindows(post)
  \/ hook.kind = "pane-died" /\ Known(hook.pane) /\ Shown(hook.pane) \in LivePanes(post)

\* The newest rows of a kind that are still inside the dedup window.
Fresh(E, kind, now) ==
  {e \in Newest({e \in Closes(E) : e.kind = kind}, DedupScan) : e.ts >= now - DedupWindow}

Cascaded(E, hook, now) ==
  \/ /\ hook.kind # "session-closed" /\ Known(hook.sess)
     /\ \E e \in Fresh(E, "session-closed", now) : Shown(e.hook.sess) = Shown(hook.sess)
  \/ /\ hook.kind = "pane-died" /\ Known(hook.win)
     /\ \E e \in Fresh(E, "window-unlinked", now) :
          Shown(e.hook.sess) = Shown(hook.sess) /\ Shown(e.hook.win) = Shown(hook.win)

\* What Capture records of the hook, if anything.
Recorded(E, hook, post, now) ==
  {h \in Completed(E, hook, post) : ~EntityStillLive(h, post) /\ ~Cascaded(E, h, now)}

-----------------------------------------------------------------------------
(* FindClosed.  An item says what it takes the loss to be, under which     *)
(* session it goes back and with which windows (for a pane, the window it  *)
(* was in).  A query is a set of at most one item.                         *)

Item(lost, session, windows) == [lost |-> lost, session |-> session, windows |-> windows]

\* The session of the hook's name, else the only one that is missing.
FindClosedSession(man, e) ==
  LET missing == {s \in man.sessions : s.name \notin LiveSessions(e.post)}
      named   == {s \in missing : s.name = e.hook.name}
      pick    == IF named # {} THEN named
                 ELSE {s \in missing : Cardinality(missing) = 1}
  IN  {Item(s.id, s.name, {w \in man.windows : w.session = s.name}) : s \in pick}

\* A hook always brings the window id and a snapshot of today always has
\* them, so the match by position for older snapshots is left out.
FindClosedWindow(man, e) ==
  {Item(w.id, w.session, {w}) :
     w \in {v \in man.windows : /\ Shown(v.id) = Shown(e.hook.win)
                                /\ Shown(v.id) \notin LiveWindows(e.post)}}

FindClosedPane(man, e) ==
  UNION {{Item(p, w.session, {w}) :
            p \in {q \in w.panes : /\ Shown(q) = Shown(e.hook.pane)
                                   /\ Shown(q) \notin LivePanes(e.post)}} :
           w \in man.windows}

FindClosed(man, e) ==
  CASE e.kind = "session-closed"  -> FindClosedSession(man, e)
    [] e.kind = "window-unlinked" -> FindClosedWindow(man, e)
    [] e.kind = "pane-died"       -> FindClosedPane(man, e)

Resolve(E, e) == UNION {FindClosed(s.man, e) : s \in LatestSnapshotBefore(E, e.ts)}

Recoverable(E, e) == Resolve(E, e) # {}

-----------------------------------------------------------------------------
(* restorableClose: what `undo --pop` pressed in a session goes for.       *)
(* NoName stands for no session context.                                   *)

\* The recorded name, else the session of what the row resolves to.
OwnedBy(E, e, session) ==
  IF e.hook.name # NoName THEN e.hook.name = session
  ELSE \E i \in Resolve(E, e) : i.session = session

Mine(E, e, session) == session = NoName \/ OwnedBy(E, e, session)

Scan(E) == Newest(Closes(E), UndoScan)

Best(E, session)     == First({e \in Scan(E) : Mine(E, e, session) /\ Recoverable(E, e)})
Fallback(E, session) == First({e \in Scan(E) : ~Mine(E, e, session) /\ Recoverable(E, e)})

\* This session's dead rows in front of its newest restorable one.
Discarded(E, session) ==
  {e \in Scan(E) : /\ Mine(E, e, session) /\ ~Recoverable(E, e)
                   /\ \A b \in Best(E, session) : Newer(e, b)}

MoreAvailable(E, session) == Best(E, session) # {} \/ Fallback(E, session) # {}

\* The row a press restores: none when it discards instead.
UndoTarget(E, session) ==
  IF Discarded(E, session) # {} THEN {}
  ELSE IF Best(E, session) # {} THEN Best(E, session) ELSE Fallback(E, session)
=============================================================================
