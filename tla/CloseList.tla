------------------------------ MODULE CloseList ------------------------------
(***************************************************************************)
(* The flat list of the close picker (internal/picker/closelist.go).  A    *)
(* close is what the picker is given of a close event:                     *)
(*     [id, ts, scope, session, window, pane, lost]                        *)
(* its placement and `lost`, the sub-manifest of what went: sessions       *)
(* [name, windows] of windows [index, panes] of panes [id, cmd, text],     *)
(* where cmd stands for command and cwd.  "" is no session, no pane id, no *)
(* text.                                                                   *)
(***************************************************************************)
EXTENDS Integers, Sequences, FiniteSets, SequencesExt

CONSTANT UnknownSession

Recoverable(closes) == {c \in ToSet(closes) : c.lost # <<>>}

SessionName(c) == IF c.session = "" THEN UnknownSession ELSE c.session

\* Mutant: a closed session's close counts as the session's own.
MineWhole(c, current) == current # "" /\ SessionName(c) = current

\* A session that was closed is not the one we sit in.
Mine(c, current) == current # "" /\ SessionName(c) = current /\ c.scope # "session"

\* The elements of s where keep is true.
Those(s, keep) ==
  LET those[n \in 0 .. Len(s)] ==
        IF n = 0 THEN <<>> ELSE IF keep[n] THEN Append(those[n - 1], s[n]) ELSE those[n - 1]
  IN  those[Len(s)]

WindowsOf(sessions) == FlattenSeq([i \in DOMAIN sessions |-> sessions[i].windows])
PanesOf(windows) == FlattenSeq([i \in DOMAIN windows |-> windows[i].panes])

\* The pane that died, by its id, or else the first of the window.
ClosedPaneInfo(c) ==
  LET all   == PanesOf(WindowsOf(c.lost))
      panes == IF c.scope = "pane" /\ c.pane # ""
               THEN Those(all, [i \in DOMAIN all |-> all[i].id = c.pane]) ELSE all
  IN  IF c.scope = "session" \/ panes = <<>> THEN "" ELSE panes[1].cmd

CollapseKey(c) ==
  [scope |-> c.scope, session |-> SessionName(c), window |-> c.window, cmd |-> ClosedPaneInfo(c)]

-----------------------------------------------------------------------------
Header(section) == [kind |-> "header", section |-> section, id |-> 0]

Row(c) == [kind |-> "close", key |-> CollapseKey(c), id |-> c.id, ts |-> c.ts, count |-> 1]

Selectable(row) == row.kind = "close"

\* Mutant: the group keeps the close it began with.
JoinedFirst(g, c) == [g EXCEPT !.count = @ + 1]

\* A group of one key with one more close: it shows its newest.
Joined(g, c) ==
  LET shown == IF c.ts > g.ts THEN c ELSE g
  IN  [kind |-> "close", key |-> g.key, id |-> shown.id, ts |-> shown.ts, count |-> g.count + 1]

\* Into the group of its key, or a new one.
Join(groups, c) ==
  LET same(g) == g.key = CollapseKey(c)
  IN  IF \E i \in DOMAIN groups : same(groups[i])
      THEN [i \in DOMAIN groups |-> IF same(groups[i]) THEN Joined(groups[i], c) ELSE groups[i]]
      ELSE Append(groups, Row(c))

\* The groups of those of the closes that are in S.
Groups(closes, S) ==
  LET groups[n \in 0 .. Len(closes)] ==
        IF n = 0 THEN <<>>
        ELSE IF closes[n] \in S THEN Join(groups[n - 1], closes[n]) ELSE groups[n - 1]
  IN  groups[Len(closes)]

\* Newest first, groups of one time in the order they came.
Ranked(ranks, g) ==
  InsertAt(ranks, 1 + Cardinality({i \in DOMAIN ranks : ranks[i].ts >= g.ts}), g)

FinishCloseGroups(groups) ==
  LET ranks[n \in 0 .. Len(groups)] == IF n = 0 THEN <<>> ELSE Ranked(ranks[n - 1], groups[n])
  IN  ranks[Len(groups)]

Section(title, groups) ==
  IF groups = <<>> THEN <<>> ELSE <<Header(title)>> \o FinishCloseGroups(groups)

BuildCloseList(closes, current) ==
  LET listed == Recoverable(closes)
      mine   == {c \in listed : Mine(c, current)}
  IN  Section("this", Groups(closes, mine)) \o Section("other", Groups(closes, listed \ mine))

\* For the properties: the rows with headers, the closes that follow a header,
\* and whether a row is about a window or pane of the session we sit in.
Headers(rows) == {i \in DOMAIN rows : ~Selectable(rows[i])}

Under(rows, h, i) == h < i /\ \A j \in h + 1 .. i : j \notin Headers(rows)

OfSession(row, current) ==
  current # "" /\ row.key.session = current /\ row.key.scope # "session"

-----------------------------------------------------------------------------
\* The panes of the window that the preview draws: the one the placement
\* names, the first of a session; by index alone where names disagree and
\* only one session was lost.
ClosePreviewPanes(c) ==
  LET In(sessions) ==
        LET windows == WindowsOf(sessions)
        IN  Those(windows, [i \in DOMAIN windows |-> c.scope = "session" \/ windows[i].index = c.window])
      named == In(Those(c.lost, [i \in DOMAIN c.lost |-> c.session = "" \/ c.lost[i].name = c.session]))
      found == IF named = <<>> /\ Len(c.lost) = 1 THEN In(c.lost) ELSE named
  IN  IF found = <<>> THEN <<>> ELSE found[1].panes
=============================================================================
