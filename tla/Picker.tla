-------------------------------- MODULE Picker --------------------------------
(***************************************************************************)
(* The picker (internal/picker): the model behind `pick --kind=snapshot`   *)
(* and `pick --kind=close`, one action per key or message that Update      *)
(* handles.  Snapshot mode walks a list of snapshots and the tree of one;  *)
(* close mode walks the flat list of closes.  Both preview scrollback,     *)
(* which is loaded beside the event loop.                                  *)
(*                                                                         *)
(* Positions are counted from 1 (the code counts from 0), 0 is none.  A    *)
(* node of a tree is its path: <<s>>, <<s, w>> or <<s, w, p>>.             *)
(***************************************************************************)
EXTENDS RestorePlan, CloseList, PickerLayout

CONSTANTS
  Inputs,    \* what the picker may be opened on, see Init
  Running,   \* the sessions that ran when it was opened
  Lines,     \* the scrollbacks: [text -> its number of lines]
  Sizes,     \* terminal sizes [width, height]
  MaxX       \* bound: the furthest the preview is scrolled to the right

Texts == DOMAIN Lines

ASSUME SizesAssumption ==
  Sizes \subseteq [width : Nat, height : Nat] /\ Lines \in [Texts -> Nat] /\ MaxX \in Nat

IsSequence(s) == s \in Seq(ToSet(s))

\* The arrays of a manifest that was parsed; "" is no scrollback.
IsManifest(man) ==
  /\ IsSequence(man)
  /\ \A s \in DOMAIN man :
       /\ IsSequence(man[s].windows)
       /\ \A w \in DOMAIN man[s].windows :
            /\ IsSequence(man[s].windows[w].panes)
            /\ \A p \in ToSet(man[s].windows[w].panes) : p.text \in Texts \cup {""}

\* Snapshots and closes are rows of the event store: each is listed once.
ASSUME InputsAssumption ==
  \A in \in Inputs :
    /\ in.mode \in {"snapshot", "close"}
    /\ IsSequence(in.closes)
    /\ \A i, j \in DOMAIN in.closes : in.closes[i].id = in.closes[j].id => i = j
    /\ \A i \in DOMAIN in.closes : in.closes[i].ts \in Int /\ IsManifest(in.closes[i].lost)
    /\ IsSequence(in.events)
    /\ \A i, j \in DOMAIN in.events : in.events[i].id = in.events[j].id => i = j
    /\ \A i \in DOMAIN in.events : IsManifest(in.events[i].man)

VARIABLES
  given,       \* what it was opened on, fixed: [mode, current, events, closes, rows, hidden]
  cursor, focus, treeCursor,
  filter,
  trees,       \* parsed snapshots: [event id -> [expanded, mark]]
  bad,         \* ids of snapshots that could not be parsed
  scroll,      \* previewScroll, lines up from the tail
  scrollX,     \* previewScrollX
  loads,       \* [text -> "none", "loading", "shown" or "failed"]
  size,
  selected,    \* id of what Enter chose, 0 for none
  closed       \* the program has quit

view == <<cursor, focus, treeCursor>>
data == <<filter, trees, bad>>
roll == <<scroll, scrollX>>
vars == <<given, view, data, roll, loads, size, selected, closed>>

InMode(mode) == ~closed /\ given.mode = mode
Body == PreviewInnerHeight(given.mode, size)

-----------------------------------------------------------------------------
(* Trees *)

IsSession(n) == Len(n) = 1
IsPane(n)    == Len(n) = 3
PaneAt(m, n) == m[n[1]].windows[n[2]].panes[n[3]]

\* Every node, each before those below it.
NodesOf(m) ==
  LET panes(s, w)   == [p \in DOMAIN m[s].windows[w].panes |-> <<s, w, p>>]
      windows(s)    == [w \in DOMAIN m[s].windows |-> <<<<s, w>>>> \o panes(s, w)]
  IN  FlattenSeq([s \in DOMAIN m |-> <<<<s>>>> \o FlattenSeq(windows(s))])

BuildTree(m) ==
  LET nodes == NodesOf(m)
  IN  [nodes |-> nodes, expanded |-> {n \in ToSet(nodes) : ~IsPane(n)},
       mark |-> [n \in ToSet(nodes) |-> ""]]

\* Why a node is dimmed; "" when Enter would restore it.
Mark(m, f, n) ==
  LET session == SkipReason(f, m[n[1]], Running, 0)
      window  == IF Len(n) > 1 /\ SkipWindow(f, m[n[1]].windows[n[2]]) THEN "all panes idle" ELSE ""
      pane    == IF IsPane(n) /\ SkipPane(f, PaneAt(m, n)) THEN "idle shell" ELSE window
  IN  IF session = "" THEN pane ELSE session

\* Mutant: a running session is folded at every pass.
FilterDecorateAlways(m, f, t) ==
  LET mark == [n \in ToSet(t.nodes) |-> Mark(m, f, n)]
  IN  [t EXCEPT !.expanded = @ \ {n \in DOMAIN mark : IsSession(n) /\ mark[n] = "running"},
                !.mark = mark]

\* A session is folded when it turns "running" and unfolded when it no longer is.
FilterDecorate(m, f, t) ==
  LET mark   == [n \in ToSet(t.nodes) |-> Mark(m, f, n)]
      is(n)  == mark[n] = "running"
      was(n) == t.mark[n] = "running"
      turned == {n \in DOMAIN mark : IsSession(n) /\ is(n) # was(n)}
  IN  [t EXCEPT !.expanded = (@ \ turned) \cup {n \in turned : was(n)}, !.mark = mark]

Ancestors(n) == {SubSeq(n, 1, k) : k \in 1 .. Len(n)}
DescendsFrom(x, n) == x # n /\ n \in Ancestors(x)

Visible(t) ==
  Those(t.nodes, [i \in DOMAIN t.nodes |->
                    \A k \in 1 .. Len(t.nodes[i]) - 1 : SubSeq(t.nodes[i], 1, k) \in t.expanded])

CurrentEventID ==
  LET list == IF given.mode = "close" THEN given.rows ELSE given.events
  IN  IF cursor \in DOMAIN list THEN list[cursor].id ELSE 0

Event(id)  == CHOOSE e \in {given.events[i] : i \in DOMAIN given.events} : e.id = id
Manifest   == Event(CurrentEventID).man
Built      == CurrentEventID \in DOMAIN trees

\* Of the tree under the cursor, which TLC looks up once where it is bound.
VisibleNodes ==
  IF Built THEN CHOOSE nodes \in {Visible(t) : t \in {trees[CurrentEventID]}} : TRUE ELSE <<>>

\* The node under the tree's cursor, in a set of its own.
Focused == LET nodes == VisibleNodes IN {nodes[i] : i \in DOMAIN nodes \cap {treeCursor}}
OnPane  == \E n \in Focused : IsPane(n)

HasChildren(n) ==
  \E x \in ToSet(trees[CurrentEventID].nodes) : DescendsFrom(x, n)

\* 0 in the code, here 1, when no pane is visible.
FirstPaneIdx == Larger(1, SelectInSeq(VisibleNodes, IsPane))

IndexOf(n) == SelectInSeq(VisibleNodes, LAMBDA x : x = n)

FirstPaneIdxIn(n) ==
  LET i == SelectInSeq(VisibleNodes, LAMBDA x : IsPane(x) /\ DescendsFrom(x, n))
  IN  IF i = 0 THEN IndexOf(n) ELSE i

\* The tree's cursor shows while the tree has the focus.
HighlightIdx == IF focus = "tree" THEN treeCursor ELSE 0

IsNavTarget(n) == Len(n) > 1 \/ (n \notin trees[CurrentEventID].expanded /\ HasChildren(n))

\* From start on in one direction: the first index in targets, 0 for none and
\* when the walk starts outside 1 .. last.
NextIdx(start, dir, last, targets) ==
  LET ahead == {i \in targets : (i - start) * dir > 0}
  IN  IF start + dir \notin 1 .. last \/ ahead = {} THEN 0
      ELSE IF dir = 1 THEN Min(ahead) ELSE Max(ahead)

NextPaneIdx(dir) ==
  LET nodes == VisibleNodes
  IN  NextIdx(treeCursor, dir, Len(nodes), {i \in DOMAIN nodes : IsNavTarget(nodes[i])})

Selectables == {i \in DOMAIN given.rows : Selectable(given.rows[i])}

\* Mutant: headers are rows like any other.
NextCloseRowIdxHeaders(dir) == NextIdx(cursor, dir, Len(given.rows), DOMAIN given.rows)

NextCloseRowIdx(dir) == NextIdx(cursor, dir, Len(given.rows), Selectables)

-----------------------------------------------------------------------------
(* The preview *)

\* The close under the cursor; none on a header.
ClosePanes ==
  LET id == CurrentEventID
      context == {c \in given.closes : c.id = id}
  IN  IF context = {} THEN <<>> ELSE (CHOOSE c \in context : TRUE).panes

CloseTexts == {p.text : p \in ToSet(ClosePanes)} \ {""}

PaneTexts ==
  IF focus = "tree" THEN {PaneAt(Manifest, n).text : n \in {x \in Focused : IsPane(x)}} \ {""} ELSE {}

\* Mutant: only the first pane's scrollback.
PreviewSHAsFirst ==
  IF given.mode = "close" THEN {ClosePanes[i].text : i \in DOMAIN ClosePanes \cap {1}} \ {""} ELSE PaneTexts

PreviewSHAs == IF given.mode = "close" THEN CloseTexts ELSE PaneTexts

\* Scheduled: what the preview will show next and nobody has asked for yet.
Scheduled(texts) ==
  [t \in Texts |-> IF t \in texts /\ loads[t] = "none" THEN "loading" ELSE loads[t]]

PreviewCmd == loads' = Scheduled(PreviewSHAs')

ClosePaneIsFixed(p) == p.text = "" \/ loads[p.text] # "shown"

CloseBlocks ==
  LET panes == ClosePanes
  IN  CloseBlockHeights([i \in DOMAIN panes |-> ClosePaneIsFixed(panes[i])], Body - CloseHeaderLines)

\* How far each block with a scrollback has to scroll: the label bar takes a row.
CloseOverflows ==
  LET panes  == ClosePanes
      blocks == CloseBlocks
  IN  {Overflow(Lines[panes[i].text], blocks[i] - 1) :
         i \in {j \in DOMAIN blocks : ~ClosePaneIsFixed(panes[j])}}

\* Mutant: the shallowest of the blocks.
CloseMaxScrollLeast == IF CloseOverflows = {} THEN 0 ELSE Min(CloseOverflows)

\* One offset scrolls all blocks: as far as the deepest needs.
CloseMaxScroll == Max({0} \cup CloseOverflows)

\* Layouts parse here.
PaneHintShows == given.mode = "snapshot" /\ HintFits(Body) /\ OnPane

ScrollbackHeight == PaneScrollbackHeight(Body, PaneHintShows)

PaneMaxScroll ==
  Max({0} \cup {Overflow(Lines[t], ScrollbackHeight) : t \in {x \in PaneTexts : loads[x] = "shown"}})

PreviewMaxScroll == IF given.mode = "close" THEN CloseMaxScroll ELSE PaneMaxScroll

-----------------------------------------------------------------------------
(* Opening *)

\* Mutant: a snapshot that does not parse gets its empty tree as well.
EnsureManifestAnyway ==
  LET id    == CurrentEventID'
      known == id = 0 \/ given.mode = "close" \/ id \in bad \cup DOMAIN trees
      tree  == FilterDecorate(Event(id).man, filter, BuildTree(Event(id).man))
  IN  /\ bad' = IF known \/ Event(id).ok THEN bad ELSE bad \cup {id}
      /\ trees' = IF known THEN trees
                  ELSE [i \in DOMAIN trees \cup {id} |-> IF i = id THEN tree ELSE trees[i]]

\* ensureManifest: what is under the cursor is parsed once, and remembered
\* when it cannot be.
EnsureManifest ==
  LET id    == CurrentEventID'
      known == id = 0 \/ given.mode = "close" \/ id \in bad \cup DOMAIN trees
      tree  == FilterDecorate(Event(id).man, filter, BuildTree(Event(id).man))
  IN  /\ bad' = IF known \/ Event(id).ok THEN bad ELSE bad \cup {id}
      /\ trees' = IF known \/ ~Event(id).ok THEN trees
                  ELSE [i \in DOMAIN trees \cup {id} |-> IF i = id THEN tree ELSE trees[i]]

\* What PickCmd hands over: the newest snapshots, or the recoverable closes,
\* listed around the current session.
Opened(in) ==
  LET listed == Recoverable(in.closes)
  IN  [mode |-> in.mode, current |-> in.current, events |-> in.events,
       closes |-> {[id |-> c.id, ts |-> c.ts, key |-> CollapseKey(c), panes |-> ClosePreviewPanes(c)] :
                     c \in listed},
       rows |-> BuildCloseList(in.closes, in.current),
       hidden |-> Len(in.closes) - Cardinality(listed)]

DefaultFilter == [age |-> 0, idleShells |-> FALSE, idleWindows |-> FALSE, skipRunning |-> TRUE]

\* NewPickerModel, Bootstrap and the command of Init.
Init ==
  \E in \in Inputs :
    /\ given = Opened(in)
    /\ cursor = IF in.mode = "close" THEN Larger(1, SelectInSeq(given.rows, Selectable)) ELSE 1
    /\ focus = "list" /\ treeCursor = 1 /\ filter = DefaultFilter
    /\ LET first == IF in.mode = "snapshot" /\ in.events # <<>> THEN {in.events[1]} ELSE {}
       IN  /\ bad = {e.id : e \in {x \in first : ~x.ok}}
           /\ trees = [i \in {e.id : e \in {x \in first : x.ok}} |->
                         FilterDecorate(Event(i).man, filter, BuildTree(Event(i).man))]
    /\ scroll = 0 /\ scrollX = 0 /\ selected = 0 /\ closed = FALSE
    /\ size = [width |-> 0, height |-> 0]
    /\ loads = [t \in Texts |-> IF t \in PreviewSHAs THEN "loading" ELSE "none"]

-----------------------------------------------------------------------------
(* Messages *)

Resize ==
  /\ ~closed /\ size' \in Sizes \ {size}
  /\ UNCHANGED <<given, view, data, roll, loads, selected, closed>>

\* loadScrollbackCmd has read the file, or could not.
ScrollbackLoaded(t) ==
  /\ ~closed /\ loads[t] = "loading"
  /\ \E result \in {"shown", "failed"} : loads' = [loads EXCEPT ![t] = result]
  /\ UNCHANGED <<given, view, data, roll, size, selected, closed>>

Wheel ==
  /\ InMode("snapshot")
  /\ \/ scroll' = Smaller(scroll + 3, PreviewMaxScroll)
     \/ scroll' = Larger(0, scroll - 3)
  /\ UNCHANGED <<given, view, data, scrollX, loads, size, selected, closed>>

-----------------------------------------------------------------------------
(* Keys of both modes *)

PreviewUpDown ==
  /\ ~closed
  /\ \/ scroll' = IF scroll < PreviewMaxScroll THEN scroll + 1 ELSE scroll
     \/ scroll' = Larger(0, scroll - 1)
  /\ UNCHANGED <<given, view, data, scrollX, loads, size, selected, closed>>

PreviewLeftRight ==
  /\ ~closed
  /\ \/ scrollX' = Larger(0, scrollX - 8)
     \/ scrollX + 8 <= MaxX /\ scrollX' = scrollX + 8
  /\ UNCHANGED <<given, view, data, scroll, loads, size, selected, closed>>

Quit == ~closed /\ closed' = TRUE /\ UNCHANGED <<given, view, data, roll, loads, size, selected>>

Choose(id) == selected' = id /\ closed' = TRUE /\ UNCHANGED <<given, view, data, roll, loads, size>>

(* Close mode *)

CloseUpDown ==
  /\ InMode("close")
  /\ \E dir \in {-1, 1} :
       IF NextCloseRowIdx(dir) = 0 THEN UNCHANGED <<cursor, roll>>
       ELSE cursor' = NextCloseRowIdx(dir) /\ scroll' = 0 /\ scrollX' = 0
  /\ UNCHANGED <<given, focus, treeCursor, data, size, selected, closed>>
  /\ PreviewCmd

CloseEnter == InMode("close") /\ cursor \in DOMAIN given.rows /\ Choose(CurrentEventID)

(* Snapshot mode: the list *)

ListUpDown ==
  /\ InMode("snapshot") /\ focus = "list"
  /\ UNCHANGED <<given, focus, filter, scrollX, size, selected, closed>>
  /\ \E dir \in {-1, 1} :
       IF cursor + dir \in DOMAIN given.events
       THEN cursor' = cursor + dir /\ EnsureManifest /\ treeCursor' = FirstPaneIdx' /\ scroll' = 0
       ELSE UNCHANGED <<cursor, trees, bad, treeCursor, scroll>>
  /\ PreviewCmd

Tab ==
  /\ InMode("snapshot")
  /\ focus' = IF focus = "list" THEN "tree" ELSE "list"
  /\ treeCursor' = IF focus = "list" /\ ~OnPane THEN FirstPaneIdx ELSE treeCursor
  /\ UNCHANGED <<given, cursor, data, roll, size, selected, closed>>
  /\ PreviewCmd

\* Mutant: only the tree on screen.
RedecorateOne(f) ==
  /\ filter' = f
  /\ trees' = [i \in DOMAIN trees |->
                 IF i = CurrentEventID THEN FilterDecorate(Event(i).man, f, trees[i]) ELSE trees[i]]

\* The filter's toggles mark every tree that is built anew.
Redecorate(f) ==
  /\ filter' = f
  /\ trees' = [i \in DOMAIN trees |-> FilterDecorate(Event(i).man, f, trees[i])]

ToggleIdle ==
  /\ InMode("snapshot") /\ Redecorate([filter EXCEPT !.idleShells = ~@])
  /\ UNCHANGED <<given, view, bad, roll, loads, size, selected, closed>>

ToggleSkipRunning ==
  /\ InMode("snapshot") /\ Redecorate([filter EXCEPT !.skipRunning = ~@])
  /\ UNCHANGED <<given, view, bad, roll, loads, size, selected, closed>>

\* A snapshot that did not parse is not restored, a note says so.
Enter ==
  /\ InMode("snapshot") /\ CurrentEventID # 0
  /\ CurrentEventID \notin bad /\ Built /\ Choose(CurrentEventID)

(* Snapshot mode: the tree *)

InTree == InMode("snapshot") /\ focus = "tree"

TreeUpDown ==
  /\ InTree
  /\ \E dir \in {-1, 1} :
       IF NextPaneIdx(dir) = 0 THEN UNCHANGED <<treeCursor, roll>>
       ELSE treeCursor' = NextPaneIdx(dir) /\ scroll' = 0 /\ scrollX' = 0
  /\ UNCHANGED <<given, cursor, focus, data, size, selected, closed>>
  /\ PreviewCmd

Fold(n)   == trees' = [trees EXCEPT ![CurrentEventID].expanded = @ \ {n}]
Unfold(n) == trees' = [trees EXCEPT ![CurrentEventID].expanded = @ \cup {n}]

\* Mutant: moving into a pane schedules no scrollback.
TreeRightSilent ==
  /\ InTree
  /\ UNCHANGED <<given, cursor, focus, filter, bad, roll, loads, size, selected, closed>>
  /\ LET parents == {n \in Focused : HasChildren(n)}
     IN  \/ \E n \in parents : Unfold(n) /\ treeCursor' = FirstPaneIdxIn(n)'
         \/ parents = {} /\ UNCHANGED <<trees, treeCursor>>

\* Into the first pane below, unfolding what is folded; nothing on a pane.
TreeRight ==
  /\ InTree
  /\ UNCHANGED <<given, cursor, focus, filter, bad, roll, size, selected, closed>>
  /\ LET parents == {n \in Focused : HasChildren(n)}
     IN  \/ \E n \in parents : Unfold(n) /\ treeCursor' = FirstPaneIdxIn(n)'
         \/ parents = {} /\ UNCHANGED <<trees, treeCursor>>
  /\ PreviewCmd

\* Fold the nearest unfolded node from the cursor up and move there.
TreeLeft ==
  /\ InTree
  /\ UNCHANGED <<given, cursor, focus, filter, bad, roll, size, selected, closed>>
  /\ LET foldable == {x \in UNION {Ancestors(n) : n \in Focused} :
                        x \in trees[CurrentEventID].expanded /\ HasChildren(x)}
         nearest  == {x \in foldable : \A y \in foldable : Len(y) <= Len(x)}
     IN  \/ \E x \in nearest : Fold(x) /\ treeCursor' = IndexOf(x)'
         \/ nearest = {} /\ UNCHANGED <<trees, treeCursor>>
  /\ PreviewCmd

Next ==
  \/ Resize \/ (\E t \in Texts : ScrollbackLoaded(t)) \/ Wheel
  \/ PreviewUpDown \/ PreviewLeftRight \/ Quit
  \/ CloseUpDown \/ CloseEnter
  \/ ListUpDown \/ Tab \/ ToggleIdle \/ ToggleSkipRunning \/ Enter
  \/ TreeUpDown \/ TreeRight \/ TreeLeft

\* Reads of files come to an end; nobody has to press a key.
Spec == Init /\ [][Next]_vars /\ \A t \in Texts : WF_vars(ScrollbackLoaded(t))
-----------------------------------------------------------------------------
(* Properties *)

\* Types; the program closes with a choice or without; trees and errors are
\* kept for different snapshots, and nothing is shown that was not parsed.
TypeOK ==
  /\ cursor \in Nat \ {0} /\ treeCursor \in Nat /\ focus \in {"list", "tree"}
  /\ scroll \in Nat /\ scrollX \in 0 .. MaxX /\ size \in [width : Nat, height : Nat]
  /\ loads \in [Texts -> {"none", "loading", "shown", "failed"}]
  /\ DOMAIN trees \cap bad = {} /\ (given.mode = "close" => DOMAIN trees \cup bad = {})
  /\ \A i \in DOMAIN trees :
       LET nodes == ToSet(NodesOf(Event(i).man))
       IN  DOMAIN trees[i].mark = nodes /\ trees[i].expanded \subseteq {n \in nodes : ~IsPane(n)}
  /\ selected # 0 => closed

\* The cursor of the close list is on a close whenever there is one, never on
\* a section's header (closelist.go: "structural only").
CursorOnClose ==
  given.mode = "close" /\ Selectables # {} => cursor \in Selectables

\* What Enter chooses can be restored: a snapshot that parsed, or the newest
\* recoverable close of the row's group.
ChoiceIsRestorable ==
  selected # 0 =>
    IF given.mode = "snapshot" THEN Event(selected).ok
    ELSE \E c \in given.closes :
           /\ c.id = selected
           /\ \A d \in given.closes : d.key = c.key => d.ts <= c.ts

\* The panes, by their windows, that a tree shows undimmed.
Kept(m, t) ==
  LET shown(n) == [at |-> <<m[n[1]].name, m[n[1]].windows[n[2]].index>>, run |-> Startup(PaneAt(m, n))]
      kept     == Those(t.nodes, [i \in DOMAIN t.nodes |-> IsPane(t.nodes[i]) /\ t.mark[t.nodes[i]] = ""])
  IN  [i \in DOMAIN kept |-> shown(kept[i])]

\* And those that a plan restores.
Restored(plan) ==
  LET panes == Those(plan, [i \in DOMAIN plan |-> plan[i].op \in {"window", "split"}])
  IN  [i \in DOMAIN panes |-> [at |-> panes[i].at, run |-> panes[i].run]]

\* Enter restores what the tree shows undimmed, no more and no less, whenever
\* it is pressed: FilterDecorate (tree.go) and BuildPlan (plan.go) agree on
\* every tree, on screen or not.
PlanIsWhatTheTreeShows ==
  \A i \in DOMAIN trees :
    \A m \in {Event(i).man} : \A plan \in {BuildPlan(m, filter, Running, 0)} :
      Kept(m, trees[i]) = Restored(plan)

\* Only Left and the running toggle fold a node: "a manual re-expand survives
\* later decorate passes" (tree.go), the idle toggle's among them.
ManualExpandSurvives ==
  [][(\E i \in DOMAIN trees : ~(trees[i].expanded \subseteq trees'[i].expanded))
       => TreeLeft \/ ToggleSkipRunning]_vars

\* The close list: every recoverable close in one group, which shows its newest
\* and their number, newest group first, under the header of its section -
\* "THIS SESSION" has the windows and panes of the session we sit in and no
\* other close, and comes first (closelist.go: BuildCloseList).
CloseListIsRight ==
  given.mode = "close" =>
    LET rows  == given.rows
        heads == Headers(rows)
        group(r) == {c \in given.closes : c.key = r.key}
    IN  /\ \A c \in given.closes : \E i \in Selectables : c.key = rows[i].key
        /\ \A i, j \in Selectables : rows[i].key = rows[j].key => i = j
        /\ \A i \in Selectables :
             /\ rows[i].count = Cardinality(group(rows[i]))
             /\ \E c \in group(rows[i]) : c.id = rows[i].id /\ c.ts = rows[i].ts
             /\ \A c \in group(rows[i]) : c.ts <= rows[i].ts
             /\ i - 1 \in Selectables => rows[i - 1].ts >= rows[i].ts
             /\ i - 1 \in DOMAIN rows
        /\ \A h \in heads : h + 1 \in Selectables
        /\ \A h, k \in heads : h < k => rows[h].section = "this" /\ rows[k].section = "other"
        /\ \A h \in heads, i \in Selectables : Under(rows, h, i) =>
             rows[h].section = IF OfSession(rows[i], given.current) THEN "this" ELSE "other"
        /\ heads # {} => 1 \in heads

\* The header over row i.
SectionHeaderIdx(i) == Max({0} \cup {j \in DOMAIN given.rows \ Selectables : j <= i})

\* A window on a list has the row, no row that is not there, and the row on a
\* line its frame does not cut off; a frame that can be whole is.
Draws(window, index, total, above, height) ==
  /\ index \in window.first .. window.last
  /\ window.first >= 1 /\ window.last <= total
  /\ FrameLine(above, window, index) <= height
  /\ height >= 3 + above => FrameLine(above, window, window.last) < height

\* In their frames, whatever the terminal's size, the lists draw their cursor,
\* and so does the tree that has the focus but on six rows or fewer with the
\* panel under it: there its frame has but two lines, border and title.  Nor
\* does the close list, with two rows, lose the header that says whose closes
\* these are (view.go: "the pinned header cannot come back into view").
ListShowsCursor ==
  LET height == ListHeight(given.mode, size)
      budget == RowBudget(height, given.hidden)
      header == SectionHeaderIdx(cursor)
      shown  == CloseListWindow(cursor, Len(given.rows), header, budget)
  IN  /\ given.mode = "close" /\ cursor \in DOMAIN given.rows =>
           /\ Draws(shown.window, cursor, Len(given.rows), IF shown.pin = 0 THEN 0 ELSE 1, height)
           /\ budget > 1 /\ header # 0 =>
                IF shown.pin = 0 THEN header \in shown.window.first .. shown.window.last
                ELSE shown.pin = header /\ header < shown.window.first
      /\ given.mode = "snapshot" /\ cursor \in DOMAIN given.events =>
           Draws(ScrollWindow(cursor, Len(given.events), budget), cursor, Len(given.events), 0, height)
      /\ DrawsTree(given.mode, size) =>
           \A nodes \in {VisibleNodes} : \A window \in {TreeWindow(HighlightIdx, Len(nodes), height)} :
             /\ focus = "list" => window.first = 1
             /\ focus = "tree" /\ treeCursor \in DOMAIN nodes =>
                  IF StacksPanel("snapshot", size) /\ size.height <= 6
                  THEN FrameLine(1, window, treeCursor) > height
                  ELSE Draws(window, treeCursor, Len(nodes), 1, height)

\* A loaded scrollback can be scrolled to its first line, in every block of a
\* close (preview.go: "stopping at the shortest would strand the deepest
\* pane's earliest output"), and what is drawn fits the panel.
Reachable(total, rows) == rows >= 1 => PreviewWindow(total, rows, PreviewMaxScroll).first = 1
PreviewReachesAll ==
  /\ given.mode = "close" =>
       LET panes  == ClosePanes
           blocks == CloseBlocks
       IN  /\ \A i \in DOMAIN blocks :
                /\ ~ClosePaneIsFixed(panes[i]) => Reachable(Lines[panes[i].text], blocks[i] - 1)
                /\ blocks[i] >= 2
           /\ Cardinality(BlockRows(blocks)) <= Larger(0, Body - CloseHeaderLines)
  /\ \A t \in PaneTexts :
       loads[t] = "shown" => Reachable(Lines[t], Body - (IF PaneHintShows THEN PaneMapHintHeight + 1 ELSE 0))

\* Whatever is previewed has been asked for, except after a toggle that moved
\* another pane under the cursor: preview.go's "(scrollback pending)".
PreviewIsScheduled ==
  [][(\A t \in PreviewSHAs : loads[t] # "none") /\ filter' = filter
       => \A t \in PreviewSHAs' : loads'[t] # "none"]_vars

\* Every block of a close's preview gets its text, or the reason why not,
\* without another key (model.go: "missing one leaves that block hanging").
ClosePreviewCompletes ==
  \A t \in Texts :
    given.mode = "close" /\ t \in CloseTexts
      ~> closed \/ loads[t] \in {"shown", "failed"} \/ t \notin CloseTexts

\* The tree's keys reach some node: the cursor is on one, or Up leads to one
\* (model.go: "so the user can step onto a collapsed window/session and press
\* Right to re-expand").
TreeKeysWork ==
  focus = "tree" /\ VisibleNodes # <<>> => Focused # {} \/ NextPaneIdx(-1) # 0
=============================================================================
