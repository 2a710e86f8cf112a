-------------------------- MODULE PickerScreenProofs --------------------------
(***************************************************************************)
(* What the picker has on the screen: a type for all it keeps, cursors     *)
(* that stay in view, previews that were asked for, and a tree that shows  *)
(* what a restore would do.                                                *)
(***************************************************************************)
EXTENDS PickerProofs, PickerLayoutProofs

-----------------------------------------------------------------------------
(* Trees *)

\* The paths in a manifest.
Paths(m) ==
  {n \in Seq(Nat) :
     /\ Len(n) \in 1 .. 3
     /\ n[1] \in DOMAIN m
     /\ Len(n) > 1 => n[2] \in DOMAIN m[n[1]].windows
     /\ Len(n) = 3 => n[3] \in DOMAIN m[n[1]].windows[n[2]].panes}

PanePaths(m, s, w) == [p \in DOMAIN m[s].windows[w].panes |-> <<s, w, p>>]
WindowPaths(m, s) ==
  FlattenSeq([w \in DOMAIN m[s].windows |-> <<<<s, w>>>> \o PanePaths(m, s, w)])

LEMMA SequenceDomain ==
  ASSUME NEW s, IsSequence(s)
  PROVE  Len(s) \in Nat /\ DOMAIN s = 1 .. Len(s)
  BY DEF IsSequence

LEMMA ManifestShape ==
  ASSUME NEW m, IsManifest(m)
  PROVE  /\ Len(m) \in Nat /\ DOMAIN m = 1 .. Len(m)
         /\ \A s \in DOMAIN m :
              /\ Len(m[s].windows) \in Nat /\ DOMAIN m[s].windows = 1 .. Len(m[s].windows)
              /\ \A w \in DOMAIN m[s].windows :
                   /\ Len(m[s].windows[w].panes) \in Nat
                   /\ DOMAIN m[s].windows[w].panes = 1 .. Len(m[s].windows[w].panes)
  BY SequenceDomain DEF IsManifest

LEMMA NodesOfIs ==
  ASSUME NEW m
  PROVE  NodesOf(m) = FlattenSeq([s \in DOMAIN m |-> <<<<s>>>> \o WindowPaths(m, s)])
  BY DEF NodesOf, WindowPaths, PanePaths

LEMMA PathsAre ==
  ASSUME NEW m, IsManifest(m), NEW s \in DOMAIN m
  PROVE  /\ <<s>> \in Paths(m)
         /\ \A w \in DOMAIN m[s].windows :
              /\ <<s, w>> \in Paths(m)
              /\ \A p \in DOMAIN m[s].windows[w].panes : <<s, w, p>> \in Paths(m)
<1>1. s \in Nat
  BY ManifestShape
<1>2. <<s>> \in Paths(m)
  BY <1>1 DEF Paths
<1>3. ASSUME NEW w \in DOMAIN m[s].windows
      PROVE  <<s, w>> \in Paths(m) /\ \A p \in DOMAIN m[s].windows[w].panes : <<s, w, p>> \in Paths(m)
  <2>1. w \in Nat
    BY ManifestShape
  <2>2. <<s, w>> \in Paths(m)
    BY <1>1, <2>1 DEF Paths
  <2>3. ASSUME NEW p \in DOMAIN m[s].windows[w].panes PROVE <<s, w, p>> \in Paths(m)
    <3>1. p \in Nat
      BY ManifestShape
    <3>2. QED
      BY <1>1, <2>1, <3>1 DEF Paths
  <2>4. QED
    BY <2>2, <2>3
<1>4. QED
  BY <1>2, <1>3

LEMMA PathSeqs ==
  ASSUME NEW m, IsManifest(m), NEW s \in DOMAIN m
  PROVE  /\ WindowPaths(m, s) \in Seq(Paths(m))
         /\ \A w \in DOMAIN m[s].windows : PanePaths(m, s, w) \in Seq(Paths(m))
<1> DEFINE ws == m[s].windows
           n == Len(ws)
           A == Paths(m)
           f == [w \in DOMAIN ws |-> <<<<s, w>>>> \o PanePaths(m, s, w)]
<1>1. n \in Nat /\ DOMAIN ws = 1 .. n
  BY ManifestShape
<1>2. ASSUME NEW w \in DOMAIN ws PROVE PanePaths(m, s, w) \in Seq(A)
  <2> DEFINE k == Len(ws[w].panes)
  <2>1. k \in Nat /\ DOMAIN ws[w].panes = 1 .. k
    BY ManifestShape
  <2>2. \A p \in DOMAIN ws[w].panes : <<s, w, p>> \in A
    BY PathsAre
  <2> HIDE DEF k, A
  <2>3. PanePaths(m, s, w) \in [1 .. k -> A]
    BY <2>1, <2>2 DEF PanePaths
  <2>4. QED
    BY <2>1, <2>3
<1>3. ASSUME NEW w \in 1 .. n PROVE f[w] \in Seq(A)
  <2> DEFINE a == <<s, w>>
             t == PanePaths(m, s, w)
  <2>1. f[w] = <<a>> \o t
    BY <1>1
  <2>2. a \in A /\ t \in Seq(A)
    BY <1>1, <1>2, PathsAre
  <2> HIDE DEF a, t, A, f
  <2>3. <<a>> \o t \in Seq(A)
    BY <2>2
  <2>4. QED
    BY <2>1, <2>3
<1>4. f = [w \in 1 .. n |-> f[w]]
  BY <1>1
<1>5. WindowPaths(m, s) = FlattenSeq(f)
  BY DEF WindowPaths
<1> HIDE DEF f, n, A
<1>6. FlattenSeq(f) \in Seq(A)
  BY <1>1, <1>3, <1>4, FlattenSeqType
<1>7. QED
  BY <1>2, <1>5, <1>6 DEF A

\* The nodes of a tree are paths in its manifest.
LEMMA NodesArePaths ==
  ASSUME NEW m, IsManifest(m)
  PROVE  NodesOf(m) \in Seq(Paths(m))
<1> DEFINE n == Len(m)
           A == Paths(m)
           f == [s \in DOMAIN m |-> <<<<s>>>> \o WindowPaths(m, s)]
<1>1. n \in Nat /\ DOMAIN m = 1 .. n
  BY ManifestShape
<1>2. ASSUME NEW s \in 1 .. n PROVE f[s] \in Seq(A)
  <2> DEFINE a == <<s>>
             t == WindowPaths(m, s)
  <2>1. f[s] = <<a>> \o t
    BY <1>1
  <2>2. a \in A /\ t \in Seq(A)
    BY <1>1, PathsAre, PathSeqs
  <2> HIDE DEF a, t, A, f
  <2>3. <<a>> \o t \in Seq(A)
    BY <2>2
  <2>4. QED
    BY <2>1, <2>3
<1>3. f = [s \in 1 .. n |-> f[s]]
  BY <1>1
<1>4. NodesOf(m) = FlattenSeq(f)
  BY NodesOfIs
<1> HIDE DEF f, n, A
<1>5. QED
  BY <1>1, <1>2, <1>3, <1>4, FlattenSeqType DEF A

-----------------------------------------------------------------------------
(* What is listed *)

\* Every tree and every error is of a snapshot of the list.
Listed(ids) == ids \subseteq {given.events[k].id : k \in DOMAIN given.events}

LEMMA GivenShape ==
  ASSUME GivenInv
  PROVE  /\ IsSequence(given.events) /\ given.mode \in {"snapshot", "close"}
         /\ \A k \in DOMAIN given.events : IsManifest(given.events[k].man)
<1>1. PICK in \in Inputs : given = Opened(in)
  BY DEF GivenInv
<1>2. given.events = in.events /\ given.mode = in.mode
  BY <1>1 DEF Opened
<1>3. QED
  BY <1>2, InputsAssumption

LEMMA ListedIsManifest ==
  ASSUME GivenInv, NEW i, Listed({i})
  PROVE  IsManifest(Event(i).man)
<1>1. PICK k \in DOMAIN given.events : given.events[k].id = i
  BY DEF Listed
<1>2. QED
  BY <1>1, EventIs, GivenShape

\* The nodes a tree shows are some of its nodes, in a sequence.
LEMMA VisibleIsSeq ==
  ASSUME NEW A, NEW t, t.nodes \in Seq(A)
  PROVE  Visible(t) \in Seq(A)
  BY ThoseIs DEF Visible

LEMMA VisibleNodesAre ==
  ASSUME GivenInv, TreesInv, Listed(DOMAIN trees)
  PROVE  /\ \E A : VisibleNodes \in Seq(A)
         /\ Built => VisibleNodes \in Seq(Paths(Event(CurrentEventID).man))
<1>1. CASE ~Built
  <2>1. VisibleNodes = <<>>
    BY <1>1 DEF VisibleNodes
  <2>2. VisibleNodes \in Seq({})
    BY <2>1
  <2>3. QED
    BY <1>1, <2>2
<1>2. CASE Built
  <2> DEFINE id == CurrentEventID
             t == trees[id]
             m == Event(id).man
             A == Paths(m)
  <2>1. id \in DOMAIN trees
    BY <1>2 DEF Built
  <2>2. VisibleNodes = Visible(t)
    BY <1>2 DEF VisibleNodes
  <2>3. IsManifest(m)
    <3>1. Listed({id})
      BY <2>1 DEF Listed
    <3> HIDE DEF id
    <3>2. QED
      BY <3>1, ListedIsManifest
  <2>4. t.nodes = NodesOf(m)
    BY <2>1 DEF TreesInv, IsTree
  <2> HIDE DEF t, m, A
  <2>5. t.nodes \in Seq(A)
    BY <2>3, <2>4, NodesArePaths DEF A
  <2>6. Visible(t) \in Seq(A)
    BY <2>5, VisibleIsSeq
  <2>7. QED
    BY <2>2, <2>6 DEF A, m
<1>3. QED
  BY <1>1, <1>2

-----------------------------------------------------------------------------
(* Every tree is of a snapshot of the list *)

LEMMA ListedInit ==
  ASSUME Init
  PROVE  Listed(DOMAIN trees \cup bad)
<1>1. PICK in \in Inputs :
        /\ given = Opened(in)
        /\ LET first == IF in.mode = "snapshot" /\ in.events # <<>> THEN {in.events[1]} ELSE {}
           IN  /\ bad = {e.id : e \in {x \in first : ~x.ok}}
               /\ trees = [i \in {e.id : e \in {x \in first : x.ok}} |->
                             FilterDecorate(Event(i).man, filter, BuildTree(Event(i).man))]
  BY DEF Init
<1> DEFINE first == IF in.mode = "snapshot" /\ in.events # <<>> THEN {in.events[1]} ELSE {}
<1>2. DOMAIN trees \cup bad \subseteq {e.id : e \in first}
  BY <1>1
<1>3. given.events = in.events /\ IsSequence(in.events)
  BY <1>1, InputsAssumption DEF Opened
<1>4. in.events # <<>> => 1 \in DOMAIN in.events
  BY <1>3, SequenceDomain DEF IsSequence
<1>5. QED
  BY <1>2, <1>3, <1>4 DEF Listed

\* What EnsureManifest parses is under the cursor.
LEMMA EnsureLists ==
  ASSUME EnsureManifest, UNCHANGED given
  PROVE  /\ DOMAIN trees' \cup bad' \subseteq DOMAIN trees \cup bad \cup {CurrentEventID'}
         /\ DOMAIN trees \cup bad \subseteq DOMAIN trees' \cup bad'
         /\ \/ UNCHANGED <<trees, bad>>
            \/ /\ given.mode # "close" /\ cursor' \in DOMAIN given.events
               /\ CurrentEventID' = given.events[cursor'].id
               /\ CurrentEventID' \notin DOMAIN trees \cup bad
         /\ DOMAIN trees \cap bad = {} => DOMAIN trees' \cap bad' = {}
<1> DEFINE id == CurrentEventID'
           known == id = 0 \/ given.mode = "close" \/ id \in bad \cup DOMAIN trees
           tree == FilterDecorate(Event(id).man, filter, BuildTree(Event(id).man))
           grown == [i \in DOMAIN trees \cup {id} |-> IF i = id THEN tree ELSE trees[i]]
<1>1. /\ bad' = IF known \/ Event(id).ok THEN bad ELSE bad \cup {id}
      /\ trees' = IF known \/ ~Event(id).ok THEN trees ELSE grown
  BY DEF EnsureManifest
<1>2. DOMAIN grown = DOMAIN trees \cup {id}
  OBVIOUS
<1>3. ~known => given.mode # "close" /\ id # 0 /\ id \notin bad \cup DOMAIN trees
  OBVIOUS
<1>4. ~known => cursor' \in DOMAIN given.events /\ id = given.events[cursor'].id
  BY <1>3 DEF CurrentEventID
<1> HIDE DEF grown, id, known
<1>5. CASE known
  BY <1>1, <1>5
<1>6. CASE ~known /\ Event(id).ok
  BY <1>1, <1>2, <1>3, <1>4, <1>6 DEF id
<1>7. CASE ~known /\ ~Event(id).ok
  BY <1>1, <1>3, <1>4, <1>7 DEF id
<1>8. QED
  BY <1>5, <1>6, <1>7

\* The other steps neither parse nor forget.
LEMMA OthersParseNothing ==
  ASSUME TreesInv, [Next]_vars
  PROVE  ListUpDown \/ (DOMAIN trees' = DOMAIN trees /\ bad' = bad)
<1>1. bad' = bad \/ ListUpDown
  BY DEF Next, vars, data, Resize, ScrollbackLoaded, Wheel, PreviewUpDown, PreviewLeftRight, Quit, CloseUpDown,
     CloseEnter, Choose, Tab, ToggleIdle, ToggleSkipRunning, Enter, TreeUpDown, TreeRight, TreeLeft
<1>2. CASE Elsewhere \/ UNCHANGED vars
  BY <1>1, <1>2 DEF Elsewhere, vars, data
<1>3. CASE ToggleIdle \/ ToggleSkipRunning
  BY <1>1, <1>3 DEF ToggleIdle, ToggleSkipRunning, Redecorate
<1>4. CASE TreeRight \/ TreeLeft
  <2>1. trees' = trees \/ \E X : trees' = [trees EXCEPT ![CurrentEventID].expanded = X]
    BY <1>4, TreeKeysExpand
  <2>2. DOMAIN trees' = DOMAIN trees
    BY <2>1
  <2>3. QED
    BY <1>1, <2>2
<1>5. QED
  BY <1>2, <1>3, <1>4, StepsOnTrees

LEMMA ListedStep ==
  ASSUME TreesInv, Listed(DOMAIN trees \cup bad), [Next]_vars
  PROVE  Listed(DOMAIN trees \cup bad)'
<1>1. UNCHANGED given
  BY GivenStays
<1>2. CASE ListUpDown
  <2>1. UNCHANGED <<trees, bad>> \/ EnsureManifest
    BY <1>2 DEF ListUpDown
  <2>2. QED
    BY <1>1, <2>1, EnsureLists DEF Listed
<1>3. CASE DOMAIN trees' = DOMAIN trees /\ bad' = bad
  BY <1>1, <1>3 DEF Listed
<1>4. QED
  BY <1>2, <1>3, OthersParseNothing

-----------------------------------------------------------------------------
(* Cursors in view *)

LEMMA MaxWithZero ==
  ASSUME NEW S \in SUBSET Nat, IsFiniteSet(S)
  PROVE  /\ Max({0} \cup S) \in Nat /\ Max({0} \cup S) \in {0} \cup S
         /\ \A x \in S : x <= Max({0} \cup S)
<1> DEFINE T == {0} \cup S
<1>1. T \in SUBSET Nat /\ T # {}
  OBVIOUS
<1>2. IsFiniteSet({0})
  BY FS_Singleton
<1>3. IsFiniteSet(T)
  BY <1>2, FS_Union
<1> HIDE DEF T
<1>4. Max(T) \in T /\ \A x \in T : Max(T) >= x
  BY <1>1, <1>3, MinMax
<1>5. QED
  BY <1>1, <1>4 DEF T

LEMMA RowsOfFrame ==
  ASSUME NEW height \in Int, NEW hidden
  PROVE  /\ RowBudget(height, hidden) \in Nat \ {0} /\ TreeRows(height) \in Nat \ {0}
         /\ RowBudget(height, hidden) = 1 \/ RowBudget(height, hidden) <= height - 2
         /\ TreeRows(height) = IF height > 3 THEN height - 3 ELSE 1
         /\ height >= 3 => RowBudget(height, hidden) <= height - 2
  BY DEF RowBudget, FrameRows, TreeRows, Larger

LEMMA HeightsAre ==
  ASSUME NEW mode, NEW s \in [width : Nat, height : Nat]
  PROVE  /\ ListHeight(mode, s) \in Nat /\ PreviewInnerHeight(mode, s) \in Nat \ {0}
         /\ ListHeight(mode, s) >= 2
         /\ StacksPanel(mode, s) /\ s.height <= 6 => ListHeight(mode, s) = 2
         /\ ~(StacksPanel(mode, s) /\ s.height <= 6) => ListHeight(mode, s) >= 3
<1> DEFINE body == BodyHeight(s)
           half == body \div 2
<1>1. body \in Nat /\ body >= 5 /\ (s.height <= 6 => body = 5) /\ (s.height > 6 => body >= 6)
  BY DEF BodyHeight, Larger
<1>2. half \in Nat /\ half <= body /\ half >= 2 /\ (body = 5 => half = 2) /\ (body >= 6 => half >= 3)
  <2> HIDE DEF body
  <2> QED
    BY <1>1
<1>3. PanelFrameHeight(mode, s) = IF StacksPanel(mode, s) THEN body - half ELSE body
  BY DEF PanelFrameHeight
<1>4. ListHeight(mode, s) = IF StacksPanel(mode, s) THEN body - PanelFrameHeight(mode, s) ELSE body
  BY DEF ListHeight
<1> HIDE DEF body, half
<1>5. PanelFrameHeight(mode, s) \in Nat /\ PanelFrameHeight(mode, s) <= body
  BY <1>1, <1>2, <1>3
<1>6. ListHeight(mode, s) = IF StacksPanel(mode, s) THEN half ELSE body
  BY <1>1, <1>2, <1>3, <1>4
<1>7. PreviewInnerHeight(mode, s) \in Nat \ {0}
  BY <1>5 DEF PreviewInnerHeight, Larger
<1>8. /\ ListHeight(mode, s) \in Nat /\ ListHeight(mode, s) >= 2
      /\ StacksPanel(mode, s) /\ s.height <= 6 => ListHeight(mode, s) = 2
      /\ ~(StacksPanel(mode, s) /\ s.height <= 6) => ListHeight(mode, s) >= 3
  BY <1>1, <1>2, <1>6
<1>9. QED
  BY <1>7, <1>8

\* The header over a row is not below it.
LEMMA HeaderIsAbove ==
  ASSUME GivenInv, NEW i \in Nat
  PROVE  SectionHeaderIdx(i) \in 0 .. i
<1> DEFINE S == {j \in DOMAIN given.rows \ Selectables : j <= i}
<1>1. S \in SUBSET (0 .. i)
  BY SelectablesAre
<1>2. IsFiniteSet(0 .. i)
  BY FS_Interval
<1>3. IsFiniteSet(S) /\ S \in SUBSET Nat
  BY <1>1, <1>2, FS_Subset
<1>4. SectionHeaderIdx(i) = Max({0} \cup S)
  BY DEF SectionHeaderIdx
<1> HIDE DEF S
<1>5. Max({0} \cup S) \in {0} \cup S
  BY <1>3, MaxWithZero
<1>6. {0} \cup S \in SUBSET (0 .. i)
  BY <1>1
<1>7. QED
  BY <1>4, <1>5, <1>6

\* A window with no more rows than its frame has lines for.
LEMMA WindowDraws ==
  ASSUME NEW total \in Nat, NEW index \in 1 .. total, NEW window, NEW rows \in Nat,
         window.first \in 1 .. index, window.last \in index .. total,
         window.last - window.first + 1 <= rows,
         NEW above \in Nat, NEW height \in Nat, 1 + above + rows <= height,
         height >= 3 + above => 1 + above + rows < height
  PROVE  Draws(window, index, total, above, height)
<1> DEFINE first == window.first
           last  == window.last
<1>1. first \in Int /\ last \in Int /\ 1 <= first /\ first <= index /\ index <= last /\ last <= total
  OBVIOUS
<1>2. FrameLine(above, window, index) = 1 + above + (index - first + 1)
  BY DEF FrameLine
<1>3. FrameLine(above, window, last) = 1 + above + (last - first + 1)
  BY DEF FrameLine
<1> HIDE DEF first, last
<1>4. last - first + 1 <= rows
  BY DEF first, last
<1>5. FrameLine(above, window, index) <= height
  BY <1>1, <1>2, <1>4
<1>6. height >= 3 + above => FrameLine(above, window, last) < height
  BY <1>1, <1>3, <1>4
<1>7. QED
  BY <1>1, <1>5, <1>6 DEF Draws, first, last

LEMMA CursorInView ==
  ASSUME GivenInv, TreesInv, Listed(DOMAIN trees), size \in [width : Nat, height : Nat]
  PROVE  ListShowsCursor
<1> DEFINE height == ListHeight(given.mode, size)
           budget == RowBudget(height, given.hidden)
           header == SectionHeaderIdx(cursor)
           total  == Len(given.rows)
           shown  == CloseListWindow(cursor, total, header, budget)
<1>1. height \in Nat /\ height >= 2
  BY HeightsAre
<1>2. /\ budget \in Nat \ {0} /\ TreeRows(height) \in Nat \ {0}
      /\ budget = 1 \/ budget <= height - 2
      /\ height >= 3 => budget <= height - 2
      /\ TreeRows(height) = IF height > 3 THEN height - 3 ELSE 1
  <2> HIDE DEF height
  <2> QED
    BY <1>1, RowsOfFrame
<1>3. ASSUME cursor \in DOMAIN given.rows
      PROVE  /\ Draws(shown.window, cursor, total, IF shown.pin = 0 THEN 0 ELSE 1, height)
             /\ budget > 1 /\ header # 0 =>
                  IF shown.pin = 0 THEN header \in shown.window.first .. shown.window.last
                  ELSE shown.pin = header /\ header < shown.window.first
  <2>1. total \in Nat /\ cursor \in 1 .. total
    BY <1>3, SelectablesAre
  <2>2. cursor \in Nat
    BY <2>1
  <2>3. header \in 0 .. cursor
    BY <2>2, HeaderIsAbove
  <2> HIDE DEF height, budget, header, total
  <2>4. /\ shown.window.first \in 1 .. cursor /\ shown.window.last \in cursor .. total
        /\ shown.window.last - shown.window.first + 1 <= budget - (IF shown.pin = 0 THEN 0 ELSE 1)
        /\ budget > 1 /\ header # 0 =>
             IF shown.pin = 0 THEN header \in shown.window.first .. shown.window.last
             ELSE shown.pin = header /\ header < shown.window.first
    BY <1>2, <2>1, <2>3, HeaderStaysInView
  <2>5. shown.pin # 0 => budget >= 2
    BY <1>2 DEF CloseListWindow
  <2> HIDE DEF shown
  <2> DEFINE above == IF shown.pin = 0 THEN 0 ELSE 1
             rows  == budget - above
  <2>6. above \in Nat /\ rows \in Nat /\ 1 + above + rows = 1 + budget
    BY <1>2, <2>5
  <2>7. 1 + budget <= height /\ (height >= 3 + above => 1 + budget < height)
    BY <1>1, <1>2, <2>6
  <2>8. Draws(shown.window, cursor, total, above, height)
    <3> HIDE DEF above, rows
    <3>1. shown.window.last - shown.window.first + 1 <= rows
      BY <2>4 DEF above, rows
    <3>2. QED
      BY <1>1, <2>1, <2>4, <2>6, <2>7, <3>1, WindowDraws
  <2>9. QED
    BY <2>4, <2>8
<1>4. ASSUME cursor \in DOMAIN given.events
      PROVE  Draws(ScrollWindow(cursor, Len(given.events), budget), cursor, Len(given.events), 0, height)
  <2> DEFINE n == Len(given.events)
             w == ScrollWindow(cursor, n, budget)
  <2>1. n \in Nat /\ cursor \in 1 .. n
    BY <1>4, GivenShape, SequenceDomain
  <2> HIDE DEF height, budget, n
  <2>2. w.first \in 1 .. cursor /\ w.last \in cursor .. n /\ w.last - w.first + 1 <= budget
    BY <1>2, <2>1, ScrollWindowShows
  <2> HIDE DEF w
  <2>3. 1 + 0 + budget <= height /\ (height >= 3 + 0 => 1 + 0 + budget < height)
    BY <1>1, <1>2
  <2>4. Draws(w, cursor, n, 0, height)
    BY <1>1, <1>2, <2>1, <2>2, <2>3, WindowDraws
  <2>5. QED
    BY <2>4 DEF w, n
<1>5. ASSUME given.mode = "snapshot"
      PROVE  LET n == Len(VisibleNodes)
                 w == TreeWindow(HighlightIdx, n, height)
             IN  /\ focus = "list" => w.first = 1
                 /\ focus = "tree" /\ treeCursor \in DOMAIN VisibleNodes =>
                      IF StacksPanel("snapshot", size) /\ size.height <= 6
                      THEN FrameLine(1, w, treeCursor) > height
                      ELSE Draws(w, treeCursor, n, 1, height)
  <2> DEFINE n == Len(VisibleNodes)
             rows == TreeRows(height)
             w == TreeWindow(HighlightIdx, n, height)
  <2>1. PICK A : VisibleNodes \in Seq(A)
    BY VisibleNodesAre
  <2>2. n \in Nat /\ DOMAIN VisibleNodes = 1 .. n
    BY <2>1
  <2>3. w = ScrollWindow(HighlightIdx, n, rows)
    BY DEF TreeWindow
  <2>4. /\ StacksPanel("snapshot", size) /\ size.height <= 6 => height = 2
        /\ ~(StacksPanel("snapshot", size) /\ size.height <= 6) => height >= 3
    BY <1>5, HeightsAre
  <2>5. rows \in Nat \ {0} /\ rows = IF height > 3 THEN height - 3 ELSE 1
    BY <1>2
  <2> HIDE DEF height, rows, n, w
  <2>6. ASSUME focus = "list" PROVE w.first = 1
    <3> DEFINE half == rows \div 2
    <3>1. HighlightIdx = 0
      BY <2>6 DEF HighlightIdx
    <3>2. half \in Nat
      BY <2>5
    <3>3. ScrollWindow(0, n, rows) =
            IF n <= rows THEN [first |-> 1, last |-> n]
            ELSE IF Larger(1, 0 - half) + rows - 1 > n THEN [first |-> n - rows + 1, last |-> n]
                 ELSE [first |-> Larger(1, 0 - half), last |-> Larger(1, 0 - half) + rows - 1]
      BY DEF ScrollWindow
    <3> HIDE DEF half
    <3>4. Larger(1, 0 - half) = 1
      BY <3>2 DEF Larger
    <3>5. QED
      BY <2>2, <2>3, <2>5, <3>1, <3>3, <3>4
  <2>7. ASSUME focus = "tree", treeCursor \in 1 .. n
        PROVE  IF StacksPanel("snapshot", size) /\ size.height <= 6
               THEN FrameLine(1, w, treeCursor) > height
               ELSE Draws(w, treeCursor, n, 1, height)
    <3>1. w.first \in 1 .. treeCursor /\ w.last \in treeCursor .. n /\ w.last - w.first + 1 <= rows
      <4>1. w = ScrollWindow(treeCursor, n, rows)
        BY <2>3, <2>7 DEF HighlightIdx
      <4>2. QED
        BY <2>2, <2>5, <2>7, <4>1, ScrollWindowShows
    <3>2. CASE height = 2
      <4>1. FrameLine(1, w, treeCursor) > 2
        BY <2>2, <2>7, <3>1 DEF FrameLine
      <4>2. FrameLine(1, w, treeCursor) > height
        BY <3>2, <4>1
      <4>3. StacksPanel("snapshot", size) /\ size.height <= 6
        <5> SUFFICES ASSUME ~(StacksPanel("snapshot", size) /\ size.height <= 6) PROVE FALSE
          OBVIOUS
        <5>1. height >= 3
          BY <2>4
        <5>2. QED
          BY <3>2, <5>1
      <4>4. QED
        BY <4>2, <4>3
    <3>3. CASE height # 2
      <4>1. height >= 3
        BY <1>1, <3>3
      <4>2. 1 + 1 + rows <= height /\ (height >= 3 + 1 => 1 + 1 + rows < height)
        BY <1>1, <2>5, <4>1
      <4>3. Draws(w, treeCursor, n, 1, height)
        BY <1>1, <2>2, <2>5, <2>7, <3>1, <4>2, WindowDraws
      <4>4. QED
        BY <2>4, <3>3, <4>3
    <3>4. QED
      BY <3>2, <3>3
  <2>8. QED
    BY <2>2, <2>6, <2>7 DEF n, w
<1>6. QED
  BY <1>3, <1>4, <1>5 DEF ListShowsCursor, DrawsTree
-----------------------------------------------------------------------------
(* What the preview shows *)

\* Panes whose texts can be read, or that have none.
TextPanes(panes) ==
  IsSequence(panes) /\ \A p \in ToSet(panes) : p.text \in Texts \cup {""}

LEMMA ElementsAre ==
  ASSUME NEW A, NEW s \in Seq(A)
  PROVE  ToSet(s) \subseteq A /\ IsSequence(s)
  BY DEF ToSet, IsSequence

\* The panes of the window that a close's preview draws.
LEMMA ClosePreviewPanesAre ==
  ASSUME NEW c, IsManifest(c.lost)
  PROVE  TextPanes(ClosePreviewPanes(c))
<1> DEFINE lost == c.lost
           S == ToSet(lost)
           W == UNION {ToSet(s.windows) : s \in S}
           named == Those(lost, [i \in DOMAIN lost |-> c.session = "" \/ lost[i].name = c.session])
           keep(windows) == [i \in DOMAIN windows |-> c.scope = "session" \/ windows[i].index = c.window]
           In(sessions) == Those(WindowsOf(sessions), keep(WindowsOf(sessions)))
           found == IF In(named) = <<>> /\ Len(lost) = 1 THEN In(lost) ELSE In(named)
<1>1. lost \in Seq(S)
  BY DEF IsManifest, IsSequence
<1>2. \A s \in S : s.windows \in Seq(ToSet(s.windows)) /\ \A w \in ToSet(s.windows) : TextPanes(w.panes)
  <2> SUFFICES ASSUME NEW i \in DOMAIN lost
               PROVE  /\ lost[i].windows \in Seq(ToSet(lost[i].windows))
                      /\ \A w \in ToSet(lost[i].windows) : TextPanes(w.panes)
    BY DEF ToSet
  <2>1. /\ IsSequence(lost[i].windows)
        /\ \A w \in DOMAIN lost[i].windows : TextPanes(lost[i].windows[w].panes)
    BY DEF IsManifest, TextPanes
  <2>2. QED
    BY <2>1 DEF IsSequence, ToSet
<1>3. \A w \in W : TextPanes(w.panes)
  BY <1>2
<1>4. \A s \in S : s.windows \in Seq(W)
  <2> TAKE s \in S
  <2> DEFINE T == ToSet(s.windows)
  <2>1. T \subseteq W /\ s.windows \in Seq(T)
    BY <1>2
  <2> HIDE DEF T, W
  <2>2. QED
    BY <2>1
<1>5. named \in Seq(S)
  <2> HIDE DEF S
  <2> QED
    BY <1>1, ThoseIs
<1>6. ASSUME NEW sessions \in Seq(S) PROVE In(sessions) \in Seq(W)
  <2> DEFINE n == Len(sessions)
             f == [i \in DOMAIN sessions |-> sessions[i].windows]
  <2> HIDE DEF S, W
  <2>1. n \in Nat /\ DOMAIN sessions = 1 .. n
    OBVIOUS
  <2>2. \A i \in 1 .. n : f[i] \in Seq(W)
    BY <1>4, <2>1
  <2>3. f = [i \in 1 .. n |-> f[i]]
    BY <2>1
  <2>4. WindowsOf(sessions) = FlattenSeq(f)
    BY DEF WindowsOf
  <2> HIDE DEF n, f, keep
  <2>5. WindowsOf(sessions) \in Seq(W)
    BY <2>1, <2>2, <2>3, <2>4, FlattenSeqType
  <2>6. QED
    BY <2>5, ThoseIs
<1>7. found \in Seq(W)
  <2> HIDE DEF In, S, W, named
  <2> QED
    BY <1>1, <1>5, <1>6
<1>8. ClosePreviewPanes(c) = IF found = <<>> THEN <<>> ELSE found[1].panes
  BY DEF ClosePreviewPanes
<1> HIDE DEF found, W
<1>9. found # <<>> => found[1] \in W
  BY <1>7
<1>10. TextPanes(<<>>)
  BY DEF TextPanes, IsSequence, ToSet
<1>11. QED
  BY <1>3, <1>8, <1>9, <1>10

LEMMA ClosePanesAre ==
  ASSUME GivenInv
  PROVE  TextPanes(ClosePanes)
<1> DEFINE context == {c \in given.closes : c.id = CurrentEventID}
<1>1. ClosePanes = IF context = {} THEN <<>> ELSE (CHOOSE c \in context : TRUE).panes
  BY DEF ClosePanes
<1>2. PICK in \in Inputs : given = Opened(in)
  BY DEF GivenInv
<1>3. \A c \in Recoverable(in.closes) : IsManifest(c.lost)
  BY InputsAssumption DEF Recoverable, ToSet
<1>4. \A c \in given.closes : TextPanes(c.panes)
  BY <1>2, <1>3, RowsAreGood, ClosePreviewPanesAre
<1>5. TextPanes(<<>>)
  BY DEF TextPanes, IsSequence, ToSet
<1>6. QED
  BY <1>1, <1>4, <1>5

\* The node under the tree's cursor is a node of the tree.
LEMMA FocusedIs ==
  ASSUME GivenInv, TreesInv, Listed(DOMAIN trees), NEW n \in Focused
  PROVE  Built /\ n \in ToSet(trees[CurrentEventID].nodes) /\ n \in Paths(Manifest) /\ IsManifest(Manifest)
<1> DEFINE t == trees[CurrentEventID]
           m == Manifest
<1>1. n \in {VisibleNodes[i] : i \in DOMAIN VisibleNodes \cap {treeCursor}}
  BY DEF Focused
<1>2. Built
  <2>1. SUFFICES ASSUME ~Built PROVE FALSE
    OBVIOUS
  <2>2. VisibleNodes = <<>>
    BY <2>1 DEF VisibleNodes
  <2>3. QED
    BY <1>1, <2>2
<1>3. CurrentEventID \in DOMAIN trees
  BY <1>2 DEF Built
<1>4. IsManifest(m)
  <2> DEFINE id == CurrentEventID
  <2>1. Listed({id})
    BY <1>3 DEF Listed
  <2> HIDE DEF id
  <2>2. IsManifest(Event(id).man)
    BY <2>1, ListedIsManifest
  <2>3. QED
    BY <2>2 DEF id, Manifest
<1>5. t.nodes = NodesOf(m)
  BY <1>3 DEF TreesInv, IsTree, Manifest
<1>6. VisibleNodes = Visible(t)
  BY <1>2 DEF VisibleNodes
<1> HIDE DEF t, m
<1>7. t.nodes \in Seq(Paths(m))
  BY <1>4, <1>5, NodesArePaths
<1>8. t.nodes \in Seq(ToSet(t.nodes)) /\ ToSet(t.nodes) \subseteq Paths(m)
  BY <1>7 DEF ToSet
<1>9. Visible(t) \in Seq(ToSet(t.nodes))
  BY <1>8, VisibleIsSeq
<1>10. n \in ToSet(Visible(t))
  BY <1>1, <1>6 DEF ToSet
<1>11. n \in ToSet(t.nodes)
  BY <1>9, <1>10, ElementsAre
<1>12. QED
  BY <1>2, <1>4, <1>8, <1>11 DEF t, m

LEMMA PaneTextsAre ==
  ASSUME GivenInv, TreesInv, Listed(DOMAIN trees)
  PROVE  PaneTexts \subseteq Texts
<1>1. ASSUME NEW n \in Focused, IsPane(n) PROVE PaneAt(Manifest, n).text \in Texts \cup {""}
  <2> DEFINE m == Manifest
  <2>1. IsManifest(m) /\ n \in Paths(m)
    BY FocusedIs
  <2> HIDE DEF m
  <2>2. /\ n[1] \in DOMAIN m /\ n[2] \in DOMAIN m[n[1]].windows
        /\ n[3] \in DOMAIN m[n[1]].windows[n[2]].panes
    BY <1>1, <2>1 DEF Paths, IsPane
  <2>3. PaneAt(m, n) \in ToSet(m[n[1]].windows[n[2]].panes)
    BY <2>2 DEF PaneAt, ToSet
  <2>4. QED
    BY <2>1, <2>2, <2>3 DEF IsManifest, m
<1>2. QED
  BY <1>1 DEF PaneTexts

\* Whatever is previewed is a text that can be read.
LEMMA PreviewedAre ==
  ASSUME GivenInv, TreesInv, Listed(DOMAIN trees)
  PROVE  PreviewSHAs \subseteq Texts
<1>1. CloseTexts \subseteq Texts
  BY ClosePanesAre DEF CloseTexts, TextPanes
<1>2. QED
  BY <1>1, PaneTextsAre DEF PreviewSHAs

\* A preview is not scrolled above its first line.
LEMMA PaneMaxScrollIs ==
  ASSUME GivenInv, TreesInv, Listed(DOMAIN trees), size \in [width : Nat, height : Nat]
  PROVE  /\ PaneMaxScroll \in Nat
         /\ \A t \in PaneTexts : loads[t] = "shown" => Overflow(Lines[t], ScrollbackHeight) <= PaneMaxScroll
<1> DEFINE T == {x \in PaneTexts : loads[x] = "shown"}
           f == [t \in T |-> Overflow(Lines[t], ScrollbackHeight)]
<1>1. T \subseteq Texts
  BY PaneTextsAre
<1>2. ScrollbackHeight \in Int
  <2>1. Body \in Nat
    BY HeightsAre DEF Body
  <2>2. QED
    BY <2>1 DEF ScrollbackHeight, PaneScrollbackHeight, PaneMapHintHeight, Larger
<1>3. IsFiniteSet(T)
  <2> DEFINE F == {n \in Focused : IsPane(n)}
             g == [n \in F |-> PaneAt(Manifest, n).text]
  <2>1. \A x, y \in F : x = y
    BY DEF Focused
  <2>2. IsFiniteSet(F)
    <3>1. F = {} \/ \E x \in F : F = {x}
      BY <2>1
    <3> HIDE DEF F
    <3>2. QED
      BY <3>1, FS_EmptySet, FS_Singleton
  <2>3. T \in SUBSET {g[n] : n \in F}
    BY DEF PaneTexts
  <2>4. g = [n \in F |-> g[n]]
    OBVIOUS
  <2> HIDE DEF F, g, T
  <2>5. IsFiniteSet({g[n] : n \in F})
    BY <2>2, <2>4, FiniteImage
  <2>6. QED
    BY <2>3, <2>5, FS_Subset
<1>4. \A t \in T : f[t] \in Nat
  BY <1>1, <1>2, SizesAssumption DEF Overflow, Larger
<1>5. PaneMaxScroll = Max({0} \cup {f[t] : t \in T})
  BY DEF PaneMaxScroll
<1>6. f = [t \in T |-> f[t]]
  OBVIOUS
<1> HIDE DEF f
<1>7. \A t \in PaneTexts : loads[t] = "shown" => t \in T
  OBVIOUS
<1>8. \A t \in T : f[t] = Overflow(Lines[t], ScrollbackHeight)
  BY DEF f
<1> HIDE DEF T
<1>9. IsFiniteSet({f[t] : t \in T}) /\ {f[t] : t \in T} \in SUBSET Nat
  BY <1>3, <1>4, <1>6, FiniteImage
<1>10. PaneMaxScroll \in Nat /\ \A t \in T : f[t] <= PaneMaxScroll
  BY <1>5, <1>9, MaxWithZero
<1>11. QED
  BY <1>10, <1>7, <1>8

\* The rows of the blocks of a close: two or more for each, and a block for
\* no more panes than there are.
LEMMA BlockHeightsAre ==
  ASSUME NEW fixed, NEW n \in Nat, DOMAIN fixed = 1 .. n, NEW body \in Int
  PROVE  LET h == CloseBlockHeights(fixed, body)
         IN  /\ \E k \in Int : k <= n /\ DOMAIN h = 1 .. k
             /\ \A i \in DOMAIN h : h[i] \in Int
<1> DEFINE k        == Smaller(Cardinality(DOMAIN fixed), body \div 2)
           flexible == {i \in 1 .. k : ~fixed[i]}
           left     == body - 2 * Cardinality((1 .. k) \ flexible)
           base     == left \div Cardinality(flexible)
           extra    == left % Cardinality(flexible)
           before(i) == Cardinality({j \in flexible : j < i})
           h == CloseBlockHeights(fixed, body)
<1>1. Cardinality(DOMAIN fixed) = n
  BY FS_Interval
<1>2. k \in Int /\ k <= n
  BY <1>1 DEF Smaller
<1>3. h = [i \in 1 .. k |-> IF fixed[i] THEN 2 ELSE IF before(i) < extra THEN base + 1 ELSE base]
  BY DEF CloseBlockHeights
<1> HIDE DEF k, h
<1>4. IsFiniteSet(1 .. k)
  BY <1>2, FS_Interval
<1>5. ASSUME NEW i \in 1 .. k, ~fixed[i] PROVE base \in Int
  <2>1. IsFiniteSet(flexible) /\ IsFiniteSet((1 .. k) \ flexible) /\ i \in flexible
    BY <1>4, <1>5, FS_Subset
  <2>2. Cardinality(flexible) \in Nat \ {0} /\ Cardinality((1 .. k) \ flexible) \in Nat
    BY <2>1, FS_CardinalityType, FS_EmptySet
  <2> HIDE DEF flexible
  <2>3. left \in Int
    BY <2>2
  <2> HIDE DEF left
  <2>4. QED
    BY <2>2, <2>3
<1> HIDE DEF base, extra, before, flexible
<1>6. ASSUME NEW i \in 1 .. k PROVE h[i] \in Int
  <2>1. CASE fixed[i]
    BY <1>3, <2>1
  <2>2. CASE ~fixed[i] /\ before(i) < extra
    BY <1>3, <1>5, <2>2
  <2>3. CASE ~fixed[i] /\ ~(before(i) < extra)
    BY <1>3, <1>5, <2>3
  <2>4. QED
    BY <2>1, <2>2, <2>3
<1>7. DOMAIN h = 1 .. k
  BY <1>3
<1>8. QED
  BY <1>2, <1>6, <1>7 DEF h

LEMMA CloseMaxScrollIs ==
  ASSUME GivenInv, size \in [width : Nat, height : Nat]
  PROVE  CloseMaxScroll \in Nat /\ \A x \in CloseOverflows : x <= CloseMaxScroll
<1> DEFINE panes == ClosePanes
           blocks == CloseBlocks
           fixed == [i \in DOMAIN panes |-> ClosePaneIsFixed(panes[i])]
           D == {j \in DOMAIN blocks : ~ClosePaneIsFixed(panes[j])}
           f == [i \in D |-> Overflow(Lines[panes[i].text], blocks[i] - 1)]
<1>1. IsSequence(panes) /\ \A p \in ToSet(panes) : p.text \in Texts \cup {""}
  BY ClosePanesAre DEF TextPanes
<1>2. Len(panes) \in Nat /\ DOMAIN panes = 1 .. Len(panes)
  BY <1>1, SequenceDomain
<1>3. Body - CloseHeaderLines \in Int
  <2>1. Body \in Nat
    BY HeightsAre DEF Body
  <2>2. QED
    BY <2>1 DEF CloseHeaderLines
<1>4. /\ \E k \in Int : k <= Len(panes) /\ DOMAIN blocks = 1 .. k
      /\ \A i \in DOMAIN blocks : blocks[i] \in Int
  <2> DEFINE n == Len(panes)
             body == Body - CloseHeaderLines
  <2>1. n \in Nat /\ DOMAIN fixed = 1 .. n /\ body \in Int
    BY <1>2, <1>3
  <2>2. blocks = CloseBlockHeights(fixed, body)
    BY DEF CloseBlocks
  <2> HIDE DEF n, body, fixed, blocks
  <2>3. /\ \E k \in Int : k <= n /\ DOMAIN CloseBlockHeights(fixed, body) = 1 .. k
        /\ \A i \in DOMAIN CloseBlockHeights(fixed, body) : CloseBlockHeights(fixed, body)[i] \in Int
    BY <2>1, BlockHeightsAre
  <2>4. QED
    BY <2>2, <2>3 DEF n
<1>5. PICK k \in Int : k <= Len(panes) /\ DOMAIN blocks = 1 .. k
  BY <1>4
<1>6. IsFiniteSet(D)
  <2>1. D \in SUBSET (1 .. k)
    BY <1>5
  <2>2. IsFiniteSet(1 .. k)
    BY FS_Interval
  <2>3. QED
    BY <2>1, <2>2, FS_Subset
<1>7. ASSUME NEW i \in D PROVE f[i] \in Nat
  <2>1. i \in DOMAIN panes /\ blocks[i] \in Int
    BY <1>2, <1>4, <1>5
  <2>2. panes[i].text \in Texts
    BY <1>1, <2>1 DEF ClosePaneIsFixed, ToSet
  <2>3. Lines[panes[i].text] \in Nat
    BY <2>2, SizesAssumption
  <2>4. f[i] = Larger(0, Lines[panes[i].text] - (blocks[i] - 1))
    BY DEF Overflow
  <2> HIDE DEF f
  <2>5. QED
    BY <2>1, <2>3, <2>4 DEF Larger
<1>8. CloseOverflows = {f[i] : i \in D}
  BY DEF CloseOverflows
<1>9. f = [i \in D |-> f[i]]
  OBVIOUS
<1> HIDE DEF f, D
<1>10. IsFiniteSet({f[i] : i \in D}) /\ {f[i] : i \in D} \in SUBSET Nat
  BY <1>6, <1>7, <1>9, FiniteImage
<1>11. CloseMaxScroll = Max({0} \cup CloseOverflows)
  BY DEF CloseMaxScroll
<1>12. QED
  BY <1>8, <1>10, <1>11, MaxWithZero

LEMMA PreviewMaxScrollIs ==
  ASSUME GivenInv, TreesInv, Listed(DOMAIN trees), size \in [width : Nat, height : Nat]
  PROVE  PreviewMaxScroll \in Nat
  BY CloseMaxScrollIs, PaneMaxScrollIs DEF PreviewMaxScroll

\* Scrolled as far as it overflows, a text shows its first line.
LEMMA ScrolledToTheTop ==
  ASSUME NEW total \in Nat, NEW rows \in Nat \ {0}, NEW up \in Nat, Overflow(total, rows) <= up
  PROVE  PreviewWindow(total, rows, up).first = 1
<1> DEFINE end == Smaller(total, Larger(0, total - up))
<1>1. end \in Nat /\ end <= rows
  BY DEF Overflow, Smaller, Larger
<1>2. PreviewWindow(total, rows, up).first = Larger(0, end - rows) + 1
  BY DEF PreviewWindow
<1> HIDE DEF end
<1>3. QED
  BY <1>1, <1>2 DEF Larger

\* The blocks of a close's preview are within the panel, and the deepest of
\* them can be scrolled to its first line.
LEMMA BlocksReach ==
  ASSUME GivenInv, size \in [width : Nat, height : Nat], given.mode = "close"
  PROVE  /\ \A i \in DOMAIN CloseBlocks :
              /\ ~ClosePaneIsFixed(ClosePanes[i]) => Reachable(Lines[ClosePanes[i].text], CloseBlocks[i] - 1)
              /\ CloseBlocks[i] >= 2
         /\ Cardinality(BlockRows(CloseBlocks)) <= Larger(0, Body - CloseHeaderLines)
<1> DEFINE panes == ClosePanes
           blocks == CloseBlocks
           fixed == [i \in DOMAIN panes |-> ClosePaneIsFixed(panes[i])]
           n == Len(panes)
           body == Body - CloseHeaderLines
<1>1. IsSequence(panes) /\ \A p \in ToSet(panes) : p.text \in Texts \cup {""}
  BY ClosePanesAre DEF TextPanes
<1>2. n \in Nat /\ DOMAIN panes = 1 .. n
  BY <1>1, SequenceDomain
<1>3. body \in Int
  <2>1. Body \in Nat
    BY HeightsAre DEF Body
  <2>2. QED
    BY <2>1 DEF CloseHeaderLines
<1>4. blocks = CloseBlockHeights(fixed, body)
  BY DEF CloseBlocks
<1>5. DOMAIN fixed = 1 .. n
  BY <1>2
<1>6. PreviewMaxScroll = CloseMaxScroll
  BY DEF PreviewMaxScroll
<1>7. CloseOverflows = {Overflow(Lines[panes[i].text], blocks[i] - 1) :
                          i \in {j \in DOMAIN blocks : ~ClosePaneIsFixed(panes[j])}}
  BY DEF CloseOverflows
<1> HIDE DEF fixed, n, body, blocks, panes
<1>8. /\ \A i \in DOMAIN blocks : blocks[i] \in Nat /\ blocks[i] >= 2
      /\ Cardinality(BlockRows(blocks)) <= Larger(0, body)
  BY <1>2, <1>3, <1>4, <1>5, BlocksFit
<1>9. \E k \in Int : k <= n /\ DOMAIN blocks = 1 .. k
  BY <1>2, <1>3, <1>4, <1>5, BlockHeightsAre
<1>10. ASSUME NEW i \in DOMAIN blocks, ~ClosePaneIsFixed(panes[i])
       PROVE  Reachable(Lines[panes[i].text], blocks[i] - 1)
  <2> DEFINE total == Lines[panes[i].text]
             rows == blocks[i] - 1
  <2>1. i \in DOMAIN panes
    BY <1>2, <1>9
  <2>2. panes[i].text \in Texts
    BY <1>1, <1>10, <2>1 DEF ClosePaneIsFixed, ToSet
  <2>3. total \in Nat /\ rows \in Nat \ {0}
    BY <1>8, <2>2, SizesAssumption
  <2>4. Overflow(total, rows) \in CloseOverflows
    BY <1>7, <1>10
  <2> HIDE DEF total, rows
  <2>5. CloseMaxScroll \in Nat /\ Overflow(total, rows) <= CloseMaxScroll
    BY <2>4, CloseMaxScrollIs
  <2>6. PreviewWindow(total, rows, PreviewMaxScroll).first = 1
    BY <1>6, <2>3, <2>5, ScrolledToTheTop
  <2>7. QED
    BY <2>6 DEF Reachable, total, rows
<1>11. QED
  BY <1>8, <1>10 DEF panes, blocks, body

\* The pane previewed in snapshot mode, with the map above it or not.
LEMMA PaneReaches ==
  ASSUME GivenInv, TreesInv, Listed(DOMAIN trees), size \in [width : Nat, height : Nat],
         given.mode = "snapshot", NEW t \in PaneTexts, loads[t] = "shown"
  PROVE  Reachable(Lines[t], Body - (IF PaneHintShows THEN PaneMapHintHeight + 1 ELSE 0))
<1> DEFINE rows == Body - (IF PaneHintShows THEN PaneMapHintHeight + 1 ELSE 0)
<1> SUFFICES ASSUME rows >= 1
             PROVE  PreviewWindow(Lines[t], rows, PreviewMaxScroll).first = 1
  BY DEF Reachable
<1>1. Body \in Nat
  BY HeightsAre DEF Body
<1>2. rows \in Nat \ {0} /\ ScrollbackHeight = rows
  <2>1. CASE PaneHintShows
    BY <1>1, <2>1 DEF ScrollbackHeight, PaneScrollbackHeight, PaneMapHintHeight, Larger
  <2>2. CASE ~PaneHintShows
    BY <1>1, <2>2 DEF ScrollbackHeight, PaneScrollbackHeight
  <2>3. QED
    BY <2>1, <2>2
<1>3. Lines[t] \in Nat
  BY PaneTextsAre, SizesAssumption
<1>4. PreviewMaxScroll = PaneMaxScroll
  BY DEF PreviewMaxScroll
<1> HIDE DEF rows
<1>5. PaneMaxScroll \in Nat /\ Overflow(Lines[t], rows) <= PaneMaxScroll
  BY <1>2, PaneMaxScrollIs
<1>6. QED
  BY <1>2, <1>3, <1>4, <1>5, ScrolledToTheTop

LEMMA AllIsReached ==
  ASSUME GivenInv, TreesInv, Listed(DOMAIN trees), size \in [width : Nat, height : Nat],
         given.mode = "close" => DOMAIN trees = {}
  PROVE  PreviewReachesAll
<1>1. CASE given.mode = "close"
  <2>1. PaneTexts = {}
    <3>1. ~Built
      BY <1>1 DEF Built
    <3>2. VisibleNodes = <<>>
      BY <3>1 DEF VisibleNodes
    <3>3. DOMAIN VisibleNodes = {}
      BY <3>2
    <3>4. Focused = {}
      BY <3>3 DEF Focused
    <3>5. QED
      BY <3>4 DEF PaneTexts
  <2>2. QED
    BY <1>1, <2>1, BlocksReach DEF PreviewReachesAll
<1>2. CASE given.mode = "snapshot"
  BY <1>2, PaneReaches DEF PreviewReachesAll
<1>3. given.mode \in {"close", "snapshot"}
  BY GivenShape
<1>4. QED
  BY <1>1, <1>2, <1>3

-----------------------------------------------------------------------------
(* What can be unfolded *)

Inner(m) == {n \in ToSet(NodesOf(m)) : ~IsPane(n)}

OnlyInnerUnfold == \A i \in DOMAIN trees : trees[i].expanded \subseteq Inner(Event(i).man)

LEMMA DecoratedUnfoldsInner ==
  ASSUME NEW m, NEW f, NEW t, t.nodes = NodesOf(m), t.expanded \subseteq Inner(m),
         DOMAIN t = {"nodes", "expanded", "mark"}
  PROVE  FilterDecorate(m, f, t).expanded \subseteq Inner(m)
<1> DEFINE mark == [n \in ToSet(NodesOf(m)) |-> Mark(m, f, n)]
           is(n)  == mark[n] = "running"
           was(n) == t.mark[n] = "running"
           turned == {n \in DOMAIN mark : IsSession(n) /\ is(n) # was(n)}
           X == (t.expanded \ turned) \cup {n \in turned : was(n)}
<1>1. turned \subseteq Inner(m)
  BY DEF Inner, IsSession, IsPane
<1>2. X \subseteq Inner(m)
  BY <1>1
<1>3. FilterDecorate(m, f, t) = [t EXCEPT !.expanded = X, !.mark = mark]
  BY DEF FilterDecorate
<1> HIDE DEF X, mark
<1>4. [t EXCEPT !.expanded = X, !.mark = mark].expanded = X
  OBVIOUS
<1>5. QED
  BY <1>2, <1>3, <1>4

LEMMA BuiltUnfoldsInner ==
  ASSUME NEW m, NEW f
  PROVE  FilterDecorate(m, f, BuildTree(m)).expanded \subseteq Inner(m)
<1> DEFINE t == BuildTree(m)
<1>1. t.nodes = NodesOf(m) /\ t.expanded \subseteq Inner(m) /\ DOMAIN t = {"nodes", "expanded", "mark"}
  BY DEF BuildTree, Inner
<1> HIDE DEF t
<1>2. FilterDecorate(m, f, t).expanded \subseteq Inner(m)
  BY <1>1, DecoratedUnfoldsInner
<1>3. QED
  BY <1>2 DEF t

\* A node with children is no pane.
LEMMA ParentIsInner ==
  ASSUME GivenInv, TreesInv, Listed(DOMAIN trees), NEW n \in Focused, HasChildren(n)
  PROVE  n \in Inner(Manifest)
<1> DEFINE m == Manifest
<1>1. /\ Built /\ n \in ToSet(trees[CurrentEventID].nodes) /\ IsManifest(m)
  BY FocusedIs
<1>2. trees[CurrentEventID].nodes = NodesOf(m)
  BY <1>1 DEF Built, TreesInv, IsTree, Manifest
<1>3. PICK x \in ToSet(NodesOf(m)) : DescendsFrom(x, n)
  BY <1>2 DEF HasChildren
<1> HIDE DEF m
<1>4. x \in Paths(m)
  BY <1>1, NodesArePaths, ElementsAre
<1>5. x # n /\ \E k \in 1 .. Len(x) : n = SubSeq(x, 1, k)
  BY <1>3 DEF DescendsFrom, Ancestors
<1>6. PICK k \in 1 .. Len(x) : n = SubSeq(x, 1, k)
  BY <1>5
<1>7. x \in Seq(Nat) /\ Len(x) \in 1 .. 3
  BY <1>4 DEF Paths
<1>8. k # Len(x)
  BY <1>5, <1>6, <1>7
<1>9. Len(n) # 3
  BY <1>6, <1>7, <1>8
<1>10. QED
  BY <1>1, <1>2, <1>9 DEF Inner, IsPane, m

\* What Right unfolds is a node with children; Left only folds.
LEMMA TreeKeysUnfold ==
  ASSUME TreeRight \/ TreeLeft
  PROVE  trees' = trees \/ \E X : /\ trees' = [trees EXCEPT ![CurrentEventID].expanded = X]
                                  /\ X \subseteq trees[CurrentEventID].expanded \cup {n \in Focused : HasChildren(n)}
<1> DEFINE E == trees[CurrentEventID].expanded
           parents == {n \in Focused : HasChildren(n)}
<1>1. ASSUME TreeRight
      PROVE  trees' = trees \/ \E n \in parents : trees' = [trees EXCEPT ![CurrentEventID].expanded = E \cup {n}]
  BY <1>1 DEF TreeRight, Unfold
<1>2. ASSUME TreeLeft
      PROVE  trees' = trees \/ \E x : trees' = [trees EXCEPT ![CurrentEventID].expanded = E \ {x}]
  BY <1>2 DEF TreeLeft, Fold
<1> HIDE DEF E, parents
<1>3. ASSUME NEW n \in parents, trees' = [trees EXCEPT ![CurrentEventID].expanded = E \cup {n}]
      PROVE  \E X : trees' = [trees EXCEPT ![CurrentEventID].expanded = X] /\ X \subseteq E \cup parents
  <2> DEFINE X == E \cup {n}
  <2>1. X \subseteq E \cup parents
    OBVIOUS
  <2>2. trees' = [trees EXCEPT ![CurrentEventID].expanded = X]
    BY <1>3
  <2> HIDE DEF X
  <2>3. QED
    BY <2>1, <2>2
<1>4. ASSUME NEW x, trees' = [trees EXCEPT ![CurrentEventID].expanded = E \ {x}]
      PROVE  \E X : trees' = [trees EXCEPT ![CurrentEventID].expanded = X] /\ X \subseteq E \cup parents
  <2> DEFINE X == E \ {x}
  <2>1. X \subseteq E \cup parents
    OBVIOUS
  <2>2. trees' = [trees EXCEPT ![CurrentEventID].expanded = X]
    BY <1>4
  <2> HIDE DEF X
  <2>3. QED
    BY <2>1, <2>2
<1>5. trees' = trees \/ \E X : trees' = [trees EXCEPT ![CurrentEventID].expanded = X] /\ X \subseteq E \cup parents
  BY <1>1, <1>2, <1>3, <1>4
<1>6. QED
  BY <1>5 DEF E, parents

LEMMA UnfoldStep ==
  ASSUME GivenInv, TreesInv, Listed(DOMAIN trees), OnlyInnerUnfold, [Next]_vars
  PROVE  OnlyInnerUnfold'
<1>1. \A i : Event(i)' = Event(i)
  BY GivenStays, EventStays
<1>2. SUFFICES ASSUME NEW i \in DOMAIN trees' PROVE trees'[i].expanded \subseteq Inner(Event(i).man)
  BY <1>1 DEF OnlyInnerUnfold
<1>3. \A j \in DOMAIN trees : /\ trees[j].expanded \subseteq Inner(Event(j).man)
                              /\ IsTree(trees[j], Event(j).man, filter)
  BY DEF OnlyInnerUnfold, TreesInv
<1>4. CASE Elsewhere \/ UNCHANGED vars
  BY <1>2, <1>3, <1>4 DEF Elsewhere, vars, data
<1>5. CASE ListUpDown
  BY <1>2, <1>3, <1>5, ListAdds, BuiltUnfoldsInner
<1>6. CASE ToggleIdle \/ ToggleSkipRunning
  <2>1. PICK f : trees' = [j \in DOMAIN trees |-> FilterDecorate(Event(j).man, f, trees[j])]
    BY <1>6 DEF ToggleIdle, ToggleSkipRunning, Redecorate
  <2> DEFINE t == trees[i]
             m == Event(i).man
  <2>2. trees'[i] = FilterDecorate(m, f, t) /\ i \in DOMAIN trees
    BY <1>2, <2>1
  <2>3. t.nodes = NodesOf(m) /\ t.expanded \subseteq Inner(m) /\ DOMAIN t = {"nodes", "expanded", "mark"}
    BY <1>3, <2>2 DEF IsTree
  <2> HIDE DEF t, m
  <2>4. FilterDecorate(m, f, t).expanded \subseteq Inner(m)
    BY <2>3, DecoratedUnfoldsInner
  <2>5. QED
    BY <2>2, <2>4 DEF m
<1>7. CASE TreeRight \/ TreeLeft
  <2>1. CASE trees' = trees
    BY <1>2, <1>3, <2>1
  <2>2. CASE trees' # trees
    <3> DEFINE id == CurrentEventID
    <3>1. PICK X : /\ trees' = [trees EXCEPT ![id].expanded = X]
                   /\ X \subseteq trees[id].expanded \cup {n \in Focused : HasChildren(n)}
      BY <1>7, <2>2, TreeKeysUnfold
    <3>2. {n \in Focused : HasChildren(n)} \subseteq Inner(Event(id).man)
      BY ParentIsInner DEF Manifest
    <3> HIDE DEF id
    <3>3. DOMAIN trees' = DOMAIN trees
      BY <3>1
    <3>4. CASE i = id
      <4>1. i \in DOMAIN trees /\ trees'[i] = [trees[i] EXCEPT !.expanded = X]
        BY <1>2, <3>1, <3>3, <3>4
      <4>2. trees'[i].expanded = X
        BY <1>3, <4>1, ExpandedIsTree
      <4>3. QED
        BY <1>3, <3>1, <3>2, <3>4, <4>1, <4>2
    <3>5. CASE i # id
      BY <1>2, <1>3, <3>1, <3>3, <3>5
    <3>6. QED
      BY <3>4, <3>5
  <2>3. QED
    BY <2>1, <2>2
<1>8. QED
  BY <1>4, <1>5, <1>6, <1>7, StepsOnTrees

-----------------------------------------------------------------------------
(* Types *)

\* Every tree is of a snapshot that is listed and parsed, marked under the
\* filter, and only nodes with something below them are unfolded.
Screen ==
  /\ GivenInv /\ FilterInv /\ TreesInv
  /\ Listed(DOMAIN trees \cup bad)
  /\ OnlyInnerUnfold

\* What is read from the trees can be: the nodes shown are a sequence, the
\* scrollbacks previewed are among those that can be loaded.
Readable == IsSequence(VisibleNodes) /\ PreviewSHAs \subseteq Texts

LEMMA ScreenInit ==
  ASSUME Init
  PROVE  Screen
<1>1. OnlyInnerUnfold
  <2>1. PICK ids : trees = [i \in ids |-> FilterDecorate(Event(i).man, filter, BuildTree(Event(i).man))]
    BY DEF Init
  <2>2. QED
    BY <2>1, BuiltUnfoldsInner DEF OnlyInnerUnfold
<1>2. QED
  BY <1>1, TreesInit, ListedInit DEF Screen

LEMMA ScreenStep ==
  ASSUME Screen, [Next]_vars
  PROVE  Screen'
<1>1. GivenInv'
  BY GivenStays DEF GivenInv, Screen
<1>2. Listed(DOMAIN trees)
  BY DEF Screen, Listed
<1>3. FilterInv' /\ TreesInv'
  BY TreesStep DEF Screen
<1>4. Listed(DOMAIN trees \cup bad)'
  BY ListedStep DEF Screen
<1>5. OnlyInnerUnfold'
  BY <1>2, UnfoldStep DEF Screen
<1>6. QED
  BY <1>1, <1>3, <1>4, <1>5 DEF Screen

LEMMA ScreenReads ==
  ASSUME Screen
  PROVE  Readable
<1>1. GivenInv /\ TreesInv /\ Listed(DOMAIN trees)
  BY DEF Screen, Listed
<1>2. PICK A : VisibleNodes \in Seq(A)
  BY <1>1, VisibleNodesAre
<1>3. QED
  BY <1>1, <1>2, ElementsAre, PreviewedAre DEF Readable

LEMMA ScreenInvariant == Spec => [](Screen /\ Readable)
<1>1. Init => Screen
  BY ScreenInit
<1>2. Screen /\ [Next]_vars => Screen'
  BY ScreenStep
<1>3. Screen => Readable
  BY ScreenReads
<1>4. QED
  BY <1>1, <1>2, <1>3, PTL DEF Spec

CursorsOK == cursor \in Nat \ {0} /\ treeCursor \in Nat /\ focus \in {"list", "tree"}

PreviewOK ==
  /\ scroll \in Nat /\ scrollX \in 0 .. MaxX /\ size \in [width : Nat, height : Nat]
  /\ loads \in [Texts -> {"none", "loading", "shown", "failed"}]

ParsedOK == DOMAIN trees \cap bad = {} /\ (given.mode = "close" => DOMAIN trees \cup bad = {})

ChoiceOK == selected # 0 => closed

\* What a search through a sequence finds.
LEMMA FoundIs ==
  ASSUME NEW n \in Nat, NEW S \in SUBSET (1 .. n)
  PROVE  (IF S # {} THEN Min(S) ELSE 0) \in 0 .. n
<1>1. CASE S = {}
  BY <1>1
<1>2. CASE S # {}
  <2>1. Min(S) \in 1 .. n
    BY <1>2, MinMaxIn
  <2>2. (IF S # {} THEN Min(S) ELSE 0) = Min(S)
    BY <1>2
  <2>3. 1 .. n \subseteq 0 .. n
    OBVIOUS
  <2>4. QED
    BY <2>1, <2>2, <2>3
<1>3. QED
  BY <1>1, <1>2

\* Where the tree's cursor may be put.
LEMMA PlacesAre ==
  ASSUME NEW s, IsSequence(s), NEW S \in SUBSET (1 .. Len(s)), NEW i \in Nat
  PROVE  /\ Larger(1, IF S # {} THEN Min(S) ELSE 0) \in Nat
         /\ (IF (IF S # {} THEN Min(S) ELSE 0) = 0 THEN i ELSE IF S # {} THEN Min(S) ELSE 0) \in Nat
<1> DEFINE x == IF S # {} THEN Min(S) ELSE 0
<1>1. x \in Nat
  BY SequenceDomain, FoundIs
<1> HIDE DEF x
<1>2. Larger(1, x) \in Nat /\ (IF x = 0 THEN i ELSE x) \in Nat
  BY <1>1 DEF Larger
<1>3. QED
  BY <1>2 DEF x

LEMMA CursorsInit ==
  ASSUME Init, GivenInv
  PROVE  CursorsOK
<1> DEFINE n == Len(given.rows)
           S == {i \in 1 .. n : Selectable(given.rows[i])}
           x == IF S # {} THEN Min(S) ELSE 0
<1>1. n \in Nat
  BY SelectablesAre
<1>2. x \in 0 .. n
  BY <1>1, FoundIs
<1>3. cursor = Larger(1, x) \/ cursor = 1
  BY DEF Init, SelectInSeq
<1> HIDE DEF x, n
<1>4. cursor \in Nat \ {0}
  BY <1>1, <1>2, <1>3 DEF Larger
<1>5. QED
  BY <1>4 DEF Init, CursorsOK

LEMMA CursorsStep ==
  ASSUME GivenInv, IsSequence(VisibleNodes), IsSequence(VisibleNodes)', CursorsOK, [Next]_vars
  PROVE  CursorsOK'
<1>1. focus' \in {"list", "tree"}
  BY DEF CursorsOK, Next, vars, view, Resize, ScrollbackLoaded, Wheel, PreviewUpDown, PreviewLeftRight, Quit,
     CloseUpDown, CloseEnter, Choose, ListUpDown, Tab, ToggleIdle, ToggleSkipRunning, Enter, TreeUpDown,
     TreeRight, TreeLeft
<1>2. cursor' \in Nat \ {0}
  <2>1. CASE UNCHANGED cursor
    BY <2>1 DEF CursorsOK
  <2>2. CASE CloseUpDown
    <3>1. PICK dir \in {-1, 1} : IF NextCloseRowIdx(dir) = 0 THEN cursor' = cursor ELSE cursor' = NextCloseRowIdx(dir)
      BY <2>2 DEF CloseUpDown
    <3>2. Len(given.rows) \in Nat /\ Selectables \in SUBSET (1 .. Len(given.rows))
      BY SelectablesAre DEF CloseRows
    <3>3. NextCloseRowIdx(dir) # 0 => NextCloseRowIdx(dir) \in Selectables
      BY <3>2, NextIdxIn DEF NextCloseRowIdx
    <3>4. Selectables \subseteq Nat \ {0}
      BY <3>2
    <3>5. QED
      BY <3>1, <3>3, <3>4 DEF CursorsOK
  <2>3. CASE ListUpDown
    <3>1. cursor' = cursor \/ \E dir \in {-1, 1} : cursor + dir \in DOMAIN given.events /\ cursor' = cursor + dir
      BY <2>3 DEF ListUpDown
    <3>2. Len(given.events) \in Nat /\ DOMAIN given.events = 1 .. Len(given.events)
      BY GivenShape, SequenceDomain
    <3>3. QED
      BY <3>1, <3>2 DEF CursorsOK
  <2>4. QED
    BY <2>1, <2>2, <2>3 DEF Next, vars, view, Resize, ScrollbackLoaded, Wheel, PreviewUpDown, PreviewLeftRight, Quit,
       CloseEnter, Choose, Tab, ToggleIdle, ToggleSkipRunning, Enter, TreeUpDown, TreeRight, TreeLeft
<1>3. treeCursor' \in Nat
  <2>1. CASE UNCHANGED treeCursor
    BY <2>1 DEF CursorsOK
  <2>2. FirstPaneIdx \in Nat
    BY PlacesAre DEF FirstPaneIdx, SelectInSeq
  <2>3. FirstPaneIdx' \in Nat
    BY PlacesAre DEF FirstPaneIdx, SelectInSeq
  <2>4. \A n : IndexOf(n)' \in Nat
    <3> SUFFICES ASSUME NEW n PROVE IndexOf(n)' \in Nat
      OBVIOUS
    <3> DEFINE k == Len(VisibleNodes')
               S == {i \in 1 .. k : VisibleNodes'[i] = n}
    <3>1. k \in Nat
      BY SequenceDomain
    <3>2. IndexOf(n)' = IF S # {} THEN Min(S) ELSE 0
      BY DEF IndexOf, SelectInSeq
    <3>3. S \in SUBSET (1 .. k)
      OBVIOUS
    <3> HIDE DEF k, S
    <3>4. IndexOf(n)' \in 0 .. k
      BY <3>1, <3>2, <3>3, FoundIs
    <3>5. QED
      BY <3>4
  <2>5. \A n : FirstPaneIdxIn(n)' \in Nat
    BY <2>4, PlacesAre DEF FirstPaneIdxIn, SelectInSeq
  <2>6. CASE ListUpDown \/ Tab
    BY <2>2, <2>3, <2>6 DEF ListUpDown, Tab, CursorsOK
  <2>7. CASE TreeUpDown
    <3> DEFINE nodes == VisibleNodes
               targets == {i \in DOMAIN nodes : IsNavTarget(nodes[i])}
    <3>1. PICK dir \in {-1, 1} : IF NextPaneIdx(dir) = 0 THEN treeCursor' = treeCursor ELSE treeCursor' = NextPaneIdx(dir)
      BY <2>7 DEF TreeUpDown
    <3>2. Len(nodes) \in Nat /\ targets \in SUBSET (1 .. Len(nodes))
      BY SequenceDomain
    <3>3. NextPaneIdx(dir) = NextIdx(treeCursor, dir, Len(nodes), targets)
      BY DEF NextPaneIdx
    <3> HIDE DEF nodes, targets
    <3>4. NextPaneIdx(dir) # 0 => NextPaneIdx(dir) \in targets
      BY <3>2, <3>3, NextIdxIn
    <3>5. targets \subseteq Nat
      BY <3>2
    <3>6. QED
      BY <3>1, <3>4, <3>5 DEF CursorsOK
  <2>8. CASE TreeRight \/ TreeLeft
    BY <2>4, <2>5, <2>8 DEF TreeRight, TreeLeft, CursorsOK
  <2>9. QED
    BY <2>1, <2>6, <2>7, <2>8 DEF Next, vars, view, Resize, ScrollbackLoaded, Wheel, PreviewUpDown, PreviewLeftRight,
       Quit, CloseUpDown, CloseEnter, Choose, ToggleIdle, ToggleSkipRunning, Enter
<1>4. QED
  BY <1>1, <1>2, <1>3 DEF CursorsOK

\* A step loads what it schedules, what was read, or nothing.
LEMMA LoadsStep ==
  ASSUME [Next]_vars
  PROVE  \/ loads' = loads
         \/ loads' = Scheduled(PreviewSHAs')
         \/ \E t \in Texts : \E result \in {"shown", "failed"} : loads' = [loads EXCEPT ![t] = result]
  BY DEF Next, vars, PreviewCmd, Resize, ScrollbackLoaded, Wheel, PreviewUpDown, PreviewLeftRight, Quit,
     CloseUpDown, CloseEnter, Choose, ListUpDown, Tab, ToggleIdle, ToggleSkipRunning, Enter, TreeUpDown,
     TreeRight, TreeLeft

LEMMA PreviewInit ==
  ASSUME Init
  PROVE  PreviewOK
<1>1. scroll = 0 /\ scrollX = 0 /\ size = [width |-> 0, height |-> 0]
  BY DEF Init
<1>2. loads = [t \in Texts |-> IF t \in PreviewSHAs THEN "loading" ELSE "none"]
  BY DEF Init
<1>3. 0 \in 0 .. MaxX
  BY SizesAssumption
<1>4. QED
  BY <1>1, <1>2, <1>3 DEF PreviewOK

LEMMA PreviewStep ==
  ASSUME Screen, PreviewOK, [Next]_vars
  PROVE  PreviewOK'
<1> DEFINE most == PreviewMaxScroll
<1>1. most \in Nat
  <2>1. GivenInv /\ TreesInv /\ Listed(DOMAIN trees)
    BY DEF Screen, Listed
  <2>2. QED
    BY <2>1, PreviewMaxScrollIs DEF PreviewOK
<1>2. \/ scroll' \in {scroll, 0} \/ scroll' = Smaller(scroll + 3, most) \/ scroll' = Larger(0, scroll - 3)
      \/ scroll' = (IF scroll < most THEN scroll + 1 ELSE scroll) \/ scroll' = Larger(0, scroll - 1)
  BY DEF Next, vars, roll, Resize, ScrollbackLoaded, Wheel, PreviewUpDown, PreviewLeftRight, Quit,
     CloseUpDown, CloseEnter, Choose, ListUpDown, Tab, ToggleIdle, ToggleSkipRunning, Enter, TreeUpDown,
     TreeRight, TreeLeft
<1>3. \/ scrollX' \in {scrollX, 0} \/ scrollX' = Larger(0, scrollX - 8)
      \/ scrollX + 8 <= MaxX /\ scrollX' = scrollX + 8
  BY DEF Next, vars, roll, Resize, ScrollbackLoaded, Wheel, PreviewUpDown, PreviewLeftRight, Quit,
     CloseUpDown, CloseEnter, Choose, ListUpDown, Tab, ToggleIdle, ToggleSkipRunning, Enter, TreeUpDown,
     TreeRight, TreeLeft
<1>4. size' = size \/ size' \in Sizes
  BY DEF Next, vars, Resize, ScrollbackLoaded, Wheel, PreviewUpDown, PreviewLeftRight, Quit,
     CloseUpDown, CloseEnter, Choose, ListUpDown, Tab, ToggleIdle, ToggleSkipRunning, Enter, TreeUpDown,
     TreeRight, TreeLeft
<1> HIDE DEF most
<1>5. scroll' \in Nat
  BY <1>1, <1>2 DEF PreviewOK, Smaller, Larger
<1>6. scrollX' \in 0 .. MaxX
  BY <1>3, SizesAssumption DEF PreviewOK, Larger
<1>7. size' \in [width : Nat, height : Nat]
  BY <1>4, SizesAssumption DEF PreviewOK
<1>8. loads' \in [Texts -> {"none", "loading", "shown", "failed"}]
  <2>1. \A S : Scheduled(S) \in [Texts -> {"none", "loading", "shown", "failed"}]
    BY DEF Scheduled, PreviewOK
  <2>2. QED
    BY <2>1, LoadsStep DEF PreviewOK
<1>9. QED
  BY <1>5, <1>6, <1>7, <1>8 DEF PreviewOK

LEMMA ParsedInit ==
  ASSUME Init
  PROVE  ParsedOK
<1>1. PICK in \in Inputs :
        /\ given = Opened(in)
        /\ LET first == IF in.mode = "snapshot" /\ in.events # <<>> THEN {in.events[1]} ELSE {}
           IN  /\ bad = {e.id : e \in {x \in first : ~x.ok}}
               /\ trees = [i \in {e.id : e \in {x \in first : x.ok}} |->
                             FilterDecorate(Event(i).man, filter, BuildTree(Event(i).man))]
  BY DEF Init
<1>2. DOMAIN trees \cap bad = {}
  BY <1>1
<1>3. given.mode = in.mode
  BY <1>1 DEF Opened
<1>4. in.mode = "close" => DOMAIN trees \cup bad = {}
  BY <1>1
<1>5. QED
  BY <1>2, <1>3, <1>4 DEF ParsedOK

LEMMA ParsedStep ==
  ASSUME TreesInv, ParsedOK, [Next]_vars
  PROVE  ParsedOK'
<1>1. UNCHANGED given
  BY GivenStays
<1>2. CASE ListUpDown
  <2>1. UNCHANGED <<trees, bad>> \/ EnsureManifest
    BY <1>2 DEF ListUpDown
  <2>2. QED
    BY <1>1, <2>1, EnsureLists DEF ParsedOK
<1>3. CASE DOMAIN trees' = DOMAIN trees /\ bad' = bad
  BY <1>1, <1>3 DEF ParsedOK
<1>4. QED
  BY <1>2, <1>3, OthersParseNothing

LEMMA ChosenStep ==
  ASSUME ChoiceOK, [Next]_vars
  PROVE  ChoiceOK'
  BY DEF ChoiceOK, Next, vars, InMode, InTree, Resize, ScrollbackLoaded, Wheel, PreviewUpDown, PreviewLeftRight, Quit,
     CloseUpDown, CloseEnter, Choose, ListUpDown, Tab, ToggleIdle, ToggleSkipRunning, Enter, TreeUpDown,
     TreeRight, TreeLeft

LEMMA TypesAre ==
  ASSUME Screen, CursorsOK, PreviewOK, ParsedOK, ChoiceOK
  PROVE  TypeOK
<1>1. \A i \in DOMAIN trees :
        LET nodes == ToSet(NodesOf(Event(i).man))
        IN  DOMAIN trees[i].mark = nodes /\ trees[i].expanded \subseteq {n \in nodes : ~IsPane(n)}
  BY DEF Screen, TreesInv, IsTree, OnlyInnerUnfold, Inner
<1>2. QED
  BY <1>1 DEF TypeOK, CursorsOK, PreviewOK, ParsedOK, ChoiceOK

LEMMA TypesInvariant == Spec => [](Screen /\ CursorsOK /\ PreviewOK /\ ParsedOK /\ ChoiceOK)
<1>1. Init => CursorsOK /\ PreviewOK /\ ParsedOK /\ ChoiceOK
  BY TreesInit, CursorsInit, PreviewInit, ParsedInit DEF Init, ChoiceOK
<1>2. Screen /\ Readable /\ Readable' /\ CursorsOK /\ PreviewOK /\ ParsedOK /\ ChoiceOK /\ [Next]_vars
      => CursorsOK' /\ PreviewOK' /\ ParsedOK' /\ ChoiceOK'
  BY CursorsStep, PreviewStep, ParsedStep, ChosenStep DEF Screen, Readable
<1>3. QED
  BY <1>1, <1>2, ScreenInvariant, PTL DEF Spec

\* The picker's state keeps its types, whatever it was opened on: a snapshot
\* is parsed or failed to, not both, and in close mode neither; only nodes
\* with something below them are unfolded, whatever was folded and decorated;
\* nothing scrolls below zero; a choice closes the program (model.go, tree.go).
THEOREM TypeCorrect == Spec => []TypeOK
<1>1. Screen /\ CursorsOK /\ PreviewOK /\ ParsedOK /\ ChoiceOK => TypeOK
  BY TypesAre
<1>2. QED
  BY <1>1, TypesInvariant, PTL

\* Every list draws its cursor on a line that its frame does not cut off, a
\* tree with the focus does so but for a stacked panel on six rows or fewer,
\* where it cannot, and the close list with two rows or more keeps the header
\* of its section in view: for every terminal size and every list (renderList,
\* renderCloseList, renderTree and scrollWindow of view.go).
THEOREM CursorStaysInView == Spec => []ListShowsCursor
<1>1. Screen /\ PreviewOK => ListShowsCursor
  BY CursorInView DEF Screen, PreviewOK, Listed
<1>2. QED
  BY <1>1, TypesInvariant, PTL

\* Whatever the terminal's size and however long the scrollbacks, a loaded one
\* can be scrolled to its first line, in every block of a close, and the blocks
\* fit below the header of their panel (preview.go, closeBlockHeights and
\* closeMaxScroll).
THEOREM PreviewsReachTheirFirstLine == Spec => []PreviewReachesAll
<1>1. Screen /\ PreviewOK /\ ParsedOK => PreviewReachesAll
  BY AllIsReached DEF Screen, PreviewOK, ParsedOK, Listed
<1>2. QED
  BY <1>1, TypesInvariant, PTL

-----------------------------------------------------------------------------
(* Previews *)

\* What the preview shows is read from the cursors, the focus and the tree.
LEMMA PreviewStays ==
  ASSUME UNCHANGED <<given, view, trees>>
  PROVE  PreviewSHAs' = PreviewSHAs
<1>1. UNCHANGED <<given, cursor, focus, treeCursor, trees>>
  BY DEF view
<1>2. CurrentEventID' = CurrentEventID
  BY <1>1 DEF CurrentEventID
<1>3. Focused' = Focused
  BY <1>1, <1>2 DEF Focused, VisibleNodes, Built
<1>4. Manifest' = Manifest
  BY <1>1, <1>2 DEF Manifest, Event
<1>5. PaneTexts' = PaneTexts
  BY <1>1, <1>3, <1>4 DEF PaneTexts
<1>6. CloseTexts' = CloseTexts
  BY <1>1, <1>2 DEF CloseTexts, ClosePanes
<1>7. QED
  BY <1>1, <1>5, <1>6 DEF PreviewSHAs

\* A step schedules what it shows, leaves the view as it is, or toggles.
LEMMA StepsOnPreviews ==
  ASSUME [Next]_vars
  PROVE  \/ loads' = Scheduled(PreviewSHAs')
         \/ /\ UNCHANGED <<given, view, trees>>
            /\ \/ loads' = loads
               \/ \E t \in Texts : \E result \in {"shown", "failed"} : loads' = [loads EXCEPT ![t] = result]
         \/ ToggleIdle \/ ToggleSkipRunning
  BY DEF Next, vars, data, PreviewCmd, Resize, ScrollbackLoaded, Wheel, PreviewUpDown, PreviewLeftRight, Quit,
     CloseUpDown, CloseEnter, Choose, ListUpDown, Tab, Enter, TreeUpDown, TreeRight, TreeLeft

LEMMA ToggleFilters ==
  ASSUME FilterInv, ToggleIdle \/ ToggleSkipRunning
  PROVE  filter' # filter
<1>1. CASE ToggleIdle
  <2>1. filter' = [filter EXCEPT !.idleShells = ~@]
    BY <1>1 DEF ToggleIdle, Redecorate
  <2>2. filter'.idleShells # filter.idleShells
    BY <2>1 DEF FilterInv
  <2>3. QED
    BY <2>2
<1>2. CASE ToggleSkipRunning
  <2>1. filter' = [filter EXCEPT !.skipRunning = ~@]
    BY <1>2 DEF ToggleSkipRunning, Redecorate
  <2>2. filter'.skipRunning # filter.skipRunning
    BY <2>1 DEF FilterInv
  <2>3. QED
    BY <2>2
<1>3. QED
  BY <1>1, <1>2

LEMMA PreviewScheduledStep ==
  ASSUME Screen, PreviewOK, Readable', [Next]_vars,
         \A t \in PreviewSHAs : loads[t] # "none", filter' = filter
  PROVE  \A t \in PreviewSHAs' : loads'[t] # "none"
<1>1. CASE loads' = Scheduled(PreviewSHAs')
  BY <1>1 DEF Scheduled, Readable
<1>2. CASE /\ UNCHANGED <<given, view, trees>>
           /\ \/ loads' = loads
              \/ \E t \in Texts : \E result \in {"shown", "failed"} : loads' = [loads EXCEPT ![t] = result]
  <2>1. PreviewSHAs' = PreviewSHAs
    BY <1>2, PreviewStays
  <2>2. \A t \in Texts : loads[t] # "none" => loads'[t] # "none"
    BY <1>2 DEF PreviewOK
  <2>3. QED
    BY <2>1, <2>2 DEF Readable
<1>3. CASE ToggleIdle \/ ToggleSkipRunning
  BY <1>3, ToggleFilters DEF Screen
<1>4. QED
  BY <1>1, <1>2, <1>3, StepsOnPreviews

\* Whatever comes into the preview has been asked for, by every key and
\* message but the filter's toggles, of whatever snapshots and closes
\* (previewCmd and Init of model.go; the toggles leave preview.go's
\* "(scrollback pending)").
THEOREM PreviewsAreScheduled == Spec => PreviewIsScheduled
<1>1. Screen /\ PreviewOK /\ Readable' /\ [Next]_vars
      => [(\A t \in PreviewSHAs : loads[t] # "none") /\ filter' = filter
            => \A t \in PreviewSHAs' : loads'[t] # "none"]_vars
  BY PreviewScheduledStep
<1>2. QED
  BY <1>1, ScreenInvariant, TypesInvariant, PTL DEF Spec, PreviewIsScheduled

-----------------------------------------------------------------------------
(* What Enter restores, and what the tree shows *)

\* The filters the picker can have: it knows no age and skips no window.
PlainFilter(f) == f \in [age : {0}, idleShells : BOOLEAN, idleWindows : {FALSE}, skipRunning : BOOLEAN]

\* The panes that run, each in its window.
WindowsIn(m) == UNION {ToSet(s.windows) : s \in ToSet(m)}
PanesIn(m)   == UNION {ToSet(w.panes) : w \in WindowsIn(m)}
Places(m)    == {<<s.name, w.index>> : s \in ToSet(m), w \in WindowsIn(m)}
Startups(m)  == {Startup(p) : p \in PanesIn(m)}
Runs(m)      == [at : Places(m), run : Startups(m)]

RunOf(s, w, p) == [at |-> <<s.name, w.index>>, run |-> Startup(p)]

\* Those of a window and of a session that are not skipped.
WindowRuns(f, s, w) ==
  FlattenSeq([p \in DOMAIN w.panes |-> IF SkipPane(f, w.panes[p]) THEN <<>> ELSE <<RunOf(s, w, w.panes[p])>>])
SessionRuns(f, s) == FlattenSeq([w \in DOMAIN s.windows |-> WindowRuns(f, s, s.windows[w])])
ManifestRuns(f, m) ==
  FlattenSeq([s \in DOMAIN m |-> IF SkipReason(f, m[s], Running, 0) = "" THEN SessionRuns(f, m[s]) ELSE <<>>])

LEMMA ManifestParts ==
  ASSUME NEW m, IsManifest(m)
  PROVE  /\ m \in Seq(ToSet(m))
         /\ \A s \in ToSet(m) : IsSequence(s.windows) /\ ToSet(s.windows) \subseteq WindowsIn(m)
         /\ \A w \in WindowsIn(m) : IsSequence(w.panes) /\ ToSet(w.panes) \subseteq PanesIn(m)
<1>1. m \in Seq(ToSet(m))
  BY DEF IsManifest, IsSequence
<1>2. ASSUME NEW s \in ToSet(m)
      PROVE  /\ IsSequence(s.windows) /\ ToSet(s.windows) \subseteq WindowsIn(m)
             /\ \A w \in ToSet(s.windows) : IsSequence(w.panes)
  <2>1. PICK i \in DOMAIN m : s = m[i]
    BY DEF ToSet
  <2>2. IsSequence(s.windows) /\ \A w \in DOMAIN s.windows : IsSequence(s.windows[w].panes)
    BY <2>1 DEF IsManifest
  <2>3. \A w \in ToSet(s.windows) : IsSequence(w.panes)
    BY <2>2 DEF ToSet
  <2>4. ToSet(s.windows) \subseteq WindowsIn(m)
    BY DEF WindowsIn
  <2>5. QED
    BY <2>2, <2>3, <2>4
<1>3. \A w \in WindowsIn(m) : IsSequence(w.panes)
  BY <1>2 DEF WindowsIn
<1>4. \A w \in WindowsIn(m) : ToSet(w.panes) \subseteq PanesIn(m)
  BY DEF PanesIn
<1>5. QED
  BY <1>1, <1>2, <1>3, <1>4

LEMMA RunIs ==
  ASSUME NEW m, NEW s \in ToSet(m), NEW w \in WindowsIn(m), NEW p \in PanesIn(m)
  PROVE  RunOf(s, w, p) \in Runs(m)
  BY DEF RunOf, Runs, Places, Startups

\* An element of which nothing is made.
Begins(u, x, t) == u = <<x>> \o t

LEMMA FlatMapSkips ==
  ASSUME NEW A, NEW B, NEW F, Maps(F, A, B), NEW x \in A, F[x] = <<>>, NEW t \in Seq(A), NEW u, Begins(u, x, t)
  PROVE  FlatMap(F, u) = FlatMap(F, t)
<1>1. FlatMap(F, <<x>>) = <<>>
  BY FlatMapOne
<1>2. InParts(F, A)
  BY FlatMapConcat
<1>3. <<x>> \in Seq(A)
  OBVIOUS
<1>4. FlatMap(F, <<x>> \o t) = FlatMap(F, <<x>>) \o FlatMap(F, t)
  BY <1>2, <1>3 DEF InParts
<1> DEFINE r == FlatMap(F, t)
<1>5. r \in Seq(B)
  BY FlatMapSteps
<1>6. FlatMap(F, u) = <<>> \o r
  BY <1>1, <1>4 DEF Begins
<1> HIDE DEF r
<1>7. <<>> \o r = r
  BY <1>5
<1>8. QED
  BY <1>6, <1>7 DEF r

-----------------------------------------------------------------------------
(* The tree's side *)

\* What a node of the tree stands for.
PathRuns(m, f) ==
  [n \in Paths(m) |-> IF IsPane(n) /\ Mark(m, f, n) = ""
                      THEN <<RunOf(m[n[1]], m[n[1]].windows[n[2]], PaneAt(m, n))>> ELSE <<>>]

LEMMA PathRunsAre ==
  ASSUME NEW m, IsManifest(m), NEW f
  PROVE  Maps(PathRuns(m, f), Paths(m), Runs(m))
<1> SUFFICES ASSUME NEW n \in Paths(m), IsPane(n)
             PROVE  RunOf(m[n[1]], m[n[1]].windows[n[2]], PaneAt(m, n)) \in Runs(m)
  <2>1. ASSUME NEW n \in Paths(m) PROVE PathRuns(m, f)[n] \in Seq(Runs(m))
    <3> DEFINE r == RunOf(m[n[1]], m[n[1]].windows[n[2]], PaneAt(m, n))
               c == IsPane(n) /\ Mark(m, f, n) = ""
               T == Runs(m)
    <3>1. PathRuns(m, f)[n] = IF c THEN <<r>> ELSE <<>>
      BY DEF PathRuns
    <3>2. c => r \in T
      OBVIOUS
    <3> HIDE DEF r, c, T
    <3>3. (IF c THEN <<r>> ELSE <<>>) \in Seq(T)
      <4>1. CASE c
        BY <3>2, <4>1
      <4>2. CASE ~c
        BY <4>2
      <4>3. QED
        BY <4>1, <4>2
    <3>4. QED
      BY <3>1, <3>3 DEF T
  <2>2. PathRuns(m, f) = [n \in Paths(m) |-> PathRuns(m, f)[n]]
    BY DEF PathRuns
  <2> DEFINE K == PathRuns(m, f)
             V == Seq(Runs(m))
  <2>3. K = [n \in Paths(m) |-> K[n]] /\ \A n \in Paths(m) : K[n] \in V
    BY <2>1, <2>2
  <2> HIDE DEF K, V
  <2>4. K \in [Paths(m) -> V]
    BY <2>3
  <2>5. QED
    BY <2>4 DEF Maps, K, V
<1> DEFINE s == m[n[1]]
           w == s.windows[n[2]]
           p == PaneAt(m, n)
<1>1. n[1] \in DOMAIN m /\ n[2] \in DOMAIN s.windows /\ n[3] \in DOMAIN w.panes
  BY DEF Paths, IsPane
<1>2. s \in ToSet(m)
  BY <1>1 DEF ToSet
<1>3. w \in ToSet(s.windows) /\ p \in ToSet(w.panes)
  BY <1>1 DEF ToSet, PaneAt
<1>4. w \in WindowsIn(m) /\ p \in PanesIn(m)
  BY <1>2, <1>3, ManifestParts
<1> HIDE DEF s, w, p
<1>5. RunOf(s, w, p) \in Runs(m)
  BY <1>2, <1>4, RunIs
<1>6. QED
  BY <1>5 DEF s, w, p

\* What a tree shows undimmed, node by node.
LEMMA KeptIs ==
  ASSUME NEW m, IsManifest(m), NEW f, NEW t, IsTree(t, m, f)
  PROVE  Kept(m, t) = FlatMap(PathRuns(m, f), NodesOf(m))
<1> DEFINE A == Paths(m)
           nodes == t.nodes
           c == [n \in A |-> IsPane(n) /\ Mark(m, f, n) = ""]
           R == [n \in A |-> RunOf(m[n[1]], m[n[1]].windows[n[2]], PaneAt(m, n))]
           keep == [i \in DOMAIN nodes |-> IsPane(nodes[i]) /\ t.mark[nodes[i]] = ""]
           K == PathRuns(m, f)
           shown(n) == [at |-> <<m[n[1]].name, m[n[1]].windows[n[2]].index>>, run |-> Startup(PaneAt(m, n))]
           kept == Those(nodes, keep)
<1>1. nodes = NodesOf(m) /\ t.mark = [n \in ToSet(NodesOf(m)) |-> Mark(m, f, n)]
  BY DEF IsTree
<1>2. nodes \in Seq(A)
  BY <1>1, NodesArePaths
<1>3. Keeps(keep, nodes, c)
  <2>1. \A i \in DOMAIN nodes : nodes[i] \in A /\ t.mark[nodes[i]] = Mark(m, f, nodes[i])
    BY <1>1, <1>2 DEF ToSet
  <2>2. QED
    BY <2>1 DEF Keeps
<1>4. MapsSome(K, A, c, R)
  BY DEF MapsSome, PathRuns
<1>5. Maps(K, A, Runs(m))
  BY PathRunsAre
<1>6. \A n \in A : R[n] = shown(n)
  BY DEF RunOf
<1>7. Kept(m, t) = [i \in DOMAIN kept |-> shown(kept[i])]
  BY DEF Kept
<1> HIDE DEF A, nodes, c, R, keep, K, shown
<1>8. kept \in Seq(A)
  BY <1>2, ThoseIs
<1>9. Mapped(kept, R) = FlatMap(K, nodes)
  BY <1>2, <1>3, <1>4, <1>5, ThoseMapped
<1> HIDE DEF kept
<1>10. [i \in DOMAIN kept |-> shown(kept[i])] = Mapped(kept, R)
  BY <1>6, <1>8 DEF Mapped
<1>11. QED
  BY <1>1, <1>7, <1>9, <1>10 DEF K

\* The panes of a window are dimmed with their session, or on their own.
LEMMA PanePathRuns ==
  ASSUME NEW m, IsManifest(m), NEW f, PlainFilter(f), NEW s \in DOMAIN m, NEW w \in DOMAIN m[s].windows
  PROVE  FlatMap(PathRuns(m, f), PanePaths(m, s, w))
           = IF SkipReason(f, m[s], Running, 0) = "" THEN WindowRuns(f, m[s], m[s].windows[w]) ELSE <<>>
<1> DEFINE win == m[s].windows[w]
           panes == win.panes
           K == PathRuns(m, f)
           paths == PanePaths(m, s, w)
           runs == [i \in DOMAIN paths |-> K[paths[i]]]
           skip == SkipReason(f, m[s], Running, 0)
<1>1. DOMAIN paths = DOMAIN panes /\ \A p \in DOMAIN panes : paths[p] = <<s, w, p>>
  BY DEF PanePaths
<1>2. Len(panes) \in Nat /\ DOMAIN panes = 1 .. Len(panes)
  BY ManifestShape
<1>3. ASSUME NEW p \in DOMAIN panes
      PROVE  runs[p] = IF skip = "" /\ ~SkipPane(f, panes[p]) THEN <<RunOf(m[s], win, panes[p])>> ELSE <<>>
  <2> DEFINE n == <<s, w, p>>
  <2>1. n \in Paths(m)
    BY PathsAre
  <2>2. /\ IsPane(n) /\ n[1] = s /\ n[2] = w /\ n[3] = p /\ Len(n) = 3
        /\ PaneAt(m, n) = panes[p] /\ ~SkipWindow(f, win)
    BY DEF IsPane, PaneAt, SkipWindow, PlainFilter
  <2>3. runs[p] = K[n]
    BY <1>1
  <2> HIDE DEF n, runs
  <2>4. Mark(m, f, n) = IF skip = "" THEN (IF SkipPane(f, panes[p]) THEN "idle shell" ELSE "") ELSE skip
    BY <2>2 DEF Mark
  <2>5. K[n] = IF Mark(m, f, n) = "" THEN <<RunOf(m[s], win, panes[p])>> ELSE <<>>
    BY <2>1, <2>2 DEF PathRuns
  <2> HIDE DEF K, skip, win
  <2>6. Mark(m, f, n) = "" <=> skip = "" /\ ~SkipPane(f, panes[p])
    BY <2>4
  <2>7. QED
    BY <2>3, <2>5, <2>6
<1>4. FlatMap(K, paths) = FlattenSeq(runs) /\ DOMAIN runs = DOMAIN panes /\ runs = [p \in DOMAIN panes |-> runs[p]]
  BY <1>1 DEF FlatMap
<1> HIDE DEF runs
<1>5. CASE skip = ""
  <2>1. \A p \in DOMAIN panes : runs[p] = IF SkipPane(f, panes[p]) THEN <<>> ELSE <<RunOf(m[s], win, panes[p])>>
    BY <1>3, <1>5
  <2>2. runs = [p \in DOMAIN panes |-> IF SkipPane(f, panes[p]) THEN <<>> ELSE <<RunOf(m[s], win, panes[p])>>]
    BY <1>4, <2>1
  <2>3. FlattenSeq(runs) = WindowRuns(f, m[s], win)
    BY <2>2 DEF WindowRuns
  <2>4. QED
    BY <1>4, <1>5, <2>3
<1>6. CASE skip # ""
  <2>1. \A p \in DOMAIN panes : runs[p] = <<>>
    BY <1>3, <1>6
  <2> DEFINE n == Len(panes)
  <2> HIDE DEF panes
  <2>2. n \in Nat /\ runs = [i \in 1 .. n |-> <<>>]
    BY <1>2, <1>4, <2>1
  <2> HIDE DEF n
  <2>3. FlattenSeq(runs) = <<>>
    BY <2>2, FlattenNothing
  <2>4. QED
    BY <1>4, <1>6, <2>3
<1>7. QED
  BY <1>5, <1>6

LEMMA WindowPathRuns ==
  ASSUME NEW m, IsManifest(m), NEW f, PlainFilter(f), NEW s \in DOMAIN m
  PROVE  FlatMap(PathRuns(m, f), WindowPaths(m, s))
           = IF SkipReason(f, m[s], Running, 0) = "" THEN SessionRuns(f, m[s]) ELSE <<>>
<1> DEFINE ws == m[s].windows
           n == Len(ws)
           A == Paths(m)
           K == PathRuns(m, f)
           skip == SkipReason(f, m[s], Running, 0)
           ss == [w \in DOMAIN ws |-> <<<<s, w>>>> \o PanePaths(m, s, w)]
           runs == [w \in DOMAIN ss |-> FlatMap(K, ss[w])]
<1>1. n \in Nat /\ DOMAIN ws = 1 .. n
  BY ManifestShape
<1>2. Maps(K, A, Runs(m))
  BY PathRunsAre
<1>3. ASSUME NEW w \in DOMAIN ws
      PROVE  ss[w] \in Seq(A) /\ FlatMap(K, ss[w]) = IF skip = "" THEN WindowRuns(f, m[s], ws[w]) ELSE <<>>
  <2> DEFINE x == <<s, w>>
             t == PanePaths(m, s, w)
             u == ss[w]
  <2>1. x \in A /\ t \in Seq(A)
    BY PathsAre, PathSeqs
  <2>2. u = <<x>> \o t /\ Begins(u, x, t)
    BY DEF Begins
  <2>3. K[x] = <<>>
    <3>1. ~IsPane(x)
      BY DEF IsPane
    <3> HIDE DEF x
    <3>2. QED
      BY <2>1, <3>1 DEF PathRuns
  <2>4. FlatMap(K, t) = IF skip = "" THEN WindowRuns(f, m[s], ws[w]) ELSE <<>>
    BY PanePathRuns
  <2> HIDE DEF x, t, u, A, K, skip, ws, ss
  <2>5. u \in Seq(A)
    BY <2>1, <2>2
  <2>6. FlatMap(K, u) = FlatMap(K, t)
    BY <1>2, <2>1, <2>2, <2>3, FlatMapSkips
  <2>7. QED
    BY <2>4, <2>5, <2>6 DEF u
<1>4. WindowPaths(m, s) = FlattenSeq(ss)
  BY DEF WindowPaths
<1>5. DOMAIN ss = 1 .. n
  BY <1>1
<1>6. ss = [w \in 1 .. n |-> ss[w]]
  BY <1>1
<1> DEFINE V == Seq(A)
<1> HIDE DEF ss, n, A, K, V
<1>7. ss \in [1 .. n -> V]
  BY <1>1, <1>3, <1>6 DEF V
<1>8. ss \in Seq(V)
  BY <1>1, <1>7
<1>9. FlatMap(K, FlattenSeq(ss)) = FlattenSeq(runs)
  BY <1>2, <1>8, FlatMapFlatten DEF V
<1>10. CASE skip = ""
  <2>1. \A w \in DOMAIN ws : FlatMap(K, ss[w]) = WindowRuns(f, m[s], ws[w])
    BY <1>3, <1>10
  <2>2. runs = [w \in DOMAIN ws |-> WindowRuns(f, m[s], ws[w])]
    BY <1>1, <1>5, <2>1
  <2>3. FlattenSeq(runs) = SessionRuns(f, m[s])
    BY <2>2 DEF SessionRuns
  <2>4. QED
    BY <1>4, <1>9, <1>10, <2>3 DEF K
<1>11. CASE skip # ""
  <2>1. \A w \in DOMAIN ws : FlatMap(K, ss[w]) = <<>>
    BY <1>3, <1>11
  <2>2. runs = [w \in 1 .. n |-> <<>>]
    BY <1>1, <1>5, <2>1
  <2> HIDE DEF runs
  <2>3. FlattenSeq(runs) = <<>>
    BY <1>1, <2>2, FlattenNothing
  <2>4. QED
    BY <1>4, <1>9, <1>11, <2>3 DEF K
<1>12. QED
  BY <1>10, <1>11

LEMMA TreeRuns ==
  ASSUME NEW m, IsManifest(m), NEW f, PlainFilter(f)
  PROVE  FlatMap(PathRuns(m, f), NodesOf(m)) = ManifestRuns(f, m)
<1> DEFINE n == Len(m)
           A == Paths(m)
           K == PathRuns(m, f)
           skip(s) == SkipReason(f, m[s], Running, 0)
           ss == [s \in DOMAIN m |-> <<<<s>>>> \o WindowPaths(m, s)]
           runs == [s \in DOMAIN ss |-> FlatMap(K, ss[s])]
<1>1. n \in Nat /\ DOMAIN m = 1 .. n
  BY ManifestShape
<1>2. Maps(K, A, Runs(m))
  BY PathRunsAre
<1>3. ASSUME NEW s \in DOMAIN m
      PROVE  ss[s] \in Seq(A) /\ FlatMap(K, ss[s]) = IF skip(s) = "" THEN SessionRuns(f, m[s]) ELSE <<>>
  <2> DEFINE x == <<s>>
             t == WindowPaths(m, s)
             u == ss[s]
  <2>1. x \in A /\ t \in Seq(A)
    BY PathsAre, PathSeqs
  <2>2. u = <<x>> \o t /\ Begins(u, x, t)
    BY DEF Begins
  <2>3. K[x] = <<>>
    <3>1. ~IsPane(x)
      BY DEF IsPane
    <3> HIDE DEF x
    <3>2. QED
      BY <2>1, <3>1 DEF PathRuns
  <2>4. FlatMap(K, t) = IF skip(s) = "" THEN SessionRuns(f, m[s]) ELSE <<>>
    BY WindowPathRuns
  <2> HIDE DEF x, t, u, A, K, skip, ss
  <2>5. u \in Seq(A)
    BY <2>1, <2>2
  <2>6. FlatMap(K, u) = FlatMap(K, t)
    BY <1>2, <2>1, <2>2, <2>3, FlatMapSkips
  <2>7. QED
    BY <2>4, <2>5, <2>6 DEF u
<1>4. NodesOf(m) = FlattenSeq(ss)
  BY NodesOfIs
<1>5. DOMAIN ss = 1 .. n
  BY <1>1
<1>6. ss = [s \in 1 .. n |-> ss[s]]
  BY <1>1
<1> DEFINE V == Seq(A)
<1> HIDE DEF ss, n, A, K, V
<1>7. ss \in [1 .. n -> V]
  BY <1>1, <1>3, <1>6 DEF V
<1>8. ss \in Seq(V)
  BY <1>1, <1>7
<1>9. FlatMap(K, FlattenSeq(ss)) = FlattenSeq(runs)
  BY <1>2, <1>8, FlatMapFlatten DEF V
<1>10. runs = [s \in DOMAIN m |-> IF skip(s) = "" THEN SessionRuns(f, m[s]) ELSE <<>>]
  BY <1>1, <1>3, <1>5
<1>11. QED
  BY <1>4, <1>9, <1>10 DEF K, ManifestRuns

-----------------------------------------------------------------------------
(* The plan's side *)

Actions(m) ==
  [op : {"window"}, at : Places(m), run : Startups(m), newSession : BOOLEAN]
  \cup [op : {"split"}, at : Places(m), run : Startups(m)]
  \cup [op : {"option"}, at : Places(m), value : {w.deco : w \in WindowsIn(m)}]
  \cup [op : {"layout"}, at : Places(m), layout : {w.layout : w \in WindowsIn(m)}]

Spawns(a) == a.op \in {"window", "split"}

\* What an action runs.
ActionRuns(m) == [a \in Actions(m) |-> IF Spawns(a) THEN <<[at |-> a.at, run |-> a.run]>> ELSE <<>>]

LEMMA ActionRunsAre ==
  ASSUME NEW m
  PROVE  Maps(ActionRuns(m), Actions(m), Runs(m))
<1> DEFINE T == Runs(m)
           A == Actions(m)
           R(a) == [at |-> a.at, run |-> a.run]
<1>1. \A a \in A : Spawns(a) => R(a) \in T
  BY DEF Actions, Spawns, Runs
<1> HIDE DEF T, A, R
<1>2. ASSUME NEW a \in A PROVE (IF Spawns(a) THEN <<R(a)>> ELSE <<>>) \in Seq(T)
  <2> DEFINE r == R(a)
  <2>1. Spawns(a) => r \in T
    BY <1>1
  <2> HIDE DEF r
  <2>2. CASE Spawns(a)
    <3>1. <<r>> \in Seq(T)
      BY <2>1, <2>2
    <3>2. QED
      BY <2>2, <3>1 DEF r
  <2>3. CASE ~Spawns(a)
    BY <2>3
  <2>4. QED
    BY <2>2, <2>3
<1> DEFINE V == Seq(T)
           K == [a \in A |-> IF Spawns(a) THEN <<R(a)>> ELSE <<>>]
<1> HIDE DEF V
<1>3. K \in [A -> V]
  BY <1>2 DEF V
<1>4. K = ActionRuns(m)
  BY DEF ActionRuns, A, R
<1> HIDE DEF K
<1>5. QED
  BY <1>3, <1>4 DEF Maps, V, A, T

LEMMA RestoredIs ==
  ASSUME NEW m, NEW plan \in Seq(Actions(m))
  PROVE  Restored(plan) = FlatMap(ActionRuns(m), plan)
<1> DEFINE A == Actions(m)
           c == [a \in A |-> Spawns(a)]
           R == [a \in A |-> [at |-> a.at, run |-> a.run]]
           keep == [i \in DOMAIN plan |-> plan[i].op \in {"window", "split"}]
           K == ActionRuns(m)
           panes == Those(plan, keep)
<1>1. Keeps(keep, plan, c)
  BY DEF Keeps, Spawns
<1>2. MapsSome(K, A, c, R)
  BY DEF MapsSome, ActionRuns
<1>3. Maps(K, A, Runs(m))
  BY ActionRunsAre
<1>4. \A a \in A : R[a] = [at |-> a.at, run |-> a.run]
  OBVIOUS
<1>5. Restored(plan) = [i \in DOMAIN panes |-> [at |-> panes[i].at, run |-> panes[i].run]]
  BY DEF Restored
<1> HIDE DEF A, c, R, keep, K
<1>6. panes \in Seq(A)
  BY ThoseIs DEF A
<1>7. plan \in Seq(A)
  BY DEF A
<1>8. Mapped(panes, R) = FlatMap(K, plan)
  BY <1>1, <1>2, <1>3, <1>7, ThoseMapped
<1> HIDE DEF panes
<1>9. [i \in DOMAIN panes |-> [at |-> panes[i].at, run |-> panes[i].run]] = Mapped(panes, R)
  BY <1>4, <1>6 DEF Mapped
<1>10. QED
  BY <1>5, <1>8, <1>9 DEF K

\* The panes of a window that are kept, and what they run.
LEMMA KeptPanesRun ==
  ASSUME NEW m, IsManifest(m), NEW f, NEW s \in ToSet(m), NEW w \in WindowsIn(m)
  PROVE  /\ KeptPanes(f, w) \in Seq(ToSet(w.panes))
         /\ WindowRuns(f, s, w) = [i \in DOMAIN KeptPanes(f, w) |-> RunOf(s, w, KeptPanes(f, w)[i])]
         /\ WindowRuns(f, s, w) \in Seq(Runs(m))
<1> DEFINE panes == w.panes
           A == ToSet(panes)
           B == Runs(m)
           R == [p \in A |-> RunOf(s, w, p)]
           V == [p \in A |-> IF SkipPane(f, p) THEN <<>> ELSE <<p>>]
           U == [p \in A |-> <<R[p]>>]
           H == [p \in A |-> IF SkipPane(f, p) THEN <<>> ELSE <<R[p]>>]
           kept == KeptPanes(f, w)
<1>1. panes \in Seq(A) /\ \A p \in A : R[p] \in B
  BY ManifestParts, RunIs DEF IsSequence
<1>2. \A p \in A : R[p] = RunOf(s, w, p)
  OBVIOUS
<1>3. kept = FlatMap(V, panes)
  <2>1. \A i \in DOMAIN panes : V[panes[i]] = IF SkipPane(f, panes[i]) THEN <<>> ELSE <<panes[i]>>
    BY DEF ToSet
  <2>2. [i \in DOMAIN panes |-> V[panes[i]]]
          = [i \in DOMAIN panes |-> IF SkipPane(f, panes[i]) THEN <<>> ELSE <<panes[i]>>]
    BY <2>1
  <2>3. QED
    BY <2>2 DEF FlatMap, KeptPanes
<1>4. WindowRuns(f, s, w) = FlatMap(H, panes)
  <2>1. \A i \in DOMAIN panes : H[panes[i]] = IF SkipPane(f, panes[i]) THEN <<>> ELSE <<RunOf(s, w, panes[i])>>
    BY DEF ToSet
  <2>2. [i \in DOMAIN panes |-> H[panes[i]]]
          = [i \in DOMAIN panes |-> IF SkipPane(f, panes[i]) THEN <<>> ELSE <<RunOf(s, w, panes[i])>>]
    BY <2>1
  <2>3. QED
    BY <2>2 DEF FlatMap, WindowRuns
<1>5. /\ \A p \in A : V[p] = (IF SkipPane(f, p) THEN <<>> ELSE <<p>>) /\ U[p] = <<R[p]>>
      /\ \A p \in A : H[p] = IF SkipPane(f, p) THEN <<>> ELSE <<R[p]>>
      /\ V = [p \in A |-> V[p]] /\ U = [p \in A |-> U[p]] /\ H = [p \in A |-> H[p]]
  OBVIOUS
<1> HIDE DEF panes, A, B, R, V, U, H, kept
<1>6. Maps(V, A, A)
  <2>1. ASSUME NEW p \in A PROVE V[p] \in Seq(A)
    <3>1. CASE SkipPane(f, p)
      <4>1. V[p] = <<>>
        BY <1>5, <3>1
      <4>2. <<>> \in Seq(A)
        OBVIOUS
      <4>3. QED
        BY <4>1, <4>2
    <3>2. CASE ~SkipPane(f, p)
      <4>1. <<p>> \in Seq(A)
        OBVIOUS
      <4>2. QED
        BY <1>5, <3>2, <4>1
    <3>3. QED
      BY <3>1, <3>2
  <2>2. QED
    BY <1>5, <2>1 DEF Maps
<1>7. Maps(U, A, B) /\ Maps(H, A, B)
  <2>1. ASSUME NEW p \in A PROVE U[p] \in Seq(B) /\ H[p] \in Seq(B)
    <3> DEFINE r == R[p]
    <3>1. r \in B
      BY <1>1
    <3>2. U[p] = <<r>> /\ H[p] = IF SkipPane(f, p) THEN <<>> ELSE <<r>>
      BY <1>5
    <3> HIDE DEF r
    <3>3. <<r>> \in Seq(B)
      BY <3>1
    <3>4. QED
      BY <3>2, <3>3
  <2>2. QED
    BY <1>5, <2>1 DEF Maps
<1>8. Composed(H, A, U, V)
  <2>1. ASSUME NEW p \in A PROVE H[p] = FlatMap(U, V[p])
    <3>1. CASE SkipPane(f, p)
      <4>1. FlatMap(U, <<>>) = <<>>
        BY <1>7, FlatMapSteps
      <4>2. QED
        BY <1>5, <3>1, <4>1
    <3>2. CASE ~SkipPane(f, p)
      <4>1. FlatMap(U, <<p>>) = U[p]
        BY <1>7, FlatMapOne
      <4>2. QED
        BY <1>5, <3>2, <4>1
    <3>3. QED
      BY <3>1, <3>2
  <2>2. QED
    BY <2>1 DEF Composed
<1>9. kept \in Seq(A)
  BY <1>1, <1>3, <1>6, FlatMapSteps
<1>10. FlatMap(U, FlatMap(V, panes)) = FlatMap(H, panes)
  BY <1>1, <1>6, <1>7, <1>8, FlatMapTwice
<1>11. FlatMap(U, kept) = Mapped(kept, R)
  <2>1. MapsOne(U, A, R)
    BY <1>5 DEF MapsOne
  <2>2. QED
    BY <1>7, <1>9, <2>1, FlatMapIsMap
<1>12. Mapped(kept, R) = [i \in DOMAIN kept |-> RunOf(s, w, kept[i])]
  BY <1>2, <1>9 DEF Mapped
<1>13. FlatMap(H, panes) \in Seq(B)
  BY <1>1, <1>7, FlatMapSteps
<1>14. QED
  BY <1>3, <1>4, <1>9, <1>10, <1>11, <1>12, <1>13 DEF kept, A, B, panes

\* The actions of a window run its kept panes.
LEMMA WindowActionsRun ==
  ASSUME NEW m, IsManifest(m), NEW f, NEW s \in ToSet(m), NEW w \in WindowsIn(m), KeptPanes(f, w) # <<>>,
         NEW b \in BOOLEAN
  PROVE  /\ WindowActions(f, s, w, b) \in Seq(Actions(m))
         /\ FlatMap(ActionRuns(m), WindowActions(f, s, w, b)) = WindowRuns(f, s, w)
<1> DEFINE at == <<s.name, w.index>>
           kept == KeptPanes(f, w)
           P == ToSet(w.panes)
           n == Len(kept)
           A == Actions(m)
           B == Runs(m)
           K == ActionRuns(m)
           a == [op |-> "window", at |-> at, run |-> Startup(kept[1]), newSession |-> b]
           o == [op |-> "option", at |-> at, value |-> w.deco]
           d == IF w.deco = "" THEN <<>> ELSE <<o>>
           x == [i \in 1 .. n - 1 |-> [op |-> "split", at |-> at, run |-> Startup(kept[i + 1])]]
           l == [op |-> "layout", at |-> at, layout |-> w.layout]
           r == [i \in 1 .. n - 1 |-> RunOf(s, w, kept[i + 1])]
           r1 == RunOf(s, w, kept[1])
<1>1. kept \in Seq(P) /\ P \subseteq PanesIn(m)
  BY KeptPanesRun, ManifestParts
<1>2. n \in Nat \ {0} /\ DOMAIN kept = 1 .. n /\ \A i \in 1 .. n : kept[i] \in PanesIn(m)
  <2> HIDE DEF kept, P
  <2>1. kept # <<>>
    BY DEF kept
  <2>2. QED
    BY <1>1, <2>1
<1>3. at \in Places(m) /\ \A i \in 1 .. n : Startup(kept[i]) \in Startups(m)
  BY <1>2 DEF Places, Startups
<1>4. WindowActions(f, s, w, b) = ((<<a>> \o d) \o x) \o <<l>>
  BY DEF WindowActions
<1>5. a \in A /\ o \in A /\ l \in A /\ (\A i \in 1 .. n - 1 : x[i] \in A)
  <2>1. a \in A
    BY <1>2, <1>3 DEF Actions
  <2>2. o \in A
    BY <1>3 DEF Actions
  <2>3. l \in A
    BY <1>3 DEF Actions
  <2>4. ASSUME NEW i \in 1 .. n - 1 PROVE x[i] \in A
    <3>1. Startup(kept[i + 1]) \in Startups(m)
      BY <1>2, <1>3
    <3>2. QED
      BY <1>3, <3>1 DEF Actions
  <2>5. QED
    BY <2>1, <2>2, <2>3, <2>4
<1>6. /\ K[a] = <<r1>> /\ K[o] = <<>> /\ K[l] = <<>>
      /\ \A i \in 1 .. n - 1 : K[x[i]] = <<r[i]>> /\ r[i] = RunOf(s, w, kept[i + 1])
  BY <1>5 DEF ActionRuns, Spawns, RunOf
<1>7. Maps(K, A, B)
  BY ActionRunsAre
<1>8. r1 \in B /\ \A i \in 1 .. n - 1 : r[i] \in B
  BY <1>2, RunIs
<1>9. x = [i \in 1 .. n - 1 |-> x[i]] /\ r = [i \in 1 .. n - 1 |-> r[i]]
  OBVIOUS
<1>10. d \in {<<>>, <<o>>}
  OBVIOUS
<1>11. /\ WindowRuns(f, s, w) = [i \in 1 .. n |-> RunOf(s, w, kept[i])] /\ r1 = RunOf(s, w, kept[1])
  <2>1. WindowRuns(f, s, w) = [i \in DOMAIN kept |-> RunOf(s, w, kept[i])]
    BY KeptPanesRun
  <2> HIDE DEF kept
  <2>2. QED
    BY <1>2, <2>1
<1> HIDE DEF at, P, A, B, K, a, o, d, x, l, r, r1, n
<1>12. x \in Seq(A) /\ DOMAIN x = 1 .. n - 1
  <2>1. n - 1 \in Nat
    BY <1>2
  <2>2. x \in [1 .. n - 1 -> A]
    BY <1>5, <1>9
  <2>3. QED
    BY <2>1, <2>2
<1>13. FlatMap(K, x) = r
  <2> DEFINE X == {y \in A : \E i \in 1 .. n - 1 : y = x[i]}
             F == [y \in X |-> K[y]]
             G == [y \in X |-> K[y][1]]
  <2>1. \A y \in X : F[y] = <<G[y]>> /\ G[y] \in B
    <3> SUFFICES ASSUME NEW i \in 1 .. n - 1 PROVE K[x[i]] = <<K[x[i]][1]>> /\ K[x[i]][1] \in B
      OBVIOUS
    <3> DEFINE z == K[x[i]]
               y == r[i]
    <3>1. z = <<y>> /\ y \in B
      BY <1>6, <1>8
    <3> HIDE DEF z, y
    <3>2. z = <<z[1]>> /\ z[1] \in B
      BY <3>1
    <3>3. QED
      BY <3>2 DEF z
  <2>2. F = [y \in X |-> F[y]] /\ \A i \in 1 .. n - 1 : x[i] \in X /\ F[x[i]] = K[x[i]] /\ G[x[i]] = K[x[i]][1]
    BY <1>5
  <2> HIDE DEF X, F, G
  <2>3. x \in Seq(X)
    <3>1. x \in [1 .. n - 1 -> X] /\ n - 1 \in Nat
      BY <1>2, <1>9, <2>2
    <3>2. QED
      BY <3>1
  <2>4. Maps(F, X, B) /\ MapsOne(F, X, G)
    <3>1. ASSUME NEW y \in X PROVE F[y] \in Seq(B)
      <4> DEFINE z == G[y]
      <4>1. F[y] = <<z>> /\ z \in B
        BY <2>1
      <4> HIDE DEF z
      <4>2. QED
        BY <4>1
    <3>2. QED
      BY <2>1, <2>2, <3>1 DEF Maps, MapsOne
  <2>5. FlatMap(F, x) = Mapped(x, G)
    BY <2>3, <2>4, FlatMapIsMap
  <2>6. FlatMap(F, x) = FlatMap(K, x)
    <3>1. [i \in DOMAIN x |-> F[x[i]]] = [i \in DOMAIN x |-> K[x[i]]]
      BY <1>12, <2>2
    <3>2. QED
      BY <3>1 DEF FlatMap
  <2>7. \A i \in 1 .. n - 1 : G[x[i]] = r[i]
    BY <1>6, <2>2
  <2>8. Mapped(x, G) = r
    BY <1>9, <1>12, <2>7 DEF Mapped
  <2>9. QED
    BY <2>5, <2>6, <2>8
<1>14. <<a>> \in Seq(A) /\ <<l>> \in Seq(A) /\ d \in Seq(A) /\ FlatMap(K, <<a>>) = <<r1>> /\ FlatMap(K, <<l>>) = <<>>
       /\ FlatMap(K, d) = <<>>
  <2>1. <<a>> \in Seq(A) /\ <<l>> \in Seq(A) /\ <<o>> \in Seq(A)
    BY <1>5
  <2>2. FlatMap(K, <<a>>) = K[a] /\ FlatMap(K, <<l>>) = K[l] /\ FlatMap(K, <<o>>) = K[o]
    BY <1>5, <1>7, FlatMapOne
  <2>3. FlatMap(K, <<>>) = <<>>
    BY <1>7, FlatMapSteps
  <2>4. d \in Seq(A) /\ FlatMap(K, d) = <<>>
    <3>1. CASE d = <<>>
      <4>1. <<>> \in Seq(A)
        OBVIOUS
      <4>2. QED
        BY <2>3, <3>1, <4>1
    <3>2. CASE d = <<o>>
      BY <1>6, <2>1, <2>2, <3>2
    <3>3. QED
      BY <1>10, <3>1, <3>2
  <2>5. QED
    BY <1>6, <2>1, <2>2, <2>4
<1> DEFINE u1 == <<a>> \o d
           u2 == u1 \o x
           u3 == u2 \o <<l>>
<1>15. u1 \in Seq(A)
  BY <1>14
<1> HIDE DEF u1
<1>16. u2 \in Seq(A)
  BY <1>12, <1>15
<1> HIDE DEF u2
<1>17. u3 \in Seq(A)
  BY <1>14, <1>16
<1>18. FlatMap(K, u3) = ((<<r1>> \o <<>>) \o r) \o <<>>
  <2>1. InParts(K, A)
    BY <1>7, FlatMapConcat
  <2>2. FlatMap(K, u1) = <<r1>> \o <<>>
    BY <1>14, <2>1 DEF InParts, u1
  <2>3. FlatMap(K, u2) = FlatMap(K, u1) \o r
    BY <1>12, <1>13, <1>15, <2>1 DEF InParts, u2
  <2>4. FlatMap(K, u3) = FlatMap(K, u2) \o <<>>
    BY <1>14, <1>16, <2>1 DEF InParts
  <2>5. QED
    BY <2>2, <2>3, <2>4
<1>19. ((<<r1>> \o <<>>) \o r) \o <<>> = [i \in 1 .. n |-> RunOf(s, w, kept[i])]
  <2>1. n - 1 \in Nat
    BY <1>2
  <2>2. r \in [1 .. n - 1 -> B]
    BY <1>8, <1>9
  <2>3. r \in Seq(B) /\ Len(r) = n - 1
    BY <2>1, <2>2
  <2>4. ((<<r1>> \o <<>>) \o r) \o <<>> = <<r1>> \o r
    BY <1>8, <2>3
  <2> DEFINE v == <<r1>> \o r
             q(i) == RunOf(s, w, kept[i])
  <2>5. v \in Seq(B) /\ Len(v) = n /\ v[1] = r1 /\ \A i \in 2 .. n : v[i] = r[i - 1]
    BY <1>2, <1>8, <2>3
  <2>6. \A i \in 2 .. n : r[i - 1] = q(i)
    <3> TAKE i \in 2 .. n
    <3> DEFINE j == i - 1
    <3>1. j \in 1 .. n - 1 /\ j + 1 = i
      BY <1>2
    <3> HIDE DEF j, q
    <3>2. r[j] = RunOf(s, w, kept[j + 1])
      BY <1>6, <3>1
    <3>3. QED
      BY <3>1, <3>2 DEF j, q
  <2> HIDE DEF v, q
  <2>7. \A i \in 1 .. n : v[i] = q(i)
    <3>1. r1 = q(1)
      BY <1>11 DEF q
    <3>2. \A i \in 1 .. n : i = 1 \/ i \in 2 .. n
      BY <1>2
    <3>3. QED
      BY <2>5, <2>6, <3>1, <3>2
  <2>8. v = [i \in 1 .. n |-> q(i)]
    BY <2>5, <2>7
  <2>9. QED
    BY <2>4, <2>8 DEF v, q
<1>20. QED
  BY <1>4, <1>11, <1>17, <1>18, <1>19 DEF u1, u2, A, K

\* The actions of a session run its kept panes.
LEMMA SessionActionsRun ==
  ASSUME NEW m, IsManifest(m), NEW f, PlainFilter(f), NEW s \in ToSet(m)
  PROVE  /\ SessionActions(f, s) \in Seq(Actions(m))
         /\ FlatMap(ActionRuns(m), SessionActions(f, s)) = SessionRuns(f, s)
<1> DEFINE windows == s.windows
           W == ToSet(windows)
           P == {w \in W : KeptPanes(f, w) # <<>>}
           A == Actions(m)
           B == Runs(m)
           K == ActionRuns(m)
           E == [w \in W |-> IF w \in P THEN <<w>> ELSE <<>>]
           D == [w \in P |-> WindowRuns(f, s, w)]
           H == [w \in W |-> WindowRuns(f, s, w)]
           ws == PlannedWindows(f, s)
           acts == [i \in DOMAIN ws |-> WindowActions(f, s, ws[i], i = 1)]
<1>1. windows \in Seq(W) /\ W \subseteq WindowsIn(m)
  BY ManifestParts DEF IsSequence
<1>2. ws = FlatMap(E, windows)
  <2>1. ASSUME NEW i \in DOMAIN windows
        PROVE  E[windows[i]] = IF SkipWindow(f, windows[i]) \/ KeptPanes(f, windows[i]) = <<>> THEN <<>>
                               ELSE <<windows[i]>>
    <3>1. windows[i] \in W /\ ~SkipWindow(f, windows[i])
      BY DEF ToSet, SkipWindow, PlainFilter
    <3> HIDE DEF windows, W
    <3>2. QED
      BY <3>1
  <2>2. [i \in DOMAIN windows |-> E[windows[i]]]
          = [i \in DOMAIN windows |->
               IF SkipWindow(f, windows[i]) \/ KeptPanes(f, windows[i]) = <<>> THEN <<>> ELSE <<windows[i]>>]
    BY <2>1
  <2>3. QED
    BY <2>2 DEF FlatMap, PlannedWindows
<1>3. /\ \A w \in W : /\ E[w] = IF w \in P THEN <<w>> ELSE <<>>
                      /\ H[w] = WindowRuns(f, s, w)
      /\ \A w \in P : w \in W /\ D[w] = WindowRuns(f, s, w) /\ KeptPanes(f, w) # <<>>
      /\ \A w \in W \ P : KeptPanes(f, w) = <<>>
      /\ E = [w \in W |-> E[w]] /\ H = [w \in W |-> H[w]] /\ D = [w \in P |-> D[w]]
  OBVIOUS
<1>4. \A w \in W : WindowRuns(f, s, w) \in Seq(B)
  BY <1>1, KeptPanesRun
<1>5. ASSUME NEW w \in W \ P PROVE WindowRuns(f, s, w) = <<>>
  <2>1. w \in WindowsIn(m)
    BY <1>1
  <2>2. WindowRuns(f, s, w) = [i \in DOMAIN KeptPanes(f, w) |-> RunOf(s, w, KeptPanes(f, w)[i])]
    BY <2>1, KeptPanesRun
  <2>3. KeptPanes(f, w) = <<>>
    BY <1>3
  <2>4. QED
    BY <2>2, <2>3
<1>6. SessionActions(f, s) = FlattenSeq(acts)
  BY DEF SessionActions
<1>7. SessionRuns(f, s) = FlatMap(H, windows)
  <2>1. \A i \in DOMAIN windows : H[windows[i]] = WindowRuns(f, s, windows[i])
    BY DEF ToSet
  <2>2. [i \in DOMAIN windows |-> H[windows[i]]] = [i \in DOMAIN windows |-> WindowRuns(f, s, windows[i])]
    BY <2>1
  <2>3. QED
    BY <2>2 DEF FlatMap, SessionRuns
<1> HIDE DEF windows, W, P, B, E, D, H, ws
<1>8. Maps(E, W, P)
  <2>1. ASSUME NEW w \in W PROVE E[w] \in Seq(P)
    <3>1. CASE w \in P
      <4>1. <<w>> \in Seq(P)
        BY <3>1
      <4>2. QED
        BY <1>3, <3>1, <4>1
    <3>2. CASE w \notin P
      <4>1. E[w] = <<>> /\ <<>> \in Seq(P)
        BY <1>3, <3>2
      <4>2. QED
        BY <4>1
    <3>3. QED
      BY <3>1, <3>2
  <2>2. QED
    BY <1>3, <2>1 DEF Maps
<1>9. Maps(D, P, B)
  BY <1>3, <1>4 DEF Maps
<1>10. Composed(H, W, D, E)
  <2>1. ASSUME NEW w \in W PROVE H[w] = FlatMap(D, E[w])
    <3>1. CASE w \in P
      <4>1. FlatMap(D, <<w>>) = D[w]
        BY <1>9, <3>1, FlatMapOne
      <4>2. QED
        BY <1>3, <3>1, <4>1
    <3>2. CASE w \notin P
      <4>1. FlatMap(D, <<>>) = <<>>
        BY <1>9, FlatMapSteps
      <4>2. WindowRuns(f, s, w) = <<>>
        BY <1>5, <3>2
      <4>3. E[w] = <<>> /\ H[w] = WindowRuns(f, s, w)
        BY <1>3, <3>2
      <4>4. QED
        BY <4>1, <4>2, <4>3
    <3>3. QED
      BY <3>1, <3>2
  <2>2. QED
    BY <2>1 DEF Composed
<1>11. ws \in Seq(P)
  BY <1>1, <1>2, <1>8, FlatMapSteps
<1>12. Len(ws) \in Nat /\ DOMAIN ws = 1 .. Len(ws) /\ \A i \in DOMAIN ws : ws[i] \in P
  BY <1>11
<1>13. ASSUME NEW i \in DOMAIN ws
       PROVE  acts[i] \in Seq(A) /\ FlatMap(K, acts[i]) = D[ws[i]]
  <2> DEFINE w == ws[i]
             b == i = 1
  <2>1. w \in P /\ b \in BOOLEAN
    BY <1>12
  <2>2. w \in WindowsIn(m) /\ KeptPanes(f, w) # <<>> /\ D[w] = WindowRuns(f, s, w)
    BY <1>1, <1>3, <2>1
  <2>3. acts[i] = WindowActions(f, s, w, b)
    OBVIOUS
  <2> HIDE DEF w, b, acts
  <2>4. /\ WindowActions(f, s, w, b) \in Seq(A)
        /\ FlatMap(K, WindowActions(f, s, w, b)) = WindowRuns(f, s, w)
    BY <2>1, <2>2, WindowActionsRun
  <2>5. QED
    BY <2>2, <2>3, <2>4 DEF w
<1> DEFINE V == Seq(A)
           n == Len(ws)
<1>14. acts = [i \in 1 .. n |-> acts[i]] /\ DOMAIN acts = 1 .. n
  BY <1>12
<1> HIDE DEF acts, V, n
<1>15. acts \in Seq(V)
  <2>1. n \in Nat /\ \A i \in 1 .. n : acts[i] \in V
    BY <1>12, <1>13 DEF V, n
  <2>2. acts \in [1 .. n -> V]
    BY <1>14, <2>1
  <2>3. QED
    BY <2>1, <2>2
<1> HIDE DEF A, K
<1>16. FlattenSeq(acts) \in Seq(A)
  <2>1. n \in Nat /\ \A i \in 1 .. n : acts[i] \in Seq(A)
    BY <1>12, <1>13 DEF n
  <2>2. QED
    BY <1>14, <2>1, FlattenSeqType
<1>17. FlatMap(K, FlattenSeq(acts)) = FlattenSeq([i \in DOMAIN acts |-> FlatMap(K, acts[i])])
  <2>1. Maps(K, A, B)
    BY ActionRunsAre DEF K, A, B
  <2>2. QED
    BY <1>15, <2>1, FlatMapFlatten DEF V
<1>18. [i \in DOMAIN acts |-> FlatMap(K, acts[i])] = [i \in DOMAIN ws |-> D[ws[i]]]
  BY <1>12, <1>13, <1>14 DEF n
<1>19. FlattenSeq([i \in DOMAIN ws |-> D[ws[i]]]) = FlatMap(D, ws)
  BY DEF FlatMap
<1>20. FlatMap(D, FlatMap(E, windows)) = FlatMap(H, windows)
  BY <1>1, <1>8, <1>9, <1>10, FlatMapTwice
<1>21. QED
  BY <1>2, <1>6, <1>7, <1>16, <1>17, <1>18, <1>19, <1>20 DEF A, K

\* And those of a plan, the panes of the manifest that are not skipped.
LEMMA PlanRuns ==
  ASSUME NEW m, IsManifest(m), NEW f, PlainFilter(f)
  PROVE  Restored(BuildPlan(m, f, Running, 0)) = ManifestRuns(f, m)
<1> DEFINE skip(s) == SkipReason(f, s, Running, 0)
           A == Actions(m)
           V == Seq(A)
           B == Runs(m)
           K == ActionRuns(m)
           n == Len(m)
           ss == [i \in DOMAIN m |-> IF skip(m[i]) = "" THEN SessionActions(f, m[i]) ELSE <<>>]
           plan == BuildPlan(m, f, Running, 0)
<1>1. n \in Nat /\ DOMAIN m = 1 .. n
  BY ManifestShape
<1>2. plan = FlattenSeq(ss)
  BY DEF BuildPlan
<1>3. Maps(K, A, B)
  BY ActionRunsAre
<1>4. ss = [i \in 1 .. n |-> ss[i]] /\ DOMAIN ss = 1 .. n
  BY <1>1
<1>5. ASSUME NEW i \in DOMAIN m
      PROVE  ss[i] \in V /\ FlatMap(K, ss[i]) = IF skip(m[i]) = "" THEN SessionRuns(f, m[i]) ELSE <<>>
  <2> DEFINE s == m[i]
  <2>1. s \in ToSet(m)
    BY DEF ToSet
  <2>2. ss[i] = IF skip(s) = "" THEN SessionActions(f, s) ELSE <<>>
    OBVIOUS
  <2> HIDE DEF s, ss, skip
  <2>3. CASE skip(s) = ""
    <3>1. SessionActions(f, s) \in V /\ FlatMap(K, SessionActions(f, s)) = SessionRuns(f, s)
      BY <2>1, SessionActionsRun
    <3>2. QED
      BY <2>2, <2>3, <3>1 DEF s
  <2>4. CASE skip(s) # ""
    <3> HIDE DEF K, A
    <3>1. FlatMap(K, <<>>) = <<>> /\ <<>> \in V
      BY <1>3, FlatMapSteps
    <3>2. QED
      BY <2>2, <2>4, <3>1 DEF s
  <2>5. QED
    BY <2>3, <2>4
<1> HIDE DEF ss, n, K, A
<1>6. FlattenSeq(ss) \in Seq(A)
  <2>1. \A i \in 1 .. n : ss[i] \in Seq(A)
    BY <1>1, <1>5
  <2>2. QED
    BY <1>1, <1>4, <2>1, FlattenSeqType
<1> HIDE DEF V
<1>7. ss \in Seq(V)
  <2>1. ss \in [1 .. n -> V]
    BY <1>1, <1>4, <1>5
  <2>2. QED
    BY <1>1, <2>1
<1>8. FlatMap(K, FlattenSeq(ss)) = FlattenSeq([i \in DOMAIN ss |-> FlatMap(K, ss[i])])
  BY <1>3, <1>7, FlatMapFlatten DEF V
<1>9. [i \in DOMAIN ss |-> FlatMap(K, ss[i])]
        = [i \in DOMAIN m |-> IF skip(m[i]) = "" THEN SessionRuns(f, m[i]) ELSE <<>>]
  BY <1>1, <1>4, <1>5
<1>10. FlatMap(K, plan) = ManifestRuns(f, m)
  BY <1>2, <1>8, <1>9 DEF ManifestRuns
<1> HIDE DEF plan
<1>11. Restored(plan) = FlatMap(K, plan)
  BY <1>2, <1>6, RestoredIs DEF K, A
<1>12. QED
  BY <1>10, <1>11 DEF plan

LEMMA PlanAgrees ==
  ASSUME Screen
  PROVE  PlanIsWhatTheTreeShows
<1> SUFFICES ASSUME NEW i \in DOMAIN trees
             PROVE  Kept(Event(i).man, trees[i]) = Restored(BuildPlan(Event(i).man, filter, Running, 0))
  BY DEF PlanIsWhatTheTreeShows
<1> DEFINE m == Event(i).man
           t == trees[i]
<1>1. IsManifest(m)
  <2>1. GivenInv /\ Listed({i})
    BY DEF Screen, Listed
  <2>2. QED
    BY <2>1, ListedIsManifest
<1>2. IsTree(t, m, filter) /\ PlainFilter(filter)
  BY DEF Screen, TreesInv, FilterInv, PlainFilter
<1> HIDE DEF m, t
<1>3. Kept(m, t) = FlatMap(PathRuns(m, filter), NodesOf(m))
  BY <1>1, <1>2, KeptIs
<1>4. FlatMap(PathRuns(m, filter), NodesOf(m)) = ManifestRuns(filter, m)
  BY <1>1, <1>2, TreeRuns
<1>5. Restored(BuildPlan(m, filter, Running, 0)) = ManifestRuns(filter, m)
  BY <1>1, <1>2, PlanRuns
<1>6. QED
  BY <1>3, <1>4, <1>5 DEF m, t

\* Enter restores what the tree shows undimmed, pane by pane in its window and
\* in order, no more and no less, whatever the snapshot and after whatever
\* keys: FilterDecorate (tree.go) and BuildPlan (plan.go) agree on every
\* manifest and every filter of the picker.
THEOREM PlanAgreesWithTree == Spec => []PlanIsWhatTheTreeShows
<1>1. Screen => PlanIsWhatTheTreeShows
  BY PlanAgrees
<1>2. QED
  BY <1>1, ScreenInvariant, PTL
=============================================================================
