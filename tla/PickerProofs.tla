----------------------------- MODULE PickerProofs -----------------------------
(***************************************************************************)
(* What the picker keeps, on whatever it is opened and whatever keys are   *)
(* pressed: its list of closes is right, its cursor is on a close, its     *)
(* choice can be restored, and only Left and the running toggle fold.      *)
(***************************************************************************)
EXTENDS Picker, CloseListProofs

\* What it was opened on is one of its inputs.
GivenInv == \E in \in Inputs : given = Opened(in)

FilterInv == filter \in [age : {0}, idleShells : BOOLEAN, idleWindows : {FALSE}, skipRunning : BOOLEAN]

\* The tree of a manifest m as it is marked under the filter f.
IsTree(t, m, f) ==
  t = [nodes |-> NodesOf(m), expanded |-> t.expanded, mark |-> [n \in ToSet(NodesOf(m)) |-> Mark(m, f, n)]]

\* Only snapshots that parsed have trees, and each is marked under the filter.
TreesInv ==
  /\ trees = [i \in DOMAIN trees |-> trees[i]]
  /\ \A i \in DOMAIN trees : Event(i).ok /\ IsTree(trees[i], Event(i).man, filter)

-----------------------------------------------------------------------------
(* Operators *)

\* Decorating a tree of m.
LEMMA DecoratedIsTree ==
  ASSUME NEW m, NEW f, NEW t, NEW E, NEW M, t = [nodes |-> NodesOf(m), expanded |-> E, mark |-> M]
  PROVE  IsTree(FilterDecorate(m, f, t), m, f)
<1> DEFINE N == NodesOf(m)
           mark == [n \in ToSet(N) |-> Mark(m, f, n)]
           is(n)  == mark[n] = "running"
           was(n) == M[n] = "running"
           turned == {n \in DOMAIN mark : IsSession(n) /\ is(n) # was(n)}
           X == (E \ turned) \cup {n \in turned : was(n)}
<1>1. t.nodes = N /\ t.expanded = E /\ t.mark = M
  OBVIOUS
<1>2. FilterDecorate(m, f, t) = [t EXCEPT !.expanded = X, !.mark = mark]
  BY <1>1 DEF FilterDecorate
<1> HIDE DEF N, mark, X
<1>3. [t EXCEPT !.expanded = X, !.mark = mark] = [nodes |-> N, expanded |-> X, mark |-> mark]
  <2> DEFINE u == [t EXCEPT !.expanded = X]
  <2>1. t = [nodes |-> N, expanded |-> E, mark |-> M]
    BY DEF N
  <2>2. u = [nodes |-> N, expanded |-> X, mark |-> M]
    BY <2>1
  <2>3. [t EXCEPT !.expanded = X, !.mark = mark] = [u EXCEPT !.mark = mark]
    OBVIOUS
  <2> HIDE DEF u
  <2>4. [u EXCEPT !.mark = mark] = [nodes |-> N, expanded |-> X, mark |-> mark]
    BY <2>2
  <2>5. QED
    BY <2>3, <2>4
<1>4. QED
  BY <1>2, <1>3 DEF IsTree, N, mark

\* Whether a session runs is not a matter of the idle toggle.
LEMMA RunningIsRunning ==
  ASSUME NEW m, NEW n, NEW f, NEW h, f.skipRunning = h.skipRunning, f.age = h.age
  PROVE  Mark(m, f, n) = "running" <=> Mark(m, h, n) = "running"
<1> DEFINE p(x) == IF IsPane(n) /\ SkipPane(x, PaneAt(m, n)) THEN "idle shell"
                   ELSE IF Len(n) > 1 /\ SkipWindow(x, m[n[1]].windows[n[2]]) THEN "all panes idle" ELSE ""
           r(x) == SkipReason(x, m[n[1]], Running, 0)
<1>1. Mark(m, f, n) = (IF r(f) = "" THEN p(f) ELSE r(f)) /\ Mark(m, h, n) = (IF r(h) = "" THEN p(h) ELSE r(h))
  BY DEF Mark
<1>2. r(f) = r(h)
  BY DEF SkipReason
<1>3. p(f) # "running" /\ p(h) # "running"
  OBVIOUS
<1> HIDE DEF p, r
<1>4. QED
  BY <1>1, <1>2, <1>3

\* A decorate pass that only the idle toggle sets apart folds nothing.
LEMMA DecorateKeeps ==
  ASSUME NEW m, NEW f, NEW h, f.skipRunning = h.skipRunning, f.age = h.age, NEW t, IsTree(t, m, f)
  PROVE  FilterDecorate(m, h, t).expanded = t.expanded
<1> DEFINE N == NodesOf(m)
           mark == [n \in ToSet(N) |-> Mark(m, h, n)]
           is(n)  == mark[n] = "running"
           was(n) == t.mark[n] = "running"
           turned == {n \in DOMAIN mark : IsSession(n) /\ is(n) # was(n)}
           X == (t.expanded \ turned) \cup {n \in turned : was(n)}
<1>1. t.nodes = N /\ t.mark = [n \in ToSet(N) |-> Mark(m, f, n)]
  BY DEF IsTree
<1>2. \A n \in ToSet(N) : is(n) <=> was(n)
  BY <1>1, RunningIsRunning
<1>3. turned = {}
  BY <1>2
<1>4. X = t.expanded
  BY <1>3
<1>5. FilterDecorate(m, h, t) = [t EXCEPT !.expanded = X, !.mark = mark]
  BY <1>1 DEF FilterDecorate
<1> HIDE DEF X, mark
<1>6. "expanded" \in DOMAIN t
  BY DEF IsTree
<1>7. [t EXCEPT !.expanded = X, !.mark = mark].expanded = X
  BY <1>6
<1>8. QED
  BY <1>4, <1>5, <1>7

\* Folding and unfolding change nothing else.
LEMMA ExpandedIsTree ==
  ASSUME NEW m, NEW f, NEW t, IsTree(t, m, f), NEW X
  PROVE  IsTree([t EXCEPT !.expanded = X], m, f) /\ [t EXCEPT !.expanded = X].expanded = X
<1> DEFINE N == NodesOf(m)
           mark == [n \in ToSet(N) |-> Mark(m, f, n)]
           E == t.expanded
<1>1. t = [nodes |-> N, expanded |-> E, mark |-> mark]
  BY DEF IsTree
<1> HIDE DEF N, mark, E
<1>2. [t EXCEPT !.expanded = X] = [nodes |-> N, expanded |-> X, mark |-> mark]
  BY <1>1
<1>3. QED
  BY <1>2 DEF IsTree, N, mark

-----------------------------------------------------------------------------
(* The trees *)

\* The snapshot of an id, when it is listed.
LEMMA EventIs ==
  ASSUME GivenInv, NEW k \in DOMAIN given.events
  PROVE  Event(given.events[k].id) = given.events[k]
<1> DEFINE events == given.events
           A == {events[i] : i \in DOMAIN events}
<1>1. \A i, j \in DOMAIN events : events[i].id = events[j].id => i = j
  <2>1. PICK in \in Inputs : given = Opened(in)
    BY DEF GivenInv
  <2>2. given.events = in.events
    BY <2>1 DEF Opened
  <2>3. QED
    BY <2>1, <2>2, InputsAssumption
<1>2. \A e \in A : e.id = events[k].id => e = events[k]
  BY <1>1
<1>3. events[k] \in A
  OBVIOUS
<1>4. QED
  BY <1>2, <1>3 DEF Event

LEMMA BuiltIsTree ==
  ASSUME NEW m, NEW f
  PROVE  IsTree(FilterDecorate(m, f, BuildTree(m)), m, f)
<1> DEFINE N == NodesOf(m)
           E == {n \in ToSet(N) : ~IsPane(n)}
           M == [n \in ToSet(N) |-> ""]
           t == BuildTree(m)
<1>1. t = [nodes |-> NodesOf(m), expanded |-> E, mark |-> M]
  BY DEF BuildTree
<1> HIDE DEF E, M, t
<1>2. IsTree(FilterDecorate(m, f, t), m, f)
  BY <1>1, DecoratedIsTree
<1>3. QED
  BY <1>2 DEF t

LEMMA TreesInit ==
  ASSUME Init
  PROVE  GivenInv /\ FilterInv /\ TreesInv
<1>1. GivenInv
  BY DEF Init, GivenInv
<1>2. FilterInv
  BY DEF Init, FilterInv, DefaultFilter
<1>3. PICK in \in Inputs :
        /\ given = Opened(in)
        /\ LET first == IF in.mode = "snapshot" /\ in.events # <<>> THEN {in.events[1]} ELSE {}
           IN  trees = [i \in {e.id : e \in {x \in first : x.ok}} |->
                          FilterDecorate(Event(i).man, filter, BuildTree(Event(i).man))]
  BY DEF Init
<1> DEFINE first == IF in.mode = "snapshot" /\ in.events # <<>> THEN {in.events[1]} ELSE {}
           ids == {e.id : e \in {x \in first : x.ok}}
<1>4. trees = [i \in ids |-> FilterDecorate(Event(i).man, filter, BuildTree(Event(i).man))]
  BY <1>3
<1>5. \A i \in ids : Event(i).ok
  <2> TAKE i \in ids
  <2>1. in.events # <<>> /\ in.events[1].ok /\ in.events[1].id = i
    OBVIOUS
  <2>2. given.events = in.events
    BY <1>3 DEF Opened
  <2>3. in.events \in Seq(ToSet(in.events))
    BY InputsAssumption DEF IsSequence
  <2>4. 1 \in DOMAIN given.events
    BY <2>1, <2>2, <2>3
  <2>5. QED
    BY <1>1, <2>1, <2>2, <2>4, EventIs
<1> HIDE DEF ids
<1>6. \A i \in DOMAIN trees : Event(i).ok /\ IsTree(trees[i], Event(i).man, filter)
  BY <1>4, <1>5, BuiltIsTree
<1>7. QED
  BY <1>1, <1>2, <1>4, <1>6 DEF TreesInv

\* What is given, and so each snapshot, stays.
LEMMA GivenStays ==
  ASSUME [Next]_vars
  PROVE  UNCHANGED given
<1>1. ASSUME Next PROVE UNCHANGED given
  BY <1>1 DEF Next, Resize, ScrollbackLoaded, Wheel, PreviewUpDown, PreviewLeftRight, Quit, CloseUpDown,
     CloseEnter, Choose, ListUpDown, Tab, ToggleIdle, ToggleSkipRunning, Enter, TreeUpDown, TreeRight, TreeLeft
<1>2. QED
  BY <1>1 DEF vars

LEMMA EventStays ==
  ASSUME UNCHANGED given, NEW i
  PROVE  Event(i)' = Event(i)
  BY DEF Event

\* The steps that touch no tree and no filter.
Elsewhere == UNCHANGED <<trees, filter>>

LEMMA StepsOnTrees ==
  ASSUME Next
  PROVE  Elsewhere \/ ListUpDown \/ ToggleIdle \/ ToggleSkipRunning \/ TreeRight \/ TreeLeft
  BY DEF Next, Resize, ScrollbackLoaded, Wheel, PreviewUpDown, PreviewLeftRight, Quit, CloseUpDown,
     CloseEnter, Choose, Tab, Enter, TreeUpDown, Elsewhere, data

\* A tree is added, no other touched.
LEMMA ListAdds ==
  ASSUME TreesInv, ListUpDown
  PROVE  /\ filter' = filter /\ trees' = [i \in DOMAIN trees' |-> trees'[i]]
         /\ \A i \in DOMAIN trees : i \in DOMAIN trees' /\ trees'[i] = trees[i]
         /\ \A i \in DOMAIN trees' \ DOMAIN trees :
              /\ Event(i).ok
              /\ trees'[i] = FilterDecorate(Event(i).man, filter, BuildTree(Event(i).man))
<1> DEFINE id == CurrentEventID'
           known == id = 0 \/ given.mode = "close" \/ id \in bad \cup DOMAIN trees
           tree == FilterDecorate(Event(id).man, filter, BuildTree(Event(id).man))
<1>1. filter' = filter /\ (trees' = trees \/ EnsureManifest)
  BY DEF ListUpDown
<1>2. CASE trees' = trees
  BY <1>1, <1>2 DEF TreesInv
<1>3. CASE EnsureManifest
  <2>1. trees' = IF known \/ ~Event(id).ok THEN trees
                 ELSE [i \in DOMAIN trees \cup {id} |-> IF i = id THEN tree ELSE trees[i]]
    BY <1>3 DEF EnsureManifest
  <2>2. CASE known \/ ~Event(id).ok
    BY <1>1, <2>1, <2>2 DEF TreesInv
  <2>3. CASE ~(known \/ ~Event(id).ok)
    <3>1. id \notin DOMAIN trees /\ Event(id).ok
      BY <2>3
    <3>2. trees' = [i \in DOMAIN trees \cup {id} |-> IF i = id THEN tree ELSE trees[i]]
      BY <2>1, <2>3
    <3> HIDE DEF id, known
    <3>3. DOMAIN trees' = DOMAIN trees \cup {id}
      BY <3>2
    <3>4. \A i \in DOMAIN trees : trees'[i] = trees[i]
      BY <3>1, <3>2
    <3>5. trees'[id] = tree
      BY <3>2
    <3>6. trees' = [i \in DOMAIN trees' |-> trees'[i]]
      BY <3>2, <3>3
    <3>7. QED
      BY <1>1, <3>1, <3>3, <3>4, <3>5, <3>6
  <2>4. QED
    BY <2>2, <2>3
<1>4. QED
  BY <1>1, <1>2, <1>3

\* Right and Left change which nodes of one tree are unfolded, and Right
\* unfolds.
LEMMA TreeKeysExpand ==
  ASSUME TreesInv, TreeRight \/ TreeLeft
  PROVE  /\ filter' = filter
         /\ \/ trees' = trees
            \/ \E X : /\ trees' = [trees EXCEPT ![CurrentEventID].expanded = X]
                      /\ TreeRight => trees[CurrentEventID].expanded \subseteq X
<1>1. CASE TreeRight
  <2>1. filter' = filter /\ (trees' = trees \/ \E n : Unfold(n))
    BY <1>1 DEF TreeRight
  <2>2. ASSUME NEW n, Unfold(n)
        PROVE  \E X : /\ trees' = [trees EXCEPT ![CurrentEventID].expanded = X]
                      /\ trees[CurrentEventID].expanded \subseteq X
    <3> DEFINE X == trees[CurrentEventID].expanded \cup {n}
    <3>1. trees' = [trees EXCEPT ![CurrentEventID].expanded = X]
      BY <2>2 DEF Unfold
    <3>2. trees[CurrentEventID].expanded \subseteq X
      OBVIOUS
    <3> HIDE DEF X
    <3>3. QED
      BY <3>1, <3>2
  <2>3. QED
    BY <2>1, <2>2
<1>2. CASE TreeLeft /\ ~TreeRight
  <2>1. filter' = filter /\ (trees' = trees \/ \E n : Fold(n))
    BY <1>2 DEF TreeLeft
  <2>2. ASSUME NEW n, Fold(n)
        PROVE  \E X : trees' = [trees EXCEPT ![CurrentEventID].expanded = X]
    <3> DEFINE X == trees[CurrentEventID].expanded \ {n}
    <3>1. trees' = [trees EXCEPT ![CurrentEventID].expanded = X]
      BY <2>2 DEF Fold
    <3> HIDE DEF X
    <3>2. QED
      BY <3>1
  <2>3. QED
    BY <1>2, <2>1, <2>2
<1>3. QED
  BY <1>1, <1>2

LEMMA TreesStep ==
  ASSUME FilterInv, TreesInv, [Next]_vars
  PROVE  /\ FilterInv' /\ TreesInv'
         /\ \/ TreeLeft \/ ToggleSkipRunning
            \/ \A i \in DOMAIN trees : trees[i].expanded \subseteq trees'[i].expanded
<1> DEFINE Grows == \A i \in DOMAIN trees : trees[i].expanded \subseteq trees'[i].expanded
           Decorated(t) == \A i \in DOMAIN t : Event(i).ok /\ IsTree(t[i], Event(i).man, filter')
<1>1. \A i : Event(i)' = Event(i)
  BY GivenStays, EventStays
<1>2. /\ trees = [i \in DOMAIN trees |-> trees[i]]
      /\ \A i \in DOMAIN trees : Event(i).ok /\ IsTree(trees[i], Event(i).man, filter)
  BY DEF TreesInv
<1>3. SUFFICES /\ FilterInv' /\ trees' = [i \in DOMAIN trees' |-> trees'[i]]
               /\ \A i \in DOMAIN trees' : Event(i).ok /\ IsTree(trees'[i], Event(i).man, filter')
               /\ TreeLeft \/ ToggleSkipRunning \/ Grows
  BY <1>1 DEF TreesInv, IsTree, Mark
<1>4. CASE Elsewhere
  BY <1>2, <1>4 DEF Elsewhere, FilterInv
<1>5. CASE ListUpDown
  <2>1. /\ filter' = filter /\ trees' = [i \in DOMAIN trees' |-> trees'[i]]
        /\ \A i \in DOMAIN trees : i \in DOMAIN trees' /\ trees'[i] = trees[i]
        /\ \A i \in DOMAIN trees' \ DOMAIN trees :
              /\ Event(i).ok
              /\ trees'[i] = FilterDecorate(Event(i).man, filter, BuildTree(Event(i).man))
    BY <1>5, ListAdds
  <2>2. \A i \in DOMAIN trees' : Event(i).ok /\ IsTree(trees'[i], Event(i).man, filter')
    BY <1>2, <2>1, BuiltIsTree
  <2>3. Grows
    BY <2>1
  <2>4. QED
    BY <2>1, <2>2, <2>3 DEF FilterInv
<1>6. ASSUME NEW f, Redecorate(f)
      PROVE  /\ filter' = f /\ trees' = [i \in DOMAIN trees' |-> trees'[i]] /\ DOMAIN trees' = DOMAIN trees
             /\ \A i \in DOMAIN trees' : Event(i).ok /\ IsTree(trees'[i], Event(i).man, filter')
             /\ \A i \in DOMAIN trees : trees'[i] = FilterDecorate(Event(i).man, f, trees[i])
  <2>1. filter' = f /\ trees' = [i \in DOMAIN trees |-> FilterDecorate(Event(i).man, f, trees[i])]
    BY <1>6 DEF Redecorate
  <2>2. ASSUME NEW i \in DOMAIN trees
        PROVE  IsTree(FilterDecorate(Event(i).man, f, trees[i]), Event(i).man, f)
    <3> DEFINE m == Event(i).man
               E == trees[i].expanded
               M == [n \in ToSet(NodesOf(m)) |-> Mark(m, filter, n)]
               t == trees[i]
    <3>1. t = [nodes |-> NodesOf(m), expanded |-> E, mark |-> M]
      BY <1>2 DEF IsTree
    <3> HIDE DEF m, E, M, t
    <3>2. IsTree(FilterDecorate(m, f, t), m, f)
      BY <3>1, DecoratedIsTree
    <3>3. QED
      BY <3>2 DEF m, t
  <2>3. QED
    BY <1>2, <2>1, <2>2
<1>7. CASE ToggleIdle
  <2> DEFINE f == [filter EXCEPT !.idleShells = ~@]
  <2>1. Redecorate(f)
    BY <1>7 DEF ToggleIdle
  <2>2. /\ f \in [age : {0}, idleShells : BOOLEAN, idleWindows : {FALSE}, skipRunning : BOOLEAN]
        /\ f.skipRunning = filter.skipRunning /\ f.age = filter.age
    BY DEF FilterInv
  <2> HIDE DEF f
  <2>3. ASSUME NEW i \in DOMAIN trees PROVE trees'[i].expanded = trees[i].expanded
    <3> DEFINE m == Event(i).man
               t == trees[i]
    <3>1. IsTree(t, m, filter)
      BY <1>2
    <3>2. trees'[i] = FilterDecorate(m, f, t)
      BY <1>6, <2>1
    <3> HIDE DEF m, t
    <3>3. FilterDecorate(m, f, t).expanded = t.expanded
      BY <2>2, <3>1, DecorateKeeps
    <3>4. QED
      BY <3>2, <3>3 DEF t
  <2>4. QED
    BY <1>6, <2>1, <2>2, <2>3 DEF FilterInv
<1>8. CASE ToggleSkipRunning
  <2> DEFINE f == [filter EXCEPT !.skipRunning = ~@]
  <2>1. Redecorate(f)
    BY <1>8 DEF ToggleSkipRunning
  <2>2. f \in [age : {0}, idleShells : BOOLEAN, idleWindows : {FALSE}, skipRunning : BOOLEAN]
    BY DEF FilterInv
  <2> HIDE DEF f
  <2>3. QED
    BY <1>6, <1>8, <2>1, <2>2 DEF FilterInv
<1>9. CASE TreeRight \/ TreeLeft
  <2>1. filter' = filter
    BY <1>9, TreeKeysExpand
  <2>2. CASE trees' = trees
    BY <1>2, <2>1, <2>2 DEF FilterInv
  <2>3. CASE \E X : /\ trees' = [trees EXCEPT ![CurrentEventID].expanded = X]
                    /\ TreeRight => trees[CurrentEventID].expanded \subseteq X
    <3> DEFINE id == CurrentEventID
    <3>1. PICK X : /\ trees' = [trees EXCEPT ![id].expanded = X]
                   /\ TreeRight => trees[id].expanded \subseteq X
      BY <2>3
    <3> HIDE DEF id
    <3>2. trees' = [i \in DOMAIN trees |-> IF i = id THEN [trees[id] EXCEPT !.expanded = X] ELSE trees[i]]
      BY <1>2, <3>1
    <3>3. ASSUME NEW i \in DOMAIN trees
          PROVE  /\ Event(i).ok /\ IsTree(trees'[i], Event(i).man, filter')
                 /\ TreeRight => trees[i].expanded \subseteq trees'[i].expanded
      <4>1. CASE i = id
        <5> DEFINE m == Event(i).man
                   t == trees[i]
        <5>1. IsTree(t, m, filter)
          BY <1>2
        <5>2. trees'[i] = [t EXCEPT !.expanded = X]
          BY <3>2, <4>1
        <5> HIDE DEF m, t
        <5>3. IsTree([t EXCEPT !.expanded = X], m, filter) /\ [t EXCEPT !.expanded = X].expanded = X
          BY <5>1, ExpandedIsTree
        <5>4. IsTree(trees'[i], m, filter') /\ trees'[i].expanded = X
          BY <2>1, <5>2, <5>3
        <5>5. QED
          BY <1>2, <3>1, <4>1, <5>4 DEF m
      <4>2. CASE i # id
        BY <1>2, <2>1, <3>2, <4>2
      <4>3. QED
        BY <4>1, <4>2
    <3>4. DOMAIN trees' = DOMAIN trees /\ trees' = [i \in DOMAIN trees' |-> trees'[i]]
      BY <3>2
    <3>5. FilterInv'
      BY <2>1 DEF FilterInv
    <3>6. TreeLeft \/ Grows
      BY <1>9, <3>3
    <3>7. \A i \in DOMAIN trees' : Event(i).ok /\ IsTree(trees'[i], Event(i).man, filter')
      BY <3>3, <3>4
    <3>8. QED
      BY <3>4, <3>5, <3>6, <3>7
  <2>4. QED
    BY <1>9, <2>2, <2>3, TreeKeysExpand
<1>10. CASE UNCHANGED vars
  BY <1>2, <1>10 DEF vars, data, FilterInv
<1>11. QED
  BY <1>4, <1>5, <1>7, <1>8, <1>9, <1>10, StepsOnTrees

LEMMA TreesInvariant == Spec => [](GivenInv /\ FilterInv /\ TreesInv)
<1>1. Init => GivenInv /\ FilterInv /\ TreesInv
  BY TreesInit
<1>2. GivenInv /\ FilterInv /\ TreesInv /\ [Next]_vars => (GivenInv /\ FilterInv /\ TreesInv)'
  <2> SUFFICES ASSUME GivenInv, FilterInv, TreesInv, [Next]_vars PROVE (GivenInv /\ FilterInv /\ TreesInv)'
    OBVIOUS
  <2>1. GivenInv'
    BY GivenStays DEF GivenInv
  <2>2. QED
    BY <2>1, TreesStep
<1>3. QED
  BY <1>1, <1>2, PTL DEF Spec

\* Only Left and the running toggle fold a node: what was unfolded by hand
\* survives every other decorate pass, of every tree that was parsed
\* (FilterDecorate of tree.go, "a manual re-expand survives later decorate
\* passes").
THEOREM ExpandSurvives == Spec => ManualExpandSurvives
<1>1. /\ FilterInv /\ TreesInv /\ [Next]_vars
      => [(\E i \in DOMAIN trees : ~(trees[i].expanded \subseteq trees'[i].expanded))
            => TreeLeft \/ ToggleSkipRunning]_vars
  BY TreesStep
<1>2. QED
  BY <1>1, TreesInvariant, PTL DEF Spec, ManualExpandSurvives

-----------------------------------------------------------------------------
(* The closes *)

\* A nonempty set of positions has a least and a largest.
LEMMA MinMaxIn ==
  ASSUME NEW n \in Nat, NEW S \in SUBSET (1 .. n), S # {}
  PROVE  Min(S) \in S /\ Max(S) \in S
<1>1. IsFiniteSet(1 .. n) /\ S \in SUBSET Nat
  BY FS_Interval
<1>2. IsFiniteSet(S)
  BY <1>1, FS_Subset
<1>3. QED
  BY <1>1, <1>2, MinMax

\* The rows are those of BuildCloseList, and the closes those it lists.
LEMMA RowsAreGood ==
  ASSUME NEW in \in Inputs, given = Opened(in)
  PROVE  /\ GoodList(given.rows, Recoverable(in.closes))
         /\ GoodHeaders(given.rows, given.current, {"this", "other"})
         /\ given.mode = in.mode /\ in.mode \in {"snapshot", "close"}
         /\ \A c, d \in Recoverable(in.closes) : c.id = d.id => c = d
         /\ IsFiniteSet(Recoverable(in.closes))
         /\ given.closes = {[id |-> c.id, ts |-> c.ts, key |-> CollapseKey(c), panes |-> ClosePreviewPanes(c)] :
                              c \in Recoverable(in.closes)}
<1> DEFINE closes == in.closes
<1>1. given.rows = BuildCloseList(closes, in.current) /\ given.mode = in.mode /\ given.current = in.current
  BY DEF Opened
<1>2. /\ closes \in Seq(ToSet(closes)) /\ DOMAIN closes = 1 .. Len(closes)
      /\ \A i, j \in DOMAIN closes : closes[i].id = closes[j].id => i = j
      /\ \A i \in DOMAIN closes : closes[i].ts \in Int
      /\ in.mode \in {"snapshot", "close"}
  BY InputsAssumption DEF IsSequence
<1>3. Distinct(closes)
  BY <1>2 DEF Distinct, IsSeq, ToSet
<1>4. \A c, d \in ToSet(closes) : c.id = d.id => c = d
  BY <1>2 DEF ToSet
<1>5. IsFiniteSet(ToSet(closes))
  <2> DEFINE D == DOMAIN closes
             f == [i \in D |-> closes[i]]
  <2>1. IsFiniteSet(D)
    BY <1>2, FS_Interval
  <2>2. f \in Surjection(D, ToSet(closes))
    BY DEF Surjection, ToSet
  <2> HIDE DEF D, f
  <2>3. QED
    BY <2>1, <2>2, FS_Surjection
<1>6. Recoverable(closes) \in SUBSET ToSet(closes)
  BY DEF Recoverable
<1> HIDE DEF closes
<1>7. /\ GoodList(BuildCloseList(closes, in.current), Recoverable(closes))
      /\ GoodHeaders(BuildCloseList(closes, in.current), in.current, {"this", "other"})
  BY <1>3, BuildCloseListIsRight
<1>8. IsFiniteSet(Recoverable(closes))
  BY <1>5, <1>6, FS_Subset
<1>9. QED
  BY <1>1, <1>2, <1>4, <1>6, <1>7, <1>8 DEF closes, Opened

\* A group by the closes and by what is kept of them.
LEMMA GroupOfRow ==
  ASSUME NEW in \in Inputs, given = Opened(in), NEW row, ShowsItsGroup(row, Recoverable(in.closes))
  PROVE  /\ row.count = Cardinality({c \in given.closes : c.key = row.key})
         /\ \E c \in given.closes : c.key = row.key /\ c.id = row.id /\ c.ts = row.ts
         /\ \A c \in given.closes : c.key = row.key => c.ts <= row.ts
<1> DEFINE L == Recoverable(in.closes)
           kept(c) == [id |-> c.id, ts |-> c.ts, key |-> CollapseKey(c), panes |-> ClosePreviewPanes(c)]
           G == {c \in L : CollapseKey(c) = row.key}
           H == {c \in given.closes : c.key = row.key}
<1>1. /\ given.closes = {kept(c) : c \in L} /\ IsFiniteSet(L)
      /\ \A c, d \in L : c.id = d.id => c = d
  BY RowsAreGood
<1>2. /\ row.count = Cardinality(G)
      /\ \E c \in G : c.id = row.id /\ c.ts = row.ts
      /\ \A c \in G : c.ts <= row.ts
  BY DEF ShowsItsGroup
<1> HIDE DEF L
<1>3. \A c \in L : kept(c).id = c.id /\ kept(c).ts = c.ts /\ kept(c).key = CollapseKey(c)
  OBVIOUS
<1> HIDE DEF kept
<1>4. H = {kept(c) : c \in G}
  BY <1>1, <1>3
<1>5. Cardinality(H) = Cardinality(G)
  <2> DEFINE f == [c \in G |-> kept(c)]
  <2>1. \A c, d \in G : f[c] = f[d] => c = d
    BY <1>1, <1>3
  <2>2. f \in Surjection(G, H)
    BY <1>4 DEF Surjection
  <2>3. f \in Injection(G, H)
    <3>1. f \in [G -> H]
      BY <1>4
    <3> HIDE DEF f, G, H
    <3>2. QED
      BY <2>1, <3>1 DEF Injection, IsInjective
  <2>4. G \in SUBSET L
    OBVIOUS
  <2> HIDE DEF f, G, H
  <2>5. IsFiniteSet(G)
    BY <1>1, <2>4, FS_Subset
  <2>6. QED
    BY <2>2, <2>3, <2>5, FS_Surjection
<1>6. \E c \in H : c.id = row.id /\ c.ts = row.ts
  BY <1>2, <1>3, <1>4
<1>7. \A c \in H : c.ts <= row.ts
  BY <1>2, <1>3, <1>4
<1>8. QED
  BY <1>2, <1>5, <1>6, <1>7

\* The rows with closes, in the picker's words.
LEMMA SelectablesAre ==
  ASSUME GivenInv
  PROVE  /\ Len(given.rows) \in Nat /\ DOMAIN given.rows = 1 .. Len(given.rows)
         /\ Selectables = CloseRows(given.rows)
<1>1. PICK in \in Inputs : given = Opened(in)
  BY DEF GivenInv
<1>2. IsSeq(given.rows)
  BY <1>1, RowsAreGood DEF GoodList
<1>3. QED
  BY <1>2, IsSeqDomain DEF Selectables, CloseRows

LEMMA ListIsRight ==
  ASSUME GivenInv
  PROVE  CloseListIsRight
<1> DEFINE rows == given.rows
           heads == Headers(rows)
           group(r) == {c \in given.closes : c.key = r.key}
           P == CloseRows(rows)
<1>1. PICK in \in Inputs : given = Opened(in)
  BY DEF GivenInv
<1> DEFINE L == Recoverable(in.closes)
<1>2. Len(rows) \in Nat /\ DOMAIN rows = 1 .. Len(rows) /\ Selectables = P
  BY SelectablesAre
<1>3. P \subseteq DOMAIN rows /\ heads = (1 .. Len(rows)) \ P
  BY <1>2 DEF CloseRows, Headers
<1>4. /\ given.closes = {[id |-> c.id, ts |-> c.ts, key |-> CollapseKey(c), panes |-> ClosePreviewPanes(c)] : c \in L}
      /\ \A c \in L : \E i \in P : rows[i].key = CollapseKey(c)
      /\ \A i, j \in P : rows[i].key = rows[j].key => i = j
      /\ \A i \in P : ShowsItsGroup(rows[i], L) /\ i # 1 /\ (i - 1 \in P => rows[i - 1].ts >= rows[i].ts)
      /\ \A i \in (1 .. Len(rows)) \ P : i + 1 \in P
  BY <1>1, RowsAreGood DEF GoodList
<1>5. \A c \in given.closes : \E i \in P : c.key = rows[i].key
  BY <1>4
<1>6. ASSUME NEW i \in P
      PROVE  /\ rows[i].count = Cardinality(group(rows[i]))
             /\ \E c \in group(rows[i]) : c.id = rows[i].id /\ c.ts = rows[i].ts
             /\ \A c \in group(rows[i]) : c.ts <= rows[i].ts
             /\ i - 1 \in P => rows[i - 1].ts >= rows[i].ts
             /\ i - 1 \in DOMAIN rows
  <2> DEFINE row == rows[i]
  <2>1. ShowsItsGroup(row, L)
    BY <1>4
  <2>2. /\ row.count = Cardinality({c \in given.closes : c.key = row.key})
        /\ \E c \in given.closes : c.key = row.key /\ c.id = row.id /\ c.ts = row.ts
        /\ \A c \in given.closes : c.key = row.key => c.ts <= row.ts
    <3> HIDE DEF row
    <3>1. QED
      BY <1>1, <2>1, GroupOfRow
  <2>3. i - 1 \in DOMAIN rows
    BY <1>2, <1>3, <1>4
  <2>4. QED
    BY <1>4, <2>2, <2>3
<1>7. heads # {} => 1 \in heads
  BY <1>2, <1>3, <1>4
<1>8. /\ \A h, k \in heads : h < k => rows[h].section = "this" /\ rows[k].section = "other"
      /\ \A h \in heads, i \in P : Under(rows, h, i) =>
           rows[h].section = IF OfSession(rows[i], given.current) THEN "this" ELSE "other"
  BY <1>1, RowsAreGood DEF GoodHeaders
<1> HIDE DEF P, L
<1>9. QED
  BY <1>2, <1>3, <1>4, <1>5, <1>6, <1>7, <1>8 DEF CloseListIsRight

\* The close list is right, of whatever closes and whatever is pressed: every
\* recoverable close in one group, which shows its newest and their number,
\* newest group first, under the header of its section (BuildCloseList of
\* closelist.go).
THEOREM ListStaysRight == Spec => []CloseListIsRight
<1>1. GivenInv => CloseListIsRight
  BY ListIsRight
<1>2. QED
  BY <1>1, TreesInvariant, PTL

\* What a step over the rows finds is among its targets.
LEMMA NextIdxIn ==
  ASSUME NEW n \in Nat, NEW targets \in SUBSET (1 .. n), NEW start, NEW dir, NEW last,
         NextIdx(start, dir, last, targets) # 0
  PROVE  NextIdx(start, dir, last, targets) \in targets
<1> DEFINE ahead == {i \in targets : (i - start) * dir > 0}
<1>1. ahead \in SUBSET (1 .. n) /\ ahead \subseteq targets
  OBVIOUS
<1>2. /\ ahead # {}
      /\ NextIdx(start, dir, last, targets) = Min(ahead) \/ NextIdx(start, dir, last, targets) = Max(ahead)
  BY DEF NextIdx
<1> HIDE DEF ahead
<1>3. Min(ahead) \in ahead /\ Max(ahead) \in ahead
  BY <1>1, <1>2, MinMaxIn
<1>4. QED
  BY <1>1, <1>2, <1>3

LEMMA CursorInit ==
  ASSUME Init
  PROVE  CursorOnClose
<1> SUFFICES ASSUME given.mode = "close", Selectables # {} PROVE cursor \in Selectables
  BY DEF CursorOnClose
<1> DEFINE n == Len(given.rows)
<1>1. n \in Nat /\ DOMAIN given.rows = 1 .. n
  BY TreesInit, SelectablesAre
<1>2. Selectables = {i \in 1 .. n : Selectable(given.rows[i])}
  BY <1>1 DEF Selectables
<1>3. SelectInSeq(given.rows, Selectable) = Min(Selectables)
  BY <1>2 DEF SelectInSeq
<1>4. Selectables \in SUBSET (1 .. n)
  BY <1>2
<1>5. Min(Selectables) \in Selectables
  BY <1>1, <1>4, MinMaxIn
<1>6. cursor = Larger(1, SelectInSeq(given.rows, Selectable))
  BY DEF Init, Opened
<1>7. cursor = Min(Selectables)
  <2> DEFINE x == Min(Selectables)
  <2>1. x \in 1 .. n
    BY <1>4, <1>5
  <2>2. cursor = Larger(1, x)
    BY <1>3, <1>6
  <2> HIDE DEF x, n
  <2>3. x >= 1 /\ x \in Int
    BY <1>1, <2>1 DEF n
  <2>4. cursor = x
    BY <2>2, <2>3 DEF Larger
  <2>5. QED
    BY <2>4 DEF x
<1>8. QED
  BY <1>5, <1>7

LEMMA CursorStep ==
  ASSUME GivenInv, CursorOnClose, [Next]_vars
  PROVE  CursorOnClose'
<1>1. UNCHANGED given
  BY GivenStays
<1>2. Selectables' = Selectables
  BY <1>1 DEF Selectables
<1> SUFFICES ASSUME given.mode = "close", Selectables # {} PROVE cursor' \in Selectables
  BY <1>1, <1>2 DEF CursorOnClose
<1>3. cursor \in Selectables
  BY DEF CursorOnClose
<1>4. CASE UNCHANGED cursor
  BY <1>3, <1>4
<1>5. CASE CloseUpDown
  <2>1. PICK dir \in {-1, 1} : IF NextCloseRowIdx(dir) = 0 THEN cursor' = cursor ELSE cursor' = NextCloseRowIdx(dir)
    BY <1>5 DEF CloseUpDown
  <2>2. Len(given.rows) \in Nat /\ Selectables \in SUBSET (1 .. Len(given.rows))
    BY SelectablesAre DEF CloseRows
  <2>3. NextCloseRowIdx(dir) # 0 => NextCloseRowIdx(dir) \in Selectables
    BY <2>2, NextIdxIn DEF NextCloseRowIdx
  <2>4. QED
    BY <1>3, <2>1, <2>3
<1>6. UNCHANGED cursor \/ CloseUpDown
  BY DEF Next, vars, view, InMode, InTree, Resize, ScrollbackLoaded, Wheel, PreviewUpDown, PreviewLeftRight, Quit,
     CloseEnter, Choose, ListUpDown, Tab, ToggleIdle, ToggleSkipRunning, Enter, TreeUpDown, TreeRight, TreeLeft
<1>7. QED
  BY <1>4, <1>5, <1>6

\* The cursor of the close list is on a close whenever there is one, whatever
\* keys are pressed (nextCloseRowIdx of model.go; headers are "structural only").
THEOREM CursorStaysOnClose == Spec => []CursorOnClose
<1>1. Init => CursorOnClose
  BY CursorInit
<1>2. GivenInv /\ CursorOnClose /\ [Next]_vars => CursorOnClose'
  BY CursorStep
<1>3. QED
  BY <1>1, <1>2, TreesInvariant, PTL DEF Spec

LEMMA ChoiceStep ==
  ASSUME GivenInv, TreesInv, ChoiceIsRestorable, [Next]_vars
  PROVE  ChoiceIsRestorable'
<1>1. UNCHANGED given
  BY GivenStays
<1>2. \A i : Event(i)' = Event(i)
  BY <1>1, EventStays
<1> DEFINE Restorable(id) ==
      IF given.mode = "snapshot" THEN Event(id).ok
      ELSE \E c \in given.closes : c.id = id /\ \A d \in given.closes : d.key = c.key => d.ts <= c.ts
<1>3. SUFFICES ASSUME selected' # 0 PROVE Restorable(selected')
  BY <1>1, <1>2 DEF ChoiceIsRestorable
<1>4. CASE UNCHANGED selected
  BY <1>3, <1>4 DEF ChoiceIsRestorable
<1>5. CASE Enter
  <2>1. given.mode = "snapshot" /\ CurrentEventID \in DOMAIN trees /\ selected' = CurrentEventID
    BY <1>5 DEF Enter, InMode, Built, Choose
  <2>2. QED
    BY <2>1 DEF TreesInv
<1>6. CASE CloseEnter
  <2> DEFINE row == given.rows[cursor]
  <2>1. given.mode = "close" /\ cursor \in DOMAIN given.rows /\ selected' = row.id
    BY <1>6 DEF CloseEnter, InMode, Choose, CurrentEventID
  <2>2. PICK in \in Inputs : given = Opened(in)
    BY DEF GivenInv
  <2> DEFINE L == Recoverable(in.closes)
  <2>3. CASE Selectable(row)
    <3>1. ShowsItsGroup(row, L)
      <4>1. cursor \in CloseRows(given.rows)
        BY <2>1, <2>3, SelectablesAre DEF CloseRows
      <4>2. QED
        BY <2>2, <4>1, RowsAreGood DEF GoodList
    <3> HIDE DEF row
    <3>2. /\ \E c \in given.closes : c.key = row.key /\ c.id = row.id /\ c.ts = row.ts
          /\ \A c \in given.closes : c.key = row.key => c.ts <= row.ts
      BY <2>2, <3>1, GroupOfRow
    <3>3. \E c \in given.closes : c.id = row.id /\ \A d \in given.closes : d.key = c.key => d.ts <= c.ts
      BY <3>2
    <3>4. QED
      BY <2>1, <3>3
  <2>4. CASE ~Selectable(row)
    <3>1. cursor \in (1 .. Len(given.rows)) \ CloseRows(given.rows)
      BY <2>1, <2>4, SelectablesAre DEF CloseRows
    <3>2. row.id = 0
      BY <2>2, <3>1, RowsAreGood DEF GoodList
    <3>3. QED
      BY <1>3, <2>1, <3>2
  <2>5. QED
    BY <2>3, <2>4
<1>7. UNCHANGED selected \/ Enter \/ CloseEnter
  BY DEF Next, vars, Resize, ScrollbackLoaded, Wheel, PreviewUpDown, PreviewLeftRight, Quit, CloseUpDown,
     ListUpDown, Tab, ToggleIdle, ToggleSkipRunning, TreeUpDown, TreeRight, TreeLeft
<1>8. QED
  BY <1>4, <1>5, <1>6, <1>7

\* What Enter chooses can be restored: a snapshot that parsed, or the newest
\* recoverable close of the row's group (Enter and updateClose of model.go).
THEOREM ChoiceStaysRestorable == Spec => []ChoiceIsRestorable
<1>1. Init => ChoiceIsRestorable
  BY DEF Init, ChoiceIsRestorable
<1>2. GivenInv /\ TreesInv /\ ChoiceIsRestorable /\ [Next]_vars => ChoiceIsRestorable'
  BY ChoiceStep
<1>3. QED
  BY <1>1, <1>2, TreesInvariant, PTL DEF Spec
=============================================================================
