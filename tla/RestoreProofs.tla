----------------------------- MODULE RestoreProofs -----------------------------
(***************************************************************************)
(* Theorems about Restore, for every value of its constants: the types,    *)
(* that `restore --auto` restores the past of its server, that no restore  *)
(* touches a window that was there before it, and that one nobody works    *)
(* into brings back all that its filter keeps.                             *)
(***************************************************************************)
EXTENDS Restore, SequenceProofs

\* A plan: every action names a place, and one that is not the creation of a
\* window comes after the creation of the window at its place.
GoodPlan(plan) ==
  /\ IsSeq(plan)
  /\ \A i \in 1 .. Len(plan) :
       /\ plan[i].at = <<plan[i].at[1], plan[i].at[2]>>
       /\ plan[i].at[1] \in Name /\ plan[i].at[2] \in Int
       /\ plan[i].op = "layout" => plan[i].layout[2] \in Int
       /\ plan[i].op = "window" \/ \E j \in 1 .. i - 1 : plan[j].op = "window" /\ plan[j].at = plan[i].at

GoodWindow(w) == w.index \in Int /\ IsSeq(w.panes) /\ w.layout[2] \in Int

GoodSession(s) ==
  s.name \in Name /\ IsSeq(s.windows) /\ \A j \in 1 .. Len(s.windows) : GoodWindow(s.windows[j])

GoodManifest(m) == IsSeq(m) /\ \A i \in 1 .. Len(m) : GoodSession(m[i])

-----------------------------------------------------------------------------
(* Every plan of a good manifest is a good plan. *)

\* Two plans in a row.
LEMMA GoodPlanAppend ==
  ASSUME NEW p, NEW q, GoodPlan(p), GoodPlan(q)
  PROVE  GoodPlan(p \o q)
<1> DEFINE A == {p[i] : i \in DOMAIN p} \cup {q[i] : i \in DOMAIN q}
           r == p \o q
<1>1. p \in Seq(A) /\ q \in Seq(A)
  BY DEF GoodPlan, IsSeq
<1> HIDE DEF A
<1>2. r \in Seq(A) /\ Len(r) = Len(p) + Len(q) /\ Len(p) \in Nat /\ Len(q) \in Nat
  BY <1>1
<1>3. \A i \in 1 .. Len(p) : r[i] = p[i]
  BY <1>1
<1>4. \A i \in 1 .. Len(q) : r[Len(p) + i] = q[i]
  BY <1>1
<1> HIDE DEF r
<1>5. ASSUME NEW i \in 1 .. Len(r)
      PROVE  /\ r[i].at = <<r[i].at[1], r[i].at[2]>>
             /\ r[i].at[1] \in Name /\ r[i].at[2] \in Int
             /\ r[i].op = "layout" => r[i].layout[2] \in Int
             /\ r[i].op = "window" \/ \E j \in 1 .. i - 1 : r[j].op = "window" /\ r[j].at = r[i].at
  <2>1. CASE i \in 1 .. Len(p)
    <3>1. r[i] = p[i] /\ \A j \in 1 .. i - 1 : j \in 1 .. Len(p) /\ r[j] = p[j]
      BY <1>2, <1>3, <2>1
    <3>2. QED
      BY <2>1, <3>1 DEF GoodPlan
  <2>2. CASE i \notin 1 .. Len(p)
    <3> DEFINE k == i - Len(p)
    <3>1. k \in 1 .. Len(q) /\ i = Len(p) + k
      BY <1>2, <2>2
    <3>2. r[i] = q[k]
      BY <1>4, <3>1
    <3>3. q[k].op = "window" \/ \E j \in 1 .. k - 1 : q[j].op = "window" /\ q[j].at = q[k].at
      BY <3>1 DEF GoodPlan
    <3>4. ASSUME NEW j \in 1 .. k - 1, q[j].op = "window" /\ q[j].at = q[k].at
          PROVE  \E n \in 1 .. i - 1 : r[n].op = "window" /\ r[n].at = r[i].at
      <4>1. j \in 1 .. Len(q) /\ Len(p) + j \in 1 .. i - 1
        BY <1>2, <3>1
      <4>2. r[Len(p) + j] = q[j]
        BY <1>4, <4>1
      <4>3. QED
        BY <3>2, <3>4, <4>1, <4>2
    <3>5. QED
      BY <3>1, <3>2, <3>3, <3>4 DEF GoodPlan
  <2>3. QED
    BY <2>1, <2>2
<1>6. QED
  BY <1>2, <1>5, IsSeqOfAnything DEF GoodPlan, r

\* Many plans in a row.
LEMMA GoodPlanFlatten ==
  ASSUME NEW plans, IsSeq(plans), \A i \in 1 .. Len(plans) : GoodPlan(plans[i])
  PROVE  GoodPlan(FlattenSeq(plans))
<1> DEFINE A == UNION {{plans[i][j] : j \in DOMAIN plans[i]} : i \in 1 .. Len(plans)}
           P == {s \in Seq(A) : GoodPlan(s)}
<1>1. \A i \in 1 .. Len(plans) : plans[i] \in Seq(A)
  <2> TAKE i \in 1 .. Len(plans)
  <2>1. plans[i] \in Seq({plans[i][j] : j \in DOMAIN plans[i]})
    BY DEF GoodPlan, IsSeq
  <2>2. {plans[i][j] : j \in DOMAIN plans[i]} \subseteq A
    OBVIOUS
  <2> HIDE DEF A
  <2>3. QED
    BY <2>1, <2>2
<1> HIDE DEF A
<1>2. plans \in Seq(Seq(A))
  BY <1>1, IsSeqDomain DEF IsSeq
<1>3. \A i \in 1 .. Len(plans) : plans[i] \in P
  BY <1>1
<1>4. <<>> \in P
  BY DEF GoodPlan, IsSeq
<1>5. \A s, t \in P : s \o t \in P
  BY GoodPlanAppend
<1>6. P \in SUBSET Seq(A)
  OBVIOUS
<1> HIDE DEF P
<1>7. FlattenSeq(plans) \in P
  BY <1>2, <1>3, <1>4, <1>5, <1>6, FlattenSeqClosed
<1>8. QED
  BY <1>7 DEF P

\* What comes after the creation of its window.
LEMMA GoodPlanFollow ==
  ASSUME NEW p, NEW q, GoodPlan(p), Len(p) # 0, p[1].op = "window", IsSeq(q),
         \A i \in 1 .. Len(q) : q[i].at = p[1].at /\ (q[i].op = "layout" => q[i].layout[2] \in Int)
  PROVE  GoodPlan(p \o q) /\ Len(p \o q) # 0 /\ (p \o q)[1] = p[1]
<1> DEFINE A == {p[i] : i \in DOMAIN p} \cup {q[i] : i \in DOMAIN q}
           r == p \o q
<1>1. p \in Seq(A) /\ q \in Seq(A)
  BY DEF GoodPlan, IsSeq
<1> HIDE DEF A
<1>2. /\ r \in Seq(A) /\ Len(r) = Len(p) + Len(q) /\ Len(p) \in Nat \ {0} /\ Len(q) \in Nat
      /\ \A i \in 1 .. Len(p) : r[i] = p[i]
      /\ \A i \in 1 .. Len(q) : r[Len(p) + i] = q[i]
  BY <1>1
<1> HIDE DEF r
<1>3. r[1] = p[1]
  BY <1>2
<1>4. /\ p[1].at = <<p[1].at[1], p[1].at[2]>>
      /\ p[1].at[1] \in Name /\ p[1].at[2] \in Int
  BY <1>2 DEF GoodPlan
<1>5. ASSUME NEW i \in 1 .. Len(r)
      PROVE  /\ r[i].at = <<r[i].at[1], r[i].at[2]>>
             /\ r[i].at[1] \in Name /\ r[i].at[2] \in Int
             /\ r[i].op = "layout" => r[i].layout[2] \in Int
             /\ r[i].op = "window" \/ \E j \in 1 .. i - 1 : r[j].op = "window" /\ r[j].at = r[i].at
  <2>1. CASE i \in 1 .. Len(p)
    <3>1. r[i] = p[i] /\ \A j \in 1 .. i - 1 : j \in 1 .. Len(p) /\ r[j] = p[j]
      BY <1>2, <2>1
    <3>2. QED
      BY <2>1, <3>1 DEF GoodPlan
  <2>2. CASE i \notin 1 .. Len(p)
    <3>1. i - Len(p) \in 1 .. Len(q) /\ i = Len(p) + (i - Len(p)) /\ 1 \in 1 .. i - 1
      BY <1>2, <2>2
    <3>2. r[i] = q[i - Len(p)]
      BY <1>2, <3>1
    <3>3. r[i].at = p[1].at /\ (r[i].op = "layout" => r[i].layout[2] \in Int)
      BY <3>1, <3>2
    <3>4. QED
      BY <1>3, <1>4, <3>1, <3>3
  <2>3. QED
    BY <2>1, <2>2
<1>6. IsSeq(r) /\ Len(r) # 0
  BY <1>2, IsSeqOfAnything
<1>7. GoodPlan(r)
  BY <1>5, <1>6 DEF GoodPlan
<1>8. QED
  BY <1>3, <1>6, <1>7 DEF r

LEMMA KeptPanesIsSeq ==
  ASSUME NEW f, NEW w, IsSeq(w.panes)
  PROVE  IsSeq(KeptPanes(f, w))
<1> DEFINE A == {w.panes[i] : i \in DOMAIN w.panes}
           parts == [i \in DOMAIN w.panes |-> IF SkipPane(f, w.panes[i]) THEN <<>> ELSE <<w.panes[i]>>]
<1>1. DOMAIN w.panes = 1 .. Len(w.panes) /\ Len(w.panes) \in Nat
  BY IsSeqDomain
<1>2. \A i \in DOMAIN w.panes : parts[i] \in Seq(A)
  <2> TAKE i \in DOMAIN w.panes
  <2>1. <<>> \in Seq(A) /\ <<w.panes[i]>> \in Seq(A)
    OBVIOUS
  <2> HIDE DEF A
  <2>2. QED
    BY <2>1
<1>3. KeptPanes(f, w) = FlattenSeq(parts)
  BY DEF KeptPanes
<1>4. parts = [i \in 1 .. Len(w.panes) |-> parts[i]]
  BY <1>1
<1> HIDE DEF parts, A
<1>5. FlattenSeq(parts) \in Seq(A)
  BY <1>1, <1>4, <1>2, FlattenSeqType
<1>6. QED
  BY <1>3, <1>5, IsSeqOfAnything

LEMMA WindowPlan ==
  ASSUME NEW f, NEW s, NEW w, NEW first, s.name \in Name, GoodWindow(w)
  PROVE  GoodPlan(WindowActions(f, s, w, first))
<1> DEFINE at   == <<s.name, w.index>>
           kept == KeptPanes(f, w)
           create == <<[op |-> "window", at |-> at, run |-> Startup(kept[1]), newSession |-> first]>>
           option == IF w.deco = "" THEN <<>> ELSE <<[op |-> "option", at |-> at, value |-> w.deco]>>
           split  == [i \in 1 .. Len(kept) - 1 |-> [op |-> "split", at |-> at, run |-> Startup(kept[i + 1])]]
           layout == <<[op |-> "layout", at |-> at, layout |-> w.layout]>>
<1>1. WindowActions(f, s, w, first) = ((create \o option) \o split) \o layout
  BY DEF WindowActions
<1>2. Len(kept) \in Nat
  BY KeptPanesIsSeq, IsSeqDomain DEF GoodWindow
<1>3. GoodPlan(create) /\ Len(create) # 0 /\ create[1].op = "window" /\ create[1].at = at
  <2> DEFINE a == [op |-> "window", at |-> at, run |-> Startup(kept[1]), newSession |-> first]
  <2>1. a.at = at /\ a.op = "window" /\ at = <<at[1], at[2]>> /\ at[1] \in Name /\ at[2] \in Int
    BY DEF GoodWindow
  <2> HIDE DEF a, at
  <2>2. IsSeq(<<a>>) /\ Len(<<a>>) = 1 /\ <<a>>[1] = a
    BY DEF IsSeq
  <2>3. GoodPlan(<<a>>)
    BY <2>1, <2>2 DEF GoodPlan
  <2>4. QED
    BY <2>1, <2>2, <2>3 DEF a, at
<1>4. IsSeq(option) /\ \A i \in 1 .. Len(option) : option[i].at = at /\ option[i].op # "layout"
  <2> DEFINE a == [op |-> "option", at |-> at, value |-> w.deco]
  <2>1. a.at = at /\ a.op # "layout"
    OBVIOUS
  <2> HIDE DEF a, at
  <2>2. /\ IsSeq(<<>>) /\ \A i \in 1 .. Len(<<>>) : <<>>[i] = a
        /\ IsSeq(<<a>>) /\ \A i \in 1 .. Len(<<a>>) : <<a>>[i] = a
    BY DEF IsSeq
  <2>3. option \in {<<>>, <<a>>}
    BY DEF a
  <2> HIDE DEF option
  <2>4. IsSeq(option) /\ \A i \in 1 .. Len(option) : option[i] = a
    BY <2>2, <2>3
  <2>5. QED
    BY <2>1, <2>4
<1>5. IsSeq(split) /\ \A i \in 1 .. Len(split) : split[i].at = at /\ split[i].op # "layout"
  <2> HIDE DEF kept
  <2> DEFINE n == IF Len(kept) = 0 THEN 0 ELSE Len(kept) - 1
  <2>1. n \in Nat /\ 1 .. Len(kept) - 1 = 1 .. n
    BY <1>2
  <2>2. DOMAIN split = 1 .. n /\ split = [i \in 1 .. n |-> split[i]]
    BY <2>1
  <2>3. IsSeq(split) /\ Len(split) = n
    <3> HIDE DEF split, n
    <3>1. QED
      BY <2>1, <2>2, IsSeqFunction
  <2>4. QED
    BY <2>1, <2>2, <2>3
<1>6. IsSeq(layout) /\ \A i \in 1 .. Len(layout) : layout[i].at = at /\ layout[i].layout[2] \in Int
  BY DEF IsSeq, GoodWindow
<1> HIDE DEF create, option, split, layout, at, kept
<1>7. GoodPlan(create \o option) /\ Len(create \o option) # 0 /\ (create \o option)[1] = create[1]
  BY <1>3, <1>4, GoodPlanFollow
<1>8. /\ GoodPlan((create \o option) \o split) /\ Len((create \o option) \o split) # 0
      /\ ((create \o option) \o split)[1] = create[1]
  BY <1>3, <1>5, <1>7, GoodPlanFollow
<1>9. GoodPlan(((create \o option) \o split) \o layout)
  BY <1>3, <1>6, <1>8, GoodPlanFollow
<1>10. QED
  BY <1>1, <1>9

LEMMA SessionPlan ==
  ASSUME NEW f, NEW s, GoodSession(s)
  PROVE  GoodPlan(SessionActions(f, s))
<1> DEFINE A == {s.windows[i] : i \in DOMAIN s.windows}
           parts == [i \in DOMAIN s.windows |->
                       IF SkipWindow(f, s.windows[i]) \/ KeptPanes(f, s.windows[i]) = <<>>
                       THEN <<>> ELSE <<s.windows[i]>>]
           ws == PlannedWindows(f, s)
           plans == [i \in DOMAIN ws |-> WindowActions(f, s, ws[i], i = 1)]
<1>1. DOMAIN s.windows = 1 .. Len(s.windows) /\ Len(s.windows) \in Nat /\ \A w \in A : GoodWindow(w)
  BY IsSeqDomain DEF GoodSession
<1>2. \A i \in DOMAIN s.windows : parts[i] \in Seq(A)
  <2> TAKE i \in DOMAIN s.windows
  <2>1. <<>> \in Seq(A) /\ <<s.windows[i]>> \in Seq(A)
    OBVIOUS
  <2> HIDE DEF A
  <2>2. QED
    BY <2>1
<1>3. ws = FlattenSeq(parts)
  BY DEF PlannedWindows
<1>4. parts = [i \in 1 .. Len(s.windows) |-> parts[i]]
  BY <1>1
<1> HIDE DEF parts, A, ws
<1>5. ws \in Seq(A)
  BY <1>1, <1>3, <1>4, <1>2, FlattenSeqType
<1>6. \A i \in 1 .. Len(ws) : GoodPlan(plans[i])
  BY <1>1, <1>5, WindowPlan DEF GoodSession
<1>7. IsSeq(plans) /\ Len(plans) = Len(ws)
  <2>1. DOMAIN plans = 1 .. Len(ws) /\ Len(ws) \in Nat /\ plans = [i \in 1 .. Len(ws) |-> plans[i]]
    BY <1>5
  <2> HIDE DEF plans
  <2>2. QED
    BY <2>1, IsSeqFunction
<1>8. SessionActions(f, s) = FlattenSeq(plans)
  BY DEF SessionActions, ws
<1> HIDE DEF plans
<1>9. QED
  BY <1>6, <1>7, <1>8, GoodPlanFlatten

LEMMA BuildPlanIsGood ==
  ASSUME NEW m, NEW f, NEW running, NEW now, GoodManifest(m)
  PROVE  GoodPlan(BuildPlan(m, f, running, now))
<1> DEFINE plans == [i \in DOMAIN m |->
                       IF SkipReason(f, m[i], running, now) = "" THEN SessionActions(f, m[i]) ELSE <<>>]
<1>1. DOMAIN m = 1 .. Len(m) /\ Len(m) \in Nat
  BY IsSeqDomain DEF GoodManifest
<1>2. GoodPlan(<<>>)
  BY DEF GoodPlan, IsSeq
<1>3. \A i \in 1 .. Len(m) : GoodPlan(plans[i])
  BY <1>1, <1>2, SessionPlan DEF GoodManifest
<1>4. IsSeq(plans) /\ Len(plans) = Len(m)
  <2>1. DOMAIN plans = 1 .. Len(m) /\ plans = [i \in 1 .. Len(m) |-> plans[i]]
    BY <1>1
  <2> HIDE DEF plans
  <2>2. QED
    BY <1>1, <2>1, IsSeqFunction
<1>5. BuildPlan(m, f, running, now) = FlattenSeq(plans)
  BY DEF BuildPlan
<1> HIDE DEF plans
<1>6. QED
  BY <1>3, <1>4, <1>5, GoodPlanFlatten
-----------------------------------------------------------------------------
(* What a save reads is a good manifest. *)

\* The i-th window by index is one: distinct indexes have distinct ranks, and
\* there are as many ranks as windows.
LEMMA ByIndexIsSeq ==
  ASSUME NEW ws, IsFiniteSet(ws), \A w \in ws : w.index \in Int,
         \A v, w \in ws : v.index = w.index => v = w
  PROVE  /\ ByIndex(ws) \in Seq(ws)
         /\ \A i, j \in 1 .. Len(ByIndex(ws)) : ByIndex(ws)[i] = ByIndex(ws)[j] => i = j
<1> DEFINE n == Cardinality(ws)
           upto(w) == {v \in ws : v.index <= w.index}
           rank == [w \in ws |-> Cardinality(upto(w))]
           nth(i) == CHOOSE w \in ws : Cardinality(upto(w)) = i
<1>1. n \in Nat /\ IsFiniteSet(1 .. n) /\ Cardinality(1 .. n) = n
  BY FS_CardinalityType, FS_Interval
<1>2. ASSUME NEW w \in ws
      PROVE  IsFiniteSet(upto(w)) /\ Cardinality(upto(w)) \in 1 .. n
  <2>1. upto(w) \in SUBSET ws /\ upto(w) # {}
    OBVIOUS
  <2> HIDE DEF upto
  <2>2. IsFiniteSet(upto(w)) /\ Cardinality(upto(w)) <= n
    BY <2>1, FS_Subset
  <2>3. Cardinality(upto(w)) \in Nat /\ Cardinality(upto(w)) # 0
    BY <2>1, <2>2, FS_CardinalityType, FS_EmptySet
  <2>4. QED
    BY <1>1, <2>2, <2>3
<1>3. ASSUME NEW v \in ws, NEW w \in ws, rank[v] = rank[w]
      PROVE  v = w
  <2>1. upto(v) \subseteq upto(w) \/ upto(w) \subseteq upto(v)
    OBVIOUS
  <2>2. v \in upto(v) /\ w \in upto(w)
    OBVIOUS
  <2>3. Cardinality(upto(v)) = Cardinality(upto(w))
    BY <1>3
  <2>4. upto(v) = upto(w)
    <3> HIDE DEF upto
    <3>1. QED
      BY <1>2, <2>1, <2>3, FS_Subset
  <2>5. v.index <= w.index /\ w.index <= v.index
    BY <2>2, <2>4
  <2>6. QED
    BY <2>5
<1>4. rank \in Injection(ws, 1 .. n)
  BY <1>2, <1>3 DEF Injection, IsInjective
<1>5. rank \in Surjection(ws, 1 .. n)
  <2> HIDE DEF rank, n
  <2>1. QED
    BY <1>1, <1>4, FS_Injection DEF n
<1>6. \A i \in 1 .. n : \E w \in ws : Cardinality(upto(w)) = i
  BY <1>5 DEF Surjection
<1>7. \A i \in 1 .. n : nth(i) \in ws /\ Cardinality(upto(nth(i))) = i
  BY <1>6
<1>8. ByIndex(ws) = [i \in 1 .. n |-> nth(i)]
  BY DEF ByIndex
<1> HIDE DEF n, nth, upto
<1>9. \A i, j \in 1 .. n : nth(i) = nth(j) => i = j
  BY <1>7
<1>10. ByIndex(ws) \in Seq(ws) /\ Len(ByIndex(ws)) = n
  BY <1>1, <1>7, <1>8
<1>11. \A i \in 1 .. n : ByIndex(ws)[i] = nth(i)
  BY <1>8
<1>12. QED
  BY <1>9, <1>10, <1>11

\* The tmux server: its windows, each at a place of its own.
ServerInv ==
  /\ IsFiniteSet(windows)
  /\ \A w \in windows :
       /\ w = [id |-> w.id, sess |-> w.sess, index |-> w.index,
               panes |-> w.panes, deco |-> w.deco, layout |-> w.layout]
       /\ w.id \in Int /\ w.id < server.next /\ w.sess \in Name
       /\ GoodWindow(w) /\ Len(w.panes) \in 1 .. w.layout[2]
  /\ \A v, w \in windows : v = w \/ (v.id # w.id /\ <<v.sess, v.index>> # <<w.sess, w.index>>)
  /\ server = [n |-> server.n, start |-> server.start, next |-> server.next]
  /\ server.n \in Int /\ server.start \in Int /\ server.next \in Int
  /\ clock \in Int /\ server.start <= clock /\ clock \in Epoch .. MaxClock \cup {Epoch}
  /\ windows = {} => server.next = 1
  /\ auto \/ cmd.op \in {"pick", "apply"} => windows # {}

LEMMA ManifestIsGood ==
  ASSUME ServerInv
  PROVE  GoodManifest(Manifest)
<1> DEFINE names == SetToSeq(Live)
           session(i) == [name |-> names[i], attached |-> attached[names[i]],
                          windows |-> ByIndex(SessionWindows(names[i]))]
<1>1. IsFiniteSet(Live)
  <2> DEFINE f == [w \in windows |-> w.sess]
  <2>1. f \in Surjection(windows, Live)
    BY DEF Surjection, Live
  <2>2. QED
    BY <2>1, FS_Surjection DEF ServerInv
<1>2. names \in Seq(Live) /\ Live \subseteq Name
  BY <1>1, SetToSeqIsSeq DEF ServerInv, Live
<1>3. ASSUME NEW n
      PROVE  /\ IsSeq(ByIndex(SessionWindows(n)))
             /\ \A j \in 1 .. Len(ByIndex(SessionWindows(n))) : GoodWindow(ByIndex(SessionWindows(n))[j])
  <2> DEFINE mine == {w \in windows : w.sess = n}
             ws == SessionWindows(n)
  <2>1. IsFiniteSet(mine)
    BY FS_Subset, mine \in SUBSET windows DEF ServerInv
  <2>2. IsFiniteSet(ws)
    <3> DEFINE f == [w \in mine |-> SavedWindow(w)]
    <3>1. f \in Surjection(mine, ws)
      BY DEF Surjection, SessionWindows
    <3> HIDE DEF mine, ws, f
    <3>2. QED
      BY <2>1, <3>1, FS_Surjection
  <2>3. \A w \in ws : w.index \in Int /\ GoodWindow(w)
    BY DEF SessionWindows, SavedWindow, ServerInv, GoodWindow
  <2>4. \A v, w \in ws : v.index = w.index => v = w
    BY DEF SessionWindows, SavedWindow, ServerInv
  <2> HIDE DEF ws
  <2>5. ByIndex(ws) \in Seq(ws)
    BY <2>2, <2>3, <2>4, ByIndexIsSeq
  <2>6. QED
    BY <2>3, <2>5, IsSeqOfAnything DEF ws
<1>4. Manifest = [i \in DOMAIN names |-> session(i)]
  BY DEF Manifest
<1>5. DOMAIN names = 1 .. Len(names) /\ Len(names) \in Nat /\ \A i \in DOMAIN names : names[i] \in Name
  BY <1>2
<1> HIDE DEF names
<1>6. IsSeq(Manifest) /\ Len(Manifest) = Len(names)
  BY <1>4, <1>5, IsSeqFunction
<1>7. \A i \in 1 .. Len(names) : GoodSession(session(i))
  BY <1>3, <1>5 DEF GoodSession
<1>8. QED
  BY <1>4, <1>5, <1>6, <1>7 DEF GoodManifest
IndexesApart(ws) == \A i, j \in 1 .. Len(ws) : ws[i].index = ws[j].index => i = j

\* What tmux lists is listed once, and a layout has a cell for every pane.
Apart(m) ==
  /\ \A i, k \in 1 .. Len(m) : m[i].name = m[k].name => i = k
  /\ \A i \in 1 .. Len(m) :
       /\ IndexesApart(m[i].windows)
       /\ \A j \in 1 .. Len(m[i].windows) : Len(m[i].windows[j].panes) <= m[i].windows[j].layout[2]

LEMMA ManifestIsApart ==
  ASSUME ServerInv
  PROVE  Apart(Manifest)
<1> DEFINE names == SetToSeq(Live)
<1>1. IsFiniteSet(Live)
  <2> DEFINE f == [w \in windows |-> w.sess]
  <2>1. f \in Surjection(windows, Live)
    BY DEF Surjection, Live
  <2>2. QED
    BY <2>1, FS_Surjection DEF ServerInv
<1>2. names \in Seq(Live) /\ \A i, k \in 1 .. Len(names) : names[i] = names[k] => i = k
  BY <1>1, SetToSeqIsSeq, SetToSeqIsApart
<1>3. ASSUME NEW n
      PROVE  LET ws == ByIndex(SessionWindows(n))
             IN  IndexesApart(ws) /\ \A j \in 1 .. Len(ws) : Len(ws[j].panes) <= ws[j].layout[2]
  <2> DEFINE mine == {w \in windows : w.sess = n}
             set == SessionWindows(n)
             ws == ByIndex(set)
  <2>1. IsFiniteSet(mine)
    BY FS_Subset, mine \in SUBSET windows DEF ServerInv
  <2>2. IsFiniteSet(set)
    <3> DEFINE f == [w \in mine |-> SavedWindow(w)]
    <3>1. f \in Surjection(mine, set)
      BY DEF Surjection, SessionWindows
    <3> HIDE DEF mine, set, f
    <3>2. QED
      BY <2>1, <3>1, FS_Surjection
  <2>3. \A w \in set : w.index \in Int /\ Len(w.panes) <= w.layout[2]
    BY DEF SessionWindows, SavedWindow, ServerInv, GoodWindow
  <2>4. \A v, w \in set : v.index = w.index => v = w
    BY DEF SessionWindows, SavedWindow, ServerInv
  <2> HIDE DEF set
  <2>5. ws \in Seq(set) /\ \A i, j \in 1 .. Len(ws) : ws[i] = ws[j] => i = j
    BY <2>2, <2>3, <2>4, ByIndexIsSeq
  <2> HIDE DEF ws
  <2>6. \A j \in 1 .. Len(ws) : ws[j] \in set
    BY <2>5
  <2>7. IndexesApart(ws) /\ \A j \in 1 .. Len(ws) : Len(ws[j].panes) <= ws[j].layout[2]
    BY <2>3, <2>4, <2>5, <2>6 DEF IndexesApart
  <2>8. QED
    BY <2>7 DEF ws, set
<1>4. Manifest = [i \in DOMAIN names |-> [name |-> names[i], attached |-> attached[names[i]],
                                         windows |-> ByIndex(SessionWindows(names[i]))]]
  BY DEF Manifest
<1>5. DOMAIN names = 1 .. Len(names) /\ Len(names) \in Nat
  BY <1>2
<1> HIDE DEF names
<1>6. Len(Manifest) = Len(names)
  BY <1>4, <1>5, IsSeqFunction
<1>7. \A i \in 1 .. Len(Manifest) :
        Manifest[i].name = names[i] /\ Manifest[i].windows = ByIndex(SessionWindows(names[i]))
  BY <1>4, <1>5, <1>6
<1>8. \A i \in 1 .. Len(Manifest) :
        /\ IndexesApart(Manifest[i].windows)
        /\ \A j \in 1 .. Len(Manifest[i].windows) :
             Len(Manifest[i].windows[j].panes) <= Manifest[i].windows[j].layout[2]
  BY <1>3, <1>7
<1>9. \A i, k \in 1 .. Len(Manifest) : Manifest[i].name = Manifest[k].name => i = k
  BY <1>2, <1>6, <1>7
<1>10. QED
  BY <1>8, <1>9 DEF Apart
-----------------------------------------------------------------------------
(* The invariant. *)

\* A save that began under the server of now has a time stamp of its time.
Stamped(ts, from) ==
  /\ ts \in Int /\ from \in Int /\ from <= server.n
  /\ from = server.n => server.start <= ts

\* Whose save a row is, and that it can be restored.
RowsInv == \A e \in rows : Stamped(e.ts, e.from) /\ GoodManifest(e.man)

\* An action of a plan under way, of which failed and old are known, on a
\* server with windows ws: it is about a window that the restore will create,
\* could not create, or has created.
Ready(plan, i, failed, old, ws) ==
  LET a == plan[i]
  IN  /\ a.at = <<a.at[1], a.at[2]>> /\ a.at[1] \in Name /\ a.at[2] \in Int
      /\ a.op = "layout" => a.layout[2] \in Int
      /\ \/ a.op = "window" \/ a.at \in failed
         \/ \E j \in 1 .. i - 1 : plan[j].op = "window" /\ plan[j].at = a.at
         \/ \A w \in ws : <<w.sess, w.index>> = a.at => w.id \notin old

ApplyInv ==
  /\ cmd = [op |-> "apply", by |-> cmd.by, plan |-> cmd.plan, failed |-> cmd.failed,
            snap |-> cmd.snap, filter |-> cmd.filter, running |-> cmd.running, now |-> cmd.now,
            old |-> cmd.old, live |-> cmd.live, alone |-> cmd.alone]
  /\ cmd.snap.from \in Int /\ (cmd.by = "restore" => cmd.snap.from < server.n)
  /\ \A id \in cmd.old : id \in Int /\ id < server.next
  /\ IsSeq(cmd.plan)
  /\ \A i \in 1 .. Len(cmd.plan) : Ready(cmd.plan, i, cmd.failed, cmd.old, windows)

CmdInv ==
  /\ cmd.op \in {"idle", "save", "pick", "apply"}
  /\ Saving => Stamped(cmd.ts, cmd.from)
  /\ Applying => ApplyInv

IInv == ServerInv /\ RowsInv /\ CmdInv

\* Second divides a whole number of seconds.
LEMMA SecIsEarlier ==
  ASSUME NEW t \in Int
  PROVE  Sec(t) \in Int /\ Sec(t) <= t
<1> DEFINE q == t \div Second
<1>1. q \in Int /\ Second \in Int /\ t = q * Second + (t % Second) /\ t % Second \in 0 .. Second - 1
  BY RestoreAssumption
<1>2. q * Second \in Int
  BY <1>1
<1>3. QED
  BY <1>1, <1>2 DEF Sec

\* What a step does to a restore under way when it takes none of its actions:
\* windows come with new ids, others go.
LEMMA CmdFrame ==
  ASSUME CmdInv, ServerInv, windows # {} \/ ~Applying,
         cmd' = cmd \/ (Applying /\ cmd' = [cmd EXCEPT !.alone = FALSE]),
         \A w \in windows' : w \in windows \/ w.id = server.next,
         Applying => server'.next \in Int /\ server'.next >= server.next,
         (server'.n = server.n /\ server'.start = server.start) \/ server'.n = server.n + 1
  PROVE  CmdInv'
<1>1. CASE ~Applying
  <2>1. cmd' = cmd
    BY <1>1
  <2>2. Saving => Stamped(cmd.ts, cmd.from)'
    BY <2>1 DEF CmdInv, Stamped, ServerInv
  <2>3. QED
    BY <1>1, <2>1, <2>2 DEF CmdInv, Applying, Saving
<1>2. CASE Applying
  <2>1. ApplyInv
    BY <1>2 DEF CmdInv
  <2>2. /\ cmd'.op = "apply" /\ cmd'.by = cmd.by /\ cmd'.plan = cmd.plan /\ cmd'.failed = cmd.failed
        /\ cmd'.snap = cmd.snap /\ cmd'.old = cmd.old
        /\ cmd' = [op |-> "apply", by |-> cmd'.by, plan |-> cmd'.plan, failed |-> cmd'.failed,
                   snap |-> cmd'.snap, filter |-> cmd'.filter, running |-> cmd'.running, now |-> cmd'.now,
                   old |-> cmd'.old, live |-> cmd'.live, alone |-> cmd'.alone]
    BY <1>2, <2>1 DEF ApplyInv, Applying
  <2>3. \A w \in windows' : w.id \in cmd.old => w \in windows
    BY <1>2, <2>1 DEF ApplyInv, ServerInv
  <2>4. \A id \in cmd'.old : id \in Int /\ id < server'.next
    BY <1>2, <2>1, <2>2 DEF ApplyInv, ServerInv
  <2>5. cmd'.snap.from \in Int /\ (cmd'.by = "restore" => cmd'.snap.from < server'.n)
    BY <2>1, <2>2 DEF ApplyInv, ServerInv
  <2>6. ASSUME NEW i \in 1 .. Len(cmd'.plan)
        PROVE  Ready(cmd'.plan, i, cmd'.failed, cmd'.old, windows')
    <3>1. i \in 1 .. Len(cmd.plan) /\ Ready(cmd.plan, i, cmd.failed, cmd.old, windows)
      BY <2>1, <2>2 DEF ApplyInv
    <3>2. Ready(cmd.plan, i, cmd.failed, cmd.old, windows')
      BY <2>3, <3>1 DEF Ready
    <3>3. QED
      BY <2>2, <3>2
  <2>7. ApplyInv'
    BY <2>1, <2>2, <2>4, <2>5, <2>6 DEF ApplyInv
  <2>8. QED
    BY <2>2, <2>7 DEF CmdInv, Applying, Saving
<1>3. QED
  BY <1>1, <1>2

LEMMA RowsFrame ==
  ASSUME RowsInv, ServerInv, rows' \subseteq rows,
         (server'.n = server.n /\ server'.start = server.start) \/ server'.n = server.n + 1
  PROVE  RowsInv'
  BY DEF RowsInv, Stamped, ServerInv

\* One more window, at a free place.
LEMMA OneMoreWindow ==
  ASSUME ServerInv, NEW w,
         w = [id |-> server.next, sess |-> w.sess, index |-> w.index,
              panes |-> w.panes, deco |-> w.deco, layout |-> w.layout],
         w.sess \in Name, GoodWindow(w), Len(w.panes) \in 1 .. w.layout[2],
         \A v \in windows : <<v.sess, v.index>> # <<w.sess, w.index>>,
         windows' = windows \cup {w}, Numbered, clock' = clock
  PROVE  ServerInv'
<1>1. IsFiniteSet(windows')
  BY FS_AddElement DEF ServerInv
<1>2. server' = [n |-> server.n, start |-> server.start, next |-> server.next + 1]
  BY DEF Numbered, ServerInv
<1>3. \A v \in windows' :
       /\ v = [id |-> v.id, sess |-> v.sess, index |-> v.index,
               panes |-> v.panes, deco |-> v.deco, layout |-> v.layout]
       /\ v.id \in Int /\ v.id < server'.next /\ v.sess \in Name
       /\ GoodWindow(v) /\ Len(v.panes) \in 1 .. v.layout[2]
  BY <1>2 DEF ServerInv
<1>4. \A v \in windows : v.id # w.id
  BY DEF ServerInv
<1>5. \A u, v \in windows' : u = v \/ (u.id # v.id /\ <<u.sess, u.index>> # <<v.sess, v.index>>)
  BY <1>4 DEF ServerInv
<1>6. windows' # {}
  OBVIOUS
<1>7. QED
  BY <1>1, <1>2, <1>3, <1>5, <1>6 DEF ServerInv

LEMMA ShapeIsGood ==
  ASSUME NEW shape \in Shapes
  PROVE  IsSeq(shape.panes) /\ Len(shape.panes) \in Nat \ {0} /\ shape.layout[2] = Len(shape.panes)
<1> DEFINE ps == shape.panes
           A == {ps[i] : i \in DOMAIN ps}
<1>1. ps \in Seq(A) /\ ps # <<>> /\ shape.layout[2] = Len(ps)
  BY ShapesAssumption
<1>2. IsSeq(ps)
  BY <1>1 DEF IsSeq
<1> HIDE DEF ps, A
<1>3. Len(ps) \in Nat \ {0}
  BY <1>1
<1>4. QED
  BY <1>1, <1>2, <1>3 DEF ps

LEMMA NewWindowIsGood ==
  ASSUME ServerInv, NEW n \in Name, NEW i \in Int, NEW shape \in Shapes
  PROVE  LET w == Window(n, i, shape)
         IN  /\ w = [id |-> server.next, sess |-> w.sess, index |-> w.index,
                     panes |-> w.panes, deco |-> w.deco, layout |-> w.layout]
             /\ w.sess = n /\ w.index = i
             /\ GoodWindow(w) /\ Len(w.panes) \in 1 .. w.layout[2]
<1>1. IsSeq(shape.panes) /\ Len(shape.panes) \in Nat \ {0} /\ shape.layout[2] = Len(shape.panes)
  BY ShapeIsGood
<1>2. QED
  BY <1>1 DEF Window, GoodWindow

LEMMA InitInv ==
  ASSUME Init
  PROVE  IInv
<1>1. PICK n \in Name, shape \in Shapes : windows = {[Window(n, BaseIndex, shape) EXCEPT !.id = 1]}
  BY DEF Init
<1>2. Epoch \in Nat /\ MaxClock \in Nat /\ BaseIndex \in Nat
  BY RestoreAssumption
<1>3. Sec(Epoch) \in Int /\ Sec(Epoch) <= Epoch
  BY <1>2, SecIsEarlier
<1>4. IsSeq(shape.panes) /\ Len(shape.panes) \in Nat \ {0} /\ shape.layout[2] = Len(shape.panes)
  BY ShapeIsGood
<1>5. server = [n |-> 1, start |-> Sec(Epoch), next |-> 2] /\ clock = Epoch /\ rows = {} /\ cmd = Idle /\ auto = FALSE
  BY DEF Init
<1> DEFINE w == [Window(n, BaseIndex, shape) EXCEPT !.id = 1]
<1>6. /\ w = [id |-> w.id, sess |-> w.sess, index |-> w.index,
              panes |-> w.panes, deco |-> w.deco, layout |-> w.layout]
      /\ w.id = 1 /\ w.sess = n /\ GoodWindow(w) /\ Len(w.panes) \in 1 .. w.layout[2]
  BY <1>2, <1>4 DEF Window, GoodWindow
<1>7. windows = {w} /\ IsFiniteSet(windows)
  BY <1>1, FS_Singleton
<1> HIDE DEF w
<1>8. ServerInv
  BY <1>2, <1>3, <1>5, <1>6, <1>7 DEF ServerInv, Idle
<1>9. RowsInv /\ CmdInv
  BY <1>5 DEF RowsInv, CmdInv, Applying, Saving, Idle
<1>10. QED
  BY <1>8, <1>9 DEF IInv

LEMMA NewSessionInv ==
  ASSUME IInv, NewSession
  PROVE  IInv'
<1>1. PICK n \in Name \ Live, shape \in Shapes : windows' = windows \cup {Window(n, BaseIndex, shape)}
  BY DEF NewSession
<1> DEFINE w == Window(n, BaseIndex, shape)
<1>2. ServerInv /\ RowsInv /\ CmdInv /\ clock' = clock /\ rows' = rows
  BY DEF IInv, NewSession
<1>3. BaseIndex \in Int
  BY RestoreAssumption
<1>4. /\ w = [id |-> server.next, sess |-> w.sess, index |-> w.index,
              panes |-> w.panes, deco |-> w.deco, layout |-> w.layout]
      /\ w.sess = n /\ w.index = BaseIndex
      /\ GoodWindow(w) /\ Len(w.panes) \in 1 .. w.layout[2]
  BY <1>2, <1>3, NewWindowIsGood
<1>5. windows' = windows \cup {w} /\ w.id = server.next
  BY <1>1, <1>4
<1> HIDE DEF w
<1>6. CASE windows # {}
  <2>1. Numbered
    BY <1>6 DEF NewSession
  <2>2. \A v \in windows : <<v.sess, v.index>> # <<w.sess, w.index>>
    BY <1>1, <1>4 DEF Live
  <2>3. ServerInv'
    BY <1>1, <1>2, <1>4, <1>5, <2>1, <2>2, OneMoreWindow
  <2>4. /\ server'.n = server.n /\ server'.start = server.start /\ server'.next = server.next + 1
        /\ server.n \in Int /\ server.next \in Int
    BY <1>2, <2>1 DEF Numbered, ServerInv
  <2>5. RowsInv'
    BY <1>2, <2>4, RowsFrame
  <2>6. cmd' = cmd \/ (Applying /\ cmd' = [cmd EXCEPT !.alone = FALSE])
    BY DEF NewSession, Disturb
  <2>7. CmdInv'
    BY <1>2, <1>5, <1>6, <2>4, <2>6, CmdFrame
  <2>8. QED
    BY <2>3, <2>5, <2>7 DEF IInv
<1>7. CASE windows = {}
  <2>1. server' = [n |-> server.n + 1, start |-> Sec(clock), next |-> 2] /\ server.next = 1 /\ ~Applying
    BY <1>2, <1>7 DEF NewSession, ServerInv, Applying
  <2>2. Sec(clock) \in Int /\ Sec(clock) <= clock
    BY <1>2, SecIsEarlier DEF ServerInv
  <2>3. windows' = {w} /\ IsFiniteSet(windows')
    <3>1. windows' = {w}
      BY <1>5, <1>7
    <3>2. QED
      BY <3>1, FS_Singleton
  <2>4. ServerInv'
    BY <1>1, <1>2, <1>4, <2>1, <2>2, <2>3 DEF ServerInv
  <2>5. RowsInv'
    BY <1>2, <2>1, RowsFrame
  <2>6. cmd' = cmd
    BY <2>1 DEF NewSession, Disturb
  <2>7. server'.n = server.n + 1 /\ \A v \in windows' : v.id = server.next
    BY <1>5, <2>1, <2>3
  <2>8. CmdInv'
    BY <1>2, <2>1, <2>6, <2>7, CmdFrame
  <2>9. QED
    BY <2>4, <2>5, <2>8 DEF IInv
<1>8. QED
  BY <1>6, <1>7

LEMMA NewWindowInv ==
  ASSUME IInv, NewWindow
  PROVE  IInv'
<1>1. PICK n \in Live, shape \in Shapes, i \in BaseIndex .. BaseIndex + MaxWindows :
        /\ \A v \in windows : v.sess = n => v.index # i
        /\ windows' = windows \cup {Window(n, i, shape)}
  BY DEF NewWindow
<1> DEFINE w == Window(n, i, shape)
<1>2. ServerInv /\ RowsInv /\ CmdInv /\ clock' = clock /\ rows' = rows /\ Numbered
  BY DEF IInv, NewWindow
<1>3. i \in Int /\ n \in Name /\ windows # {}
  <2>1. BaseIndex \in Int /\ MaxWindows \in Int
    BY RestoreAssumption
  <2>2. n \in Name /\ windows # {}
    BY <1>2 DEF Live, ServerInv
  <2>3. QED
    BY <2>1, <2>2
<1>4. /\ w = [id |-> server.next, sess |-> w.sess, index |-> w.index,
              panes |-> w.panes, deco |-> w.deco, layout |-> w.layout]
      /\ w.sess = n /\ w.index = i
      /\ GoodWindow(w) /\ Len(w.panes) \in 1 .. w.layout[2]
  BY <1>2, <1>3, NewWindowIsGood
<1>5. windows' = windows \cup {w} /\ w.id = server.next
  BY <1>1, <1>4
<1>6. \A v \in windows : <<v.sess, v.index>> # <<w.sess, w.index>>
  BY <1>1, <1>4
<1> HIDE DEF w
<1>7. ServerInv'
  BY <1>2, <1>3, <1>4, <1>5, <1>6, OneMoreWindow
<1>8. /\ server'.n = server.n /\ server'.start = server.start /\ server'.next = server.next + 1
      /\ server.n \in Int /\ server.next \in Int
  BY <1>2 DEF Numbered, ServerInv
<1>9. RowsInv'
  BY <1>2, <1>8, RowsFrame
<1>10. cmd' = cmd \/ (Applying /\ cmd' = [cmd EXCEPT !.alone = FALSE])
  BY DEF NewWindow, Disturb
<1>11. CmdInv'
  BY <1>2, <1>3, <1>5, <1>8, <1>10, CmdFrame
<1>12. QED
  BY <1>7, <1>9, <1>11 DEF IInv
\* The server loses windows, perhaps all.
LEMMA RemainInv ==
  ASSUME IInv, NEW left, left \subseteq windows, windows # {}, Remain(left)
  PROVE  IInv'
<1>1. ServerInv /\ RowsInv /\ CmdInv /\ windows' = left /\ clock' = clock /\ rows' = rows
  BY DEF IInv, Remain
<1>2. IsFiniteSet(left)
  BY <1>1, FS_Subset DEF ServerInv
<1>3. CASE left = {}
  <2>1. /\ server' = [n |-> server.n, start |-> server.start, next |-> 1] /\ auto' = FALSE
        /\ cmd' = Idle \/ (Saving /\ cmd' = cmd)
    BY <1>1, <1>3 DEF Remain, ServerInv
  <2>2. ServerInv'
    BY <1>1, <1>2, <1>3, <2>1 DEF ServerInv, Saving, Idle
  <2>3. RowsInv'
    BY <1>1, <2>1, RowsFrame
  <2>4. Saving /\ cmd' = cmd => Stamped(cmd.ts, cmd.from)'
    BY <1>1, <2>1 DEF CmdInv, Stamped
  <2>5. CmdInv'
    BY <2>1, <2>4 DEF CmdInv, Applying, Saving, Idle
  <2>6. QED
    BY <2>2, <2>3, <2>5 DEF IInv
<1>4. CASE left # {}
  <2>1. server' = server /\ auto' = auto
    BY <1>4 DEF Remain
  <2>2. ServerInv'
    BY <1>1, <1>2, <1>4, <2>1 DEF ServerInv
  <2>3. RowsInv'
    BY <1>1, <2>1, RowsFrame DEF ServerInv
  <2>4. cmd' = cmd \/ (Applying /\ cmd' = [cmd EXCEPT !.alone = FALSE])
    BY <1>4 DEF Remain, Disturb
  <2>5. server.next \in Int /\ server.n \in Int
    BY <1>1 DEF ServerInv
  <2>6. CmdInv'
    BY <1>1, <2>1, <2>4, <2>5, CmdFrame
  <2>7. QED
    BY <2>2, <2>3, <2>6 DEF IInv
<1>5. QED
  BY <1>3, <1>4

LEMMA UserInv ==
  ASSUME IInv, User
  PROVE  IInv'
<1>1. CASE NewSession
  BY <1>1, NewSessionInv
<1>2. CASE NewWindow
  BY <1>2, NewWindowInv
<1>3. CASE Attach
  <2>1. ServerInv /\ RowsInv /\ CmdInv /\ UNCHANGED <<windows, server, clock, rows, auto>> /\ windows # {}
    BY <1>3 DEF IInv, Attach, Live
  <2>2. cmd' = cmd \/ (Applying /\ cmd' = [cmd EXCEPT !.alone = FALSE])
    BY <1>3 DEF Attach, Disturb
  <2>3. server.next \in Int /\ server.n \in Int
    BY <2>1 DEF ServerInv
  <2>4. CmdInv'
    BY <2>1, <2>2, <2>3, CmdFrame
  <2>5. ServerInv' /\ RowsInv'
    BY <2>1, <2>2 DEF ServerInv, RowsInv, Stamped, Applying
  <2>6. QED
    BY <2>4, <2>5 DEF IInv
<1>4. CASE KillWindow
  <2>1. PICK w \in windows : Remain(windows \ {w})
    BY <1>4 DEF KillWindow
  <2>2. QED
    BY <2>1, RemainInv
<1>5. CASE KillServer
  BY <1>5, RemainInv DEF KillServer
<1>6. QED
  BY <1>1, <1>2, <1>3, <1>4, <1>5 DEF User

LEMMA TickInv ==
  ASSUME IInv, Tick
  PROVE  IInv'
<1>1. /\ ServerInv /\ RowsInv /\ CmdInv /\ UNCHANGED <<windows, server, rows, auto, cmd>>
      /\ clock < MaxClock /\ clock' = clock + 1
  BY DEF IInv, Tick, tmux
<1>2. Epoch \in Nat /\ MaxClock \in Nat
  BY RestoreAssumption
<1>3. ServerInv'
  BY <1>1, <1>2 DEF ServerInv, Free
<1>4. RowsInv' /\ CmdInv'
  BY <1>1 DEF RowsInv, Stamped, CmdInv, ApplyInv, Applying, Saving
<1>5. QED
  BY <1>3, <1>4 DEF IInv

LEMMA PruneShrinks ==
  ASSUME NEW E, NEW keep, NEW now, NEW kept \in PruneSnapshots(E, keep, now)
  PROVE  kept \subseteq E
  BY DEF PruneSnapshots, NewestByTs, DayFloor, Snapshots, Closes

\* What a save stores is rows that were there and, perhaps, the new one.
LEMMA SaveEndRows ==
  ASSUME SaveEnd
  PROVE  rows' \subseteq rows \cup {Row}
<1>1. PICK new \in {Insert} : rows' \in PruneSnapshots(new[1], Keep, clock)
  BY DEF SaveEnd
<1>2. new[1] \subseteq rows \cup {Row}
  BY DEF Insert
<1>3. rows' \subseteq new[1]
  BY <1>1, PruneShrinks
<1>4. QED
  BY <1>2, <1>3

LEMMA SaveInv ==
  ASSUME IInv, SaveStart \/ SaveEnd \/ SaveFails
  PROVE  IInv'
<1>1. /\ ServerInv /\ RowsInv /\ CmdInv /\ UNCHANGED <<windows, server, clock, auto>>
  BY DEF IInv, SaveStart, SaveEnd, SaveFails, tmux
<1>2. CASE SaveStart
  <2>1. cmd' = [op |-> "save", ts |-> clock, from |-> server.n] /\ rows' = rows
    BY <1>2 DEF SaveStart
  <2>2. ServerInv'
    BY <1>1, <2>1 DEF ServerInv
  <2>3. RowsInv'
    BY <1>1, <2>1 DEF RowsInv, Stamped
  <2>4. CmdInv'
    BY <1>1, <2>1 DEF CmdInv, Stamped, Saving, Applying, ServerInv
  <2>5. QED
    BY <2>2, <2>3, <2>4 DEF IInv
<1>3. CASE SaveEnd \/ SaveFails
  <2>1. Saving /\ cmd' = Idle
    BY <1>3 DEF SaveEnd, SaveFails
  <2>2. ServerInv' /\ CmdInv'
    BY <1>1, <2>1 DEF ServerInv, CmdInv, Saving, Applying, Idle
  <2>3. Stamped(Row.ts, Row.from) /\ GoodManifest(Row.man)
    <3>1. Row.ts = cmd.ts /\ Row.from = cmd.from /\ Row.man = Manifest
      BY DEF Row
    <3>2. QED
      BY <1>1, <2>1, <3>1, ManifestIsGood DEF CmdInv
  <2>4. rows' \subseteq rows \cup {Row}
    BY <1>3, SaveEndRows DEF SaveFails
  <2>5. RowsInv'
    <3>1. \A e \in rows \cup {Row} : Stamped(e.ts, e.from) /\ GoodManifest(e.man)
      BY <1>1, <2>3 DEF RowsInv
    <3>2. QED
      BY <1>1, <2>4, <3>1 DEF RowsInv, Stamped
  <2>6. QED
    BY <2>2, <2>5 DEF IInv
<1>4. QED
  BY <1>2, <1>3

\* A restore begins with its plan before it.
LEMMA BeginInv ==
  ASSUME ServerInv, RowsInv, NEW e \in rows, NEW by, NEW f, NEW running,
         by = "restore" => e.from < server.n,
         windows # {}, cmd' = Begin(by, e, f, running),
         UNCHANGED <<windows, server, clock, rows>>, auto' = auto \/ auto' = FALSE
  PROVE  IInv'
<1> DEFINE plan == BuildPlan(e.man, f, running, clock)
<1>1. GoodPlan(plan)
  BY BuildPlanIsGood DEF RowsInv
<1> HIDE DEF plan
<1>2. cmd' = [op |-> "apply", by |-> by, plan |-> plan, failed |-> {},
              snap |-> e, filter |-> f, running |-> running, now |-> clock,
              old |-> {w.id : w \in windows}, live |-> Live, alone |-> TRUE]
  BY DEF Begin, plan
<1>3. \A i \in 1 .. Len(plan) : Ready(plan, i, {}, {w.id : w \in windows}, windows)
  BY <1>1 DEF GoodPlan, Ready
<1>4. \A id \in {w.id : w \in windows} : id \in Int /\ id < server.next
  BY DEF ServerInv
<1>5. e.from \in Int
  BY DEF RowsInv, Stamped
<1>6. ApplyInv'
  BY <1>1, <1>2, <1>3, <1>4, <1>5 DEF ApplyInv, GoodPlan
<1>7. ServerInv' /\ RowsInv'
  BY DEF ServerInv, RowsInv, Stamped
<1>8. QED
  BY <1>2, <1>6, <1>7 DEF IInv, CmdInv, Saving

\* The anchor: a row from before the server's first second is not of the
\* server's own saves.
LEMMA RestoreInv ==
  ASSUME IInv, RestoreAuto \/ RestoreByHand
  PROVE  IInv'
<1>1. /\ ServerInv /\ RowsInv /\ CmdInv /\ UNCHANGED <<windows, server, clock, rows>>
      /\ windows # {} /\ (auto' = auto \/ auto' = FALSE)
  BY DEF IInv, RestoreAuto, RestoreByHand, tmux, ServerInv
<1>2. CASE cmd' = cmd
  <2>1. ServerInv' /\ RowsInv' /\ CmdInv'
    BY <1>1, <1>2 DEF ServerInv, RowsInv, Stamped, CmdInv, ApplyInv, Applying, Saving
  <2>2. QED
    BY <2>1 DEF IInv
<1>3. ASSUME NEW e \in Anchor, cmd' = Begin("restore", e, AutoFilter, Live)
      PROVE  IInv'
  <2>1. e \in rows /\ e.ts < server.start
    BY <1>3 DEF Anchor, LatestSnapshotBefore, First, Snapshots
  <2>2. e.from < server.n
    BY <1>1, <2>1 DEF RowsInv, Stamped, ServerInv
  <2>3. QED
    BY <1>1, <1>3, <2>1, <2>2, BeginInv
<1>4. QED
  BY <1>2, <1>3 DEF RestoreAuto, RestoreByHand

LEMMA PickInv ==
  ASSUME IInv, Pick \/ PickCancel \/ PickChoose
  PROVE  IInv'
<1>1. /\ ServerInv /\ RowsInv /\ CmdInv /\ UNCHANGED <<windows, server, clock, rows, auto>>
  BY DEF IInv, Pick, PickCancel, PickChoose, tmux
<1>2. windows # {}
  BY <1>1 DEF Pick, PickCancel, PickChoose, ServerInv
<1>3. CASE cmd' = Idle \/ cmd' = [op |-> "pick", running |-> Live]
  <2>1. CmdInv'
    BY <1>3 DEF CmdInv, Applying, Saving, Idle
  <2>2. ServerInv' /\ RowsInv'
    BY <1>1, <1>2 DEF ServerInv, RowsInv, Stamped
  <2>3. QED
    BY <2>1, <2>2 DEF IInv
<1>4. ASSUME NEW e \in rows, NEW f, cmd' = Begin("pick", e, f, cmd.running)
      PROVE  IInv'
  BY <1>1, <1>2, <1>4, BeginInv
<1>5. QED
  BY <1>3, <1>4 DEF Pick, PickCancel, PickChoose
-----------------------------------------------------------------------------
(* Apply. *)

\* What is left of a plan when its first action is done, or has failed.
LEMMA TailIsReady ==
  ASSUME NEW plan, IsSeq(plan), plan # <<>>, NEW failed, NEW old, NEW ws,
         \A i \in 1 .. Len(plan) : Ready(plan, i, failed, old, ws),
         NEW failed2, failed \subseteq failed2, NEW ws2,
         \A w \in ws2 : w.id \in old => \E v \in ws : v.id = w.id /\ v.sess = w.sess /\ v.index = w.index,
         plan[1].op = "window" =>
           plan[1].at \in failed2 \/ \A w \in ws2 : <<w.sess, w.index>> = plan[1].at => w.id \notin old
  PROVE  IsSeq(Tail(plan)) /\ \A i \in 1 .. Len(Tail(plan)) : Ready(Tail(plan), i, failed2, old, ws2)
<1> DEFINE A == {plan[i] : i \in DOMAIN plan}
           rest == Tail(plan)
<1>1. plan \in Seq(A)
  BY DEF IsSeq
<1> HIDE DEF A
<1>2. /\ rest \in Seq(A) /\ Len(plan) \in Nat \ {0} /\ Len(rest) = Len(plan) - 1
      /\ \A i \in 1 .. Len(rest) : rest[i] = plan[i + 1]
  BY <1>1
<1> HIDE DEF rest
<1>3. ASSUME NEW i \in 1 .. Len(rest)
      PROVE  Ready(rest, i, failed2, old, ws2)
  <2> DEFINE a == plan[i + 1]
  <2>1. i + 1 \in 1 .. Len(plan) /\ rest[i] = a
    BY <1>2
  <2>2. Ready(plan, i + 1, failed, old, ws)
    BY <2>1
  <2>3. /\ a.at = <<a.at[1], a.at[2]>> /\ a.at[1] \in Name /\ a.at[2] \in Int
        /\ a.op = "layout" => a.layout[2] \in Int
    BY <2>2 DEF Ready
  <2>4. CASE a.op = "window" \/ a.at \in failed
    BY <2>1, <2>3, <2>4 DEF Ready
  <2>5. CASE \A w \in ws : <<w.sess, w.index>> = a.at => w.id \notin old
    BY <2>1, <2>3, <2>5 DEF Ready
  <2>6. ASSUME NEW j \in 1 .. (i + 1) - 1, plan[j].op = "window" /\ plan[j].at = a.at
        PROVE  Ready(rest, i, failed2, old, ws2)
    <3>1. CASE j = 1
      BY <2>1, <2>3, <2>6, <3>1 DEF Ready
    <3>2. CASE j # 1
      <4>1. j - 1 \in 1 .. i - 1 /\ j - 1 \in 1 .. Len(rest) /\ (j - 1) + 1 = j
        BY <1>2, <3>2
      <4>2. rest[j - 1] = plan[j]
        BY <1>2, <4>1
      <4>3. QED
        BY <2>1, <2>3, <2>6, <4>1, <4>2 DEF Ready
    <3>3. QED
      BY <3>1, <3>2
  <2>7. QED
    BY <2>2, <2>4, <2>5, <2>6 DEF Ready
<1>4. IsSeq(rest)
  BY <1>2, IsSeqOfAnything
<1>5. QED
  BY <1>3, <1>4 DEF rest

\* What every step of Apply does to the command.
Onward(failed) ==
  [op |-> "apply", by |-> cmd.by, plan |-> Tail(cmd.plan), failed |-> failed,
   snap |-> cmd.snap, filter |-> cmd.filter, running |-> cmd.running, now |-> cmd.now,
   old |-> cmd.old, live |-> cmd.live, alone |-> cmd.alone]

LEMMA OnwardIs ==
  ASSUME ApplyInv
  PROVE  /\ [cmd EXCEPT !.plan = Tail(@)] = Onward(cmd.failed)
         /\ \A place : [cmd EXCEPT !.plan = Tail(@), !.failed = @ \cup {place}] = Onward(cmd.failed \cup {place})
<1> DEFINE by == cmd.by
           snap == cmd.snap
           filter == cmd.filter
           running == cmd.running
           now == cmd.now
           old == cmd.old
           live == cmd.live
           alone == cmd.alone
           of(plan, failed) ==
             [op |-> "apply", by |-> by, plan |-> plan, failed |-> failed, snap |-> snap,
              filter |-> filter, running |-> running, now |-> now, old |-> old,
              live |-> live, alone |-> alone]
<1>1. PICK plan, failed : plan = cmd.plan /\ failed = cmd.failed /\ cmd = of(plan, failed)
  BY DEF ApplyInv
<1>2. \A x : Onward(x) = of(Tail(cmd.plan), x)
  BY DEF Onward
<1> HIDE DEF by, snap, filter, running, now, old, live, alone
<1>3. ASSUME NEW rest, NEW more
      PROVE  /\ [cmd EXCEPT !.plan = rest] = of(rest, failed)
             /\ [cmd EXCEPT !.plan = rest, !.failed = more] = of(rest, more)
  <2> DEFINE c == cmd
             d == [c EXCEPT !.plan = rest]
  <2>1. c = of(plan, failed)
    BY <1>1
  <2> HIDE DEF c
  <2>2. d = of(rest, failed)
    BY <2>1
  <2>3. [c EXCEPT !.plan = rest, !.failed = more] = [d EXCEPT !.failed = more]
    BY <2>1
  <2> HIDE DEF d
  <2>4. [d EXCEPT !.failed = more] = of(rest, more)
    BY <2>2
  <2>5. QED
    BY <2>2, <2>3, <2>4 DEF c, d
<1> HIDE DEF of
<1>4. [cmd EXCEPT !.plan = Tail(@)] = Onward(cmd.failed)
  <2>1. [cmd EXCEPT !.plan = Tail(@)] = [cmd EXCEPT !.plan = Tail(cmd.plan)]
    OBVIOUS
  <2>2. QED
    BY <1>1, <1>2, <1>3, <2>1
<1>5. ASSUME NEW place
      PROVE  [cmd EXCEPT !.plan = Tail(@), !.failed = @ \cup {place}] = Onward(cmd.failed \cup {place})
  <2>1. [cmd EXCEPT !.plan = Tail(@), !.failed = @ \cup {place}]
          = [cmd EXCEPT !.plan = Tail(cmd.plan), !.failed = cmd.failed \cup {place}]
    OBVIOUS
  <2>2. QED
    BY <1>1, <1>2, <1>3, <2>1
<1>6. QED
  BY <1>4, <1>5

LEMMA ApplyFrame ==
  ASSUME ServerInv, ApplyInv, cmd.plan # <<>>, NEW failed2, cmd.failed \subseteq failed2,
         cmd' = Onward(failed2),
         server'.n = server.n /\ server'.next \in Int /\ server'.next >= server.next,
         \A w \in windows' : w.id \in cmd.old =>
           \E v \in windows : v.id = w.id /\ v.sess = w.sess /\ v.index = w.index,
         cmd.plan[1].op = "window" =>
           \/ cmd.plan[1].at \in failed2
           \/ \A w \in windows' : <<w.sess, w.index>> = cmd.plan[1].at => w.id \notin cmd.old
  PROVE  CmdInv'
<1>1. /\ cmd'.op = "apply" /\ cmd'.by = cmd.by /\ cmd'.plan = Tail(cmd.plan) /\ cmd'.failed = failed2
      /\ cmd'.snap = cmd.snap /\ cmd'.old = cmd.old
      /\ cmd' = [op |-> "apply", by |-> cmd'.by, plan |-> cmd'.plan, failed |-> cmd'.failed,
                 snap |-> cmd'.snap, filter |-> cmd'.filter, running |-> cmd'.running, now |-> cmd'.now,
                 old |-> cmd'.old, live |-> cmd'.live, alone |-> cmd'.alone]
  BY DEF Onward
<1>2. /\ IsSeq(Tail(cmd.plan))
      /\ \A i \in 1 .. Len(Tail(cmd.plan)) : Ready(Tail(cmd.plan), i, failed2, cmd.old, windows')
  BY TailIsReady DEF ApplyInv
<1>3. \A id \in cmd.old : id \in Int /\ id < server'.next
  BY DEF ApplyInv, ServerInv
<1>4. cmd.snap.from \in Int /\ (cmd.by = "restore" => cmd.snap.from < server'.n)
  BY DEF ApplyInv
<1>5. ApplyInv'
  BY <1>1, <1>2, <1>3, <1>4 DEF ApplyInv
<1>6. QED
  BY <1>1, <1>5 DEF CmdInv, Saving

LEMMA FirstAction ==
  ASSUME ApplyInv, cmd.plan # <<>>
  PROVE  /\ Head(cmd.plan) = cmd.plan[1]
         /\ Ready(cmd.plan, 1, cmd.failed, cmd.old, windows)
<1> DEFINE plan == cmd.plan
           A == {plan[i] : i \in DOMAIN plan}
<1>1. plan \in Seq(A) /\ plan # <<>>
  BY DEF ApplyInv, IsSeq
<1>2. \A i \in 1 .. Len(plan) : Ready(plan, i, cmd.failed, cmd.old, windows)
  BY DEF ApplyInv
<1> HIDE DEF plan, A
<1>3. Head(plan) = plan[1] /\ 1 \in 1 .. Len(plan)
  BY <1>1
<1>4. QED
  BY <1>2, <1>3 DEF plan

LEMMA AfterKeeps ==
  ASSUME NEW a, a.op = "layout" => a.layout[2] \in Int, NEW w,
         w = [id |-> w.id, sess |-> w.sess, index |-> w.index,
              panes |-> w.panes, deco |-> w.deco, layout |-> w.layout],
         GoodWindow(w), Len(w.panes) \in 1 .. w.layout[2]
  PROVE  LET v == After(a, w)
         IN  /\ v = [id |-> w.id, sess |-> w.sess, index |-> w.index,
                     panes |-> v.panes, deco |-> v.deco, layout |-> v.layout]
             /\ GoodWindow(v) /\ Len(v.panes) \in 1 .. v.layout[2]
<1> DEFINE more == Append(w.panes, Pane(a.run))
<1>1. Len(w.panes) \in Nat /\ IsSeq(more) /\ Len(more) = Len(w.panes) + 1
  <2> DEFINE ps == w.panes
             p  == Pane(a.run)
             A  == {ps[i] : i \in DOMAIN ps} \cup {p}
  <2>1. ps \in Seq(A) /\ p \in A
    BY DEF GoodWindow, IsSeq
  <2> HIDE DEF ps, p, A
  <2>2. Append(ps, p) \in Seq(A) /\ Len(Append(ps, p)) = Len(ps) + 1 /\ Len(ps) \in Nat
    BY <2>1
  <2>3. QED
    BY <2>2, IsSeqOfAnything DEF ps, p
<1> HIDE DEF more
<1>2. CASE a.op = "split" /\ Len(w.panes) < Room
  <2>1. After(a, w) = [id |-> w.id, sess |-> w.sess, index |-> w.index,
                       panes |-> more, deco |-> w.deco, layout |-> <<"even", Len(w.panes) + 1>>]
    BY <1>2 DEF After, more
  <2>2. QED
    BY <1>1, <2>1 DEF GoodWindow
<1>3. CASE ~(a.op = "split" /\ Len(w.panes) < Room) /\ a.op = "layout" /\ Len(w.panes) <= a.layout[2]
  <2>1. After(a, w) = [id |-> w.id, sess |-> w.sess, index |-> w.index,
                       panes |-> w.panes, deco |-> w.deco, layout |-> a.layout]
    BY <1>3 DEF After
  <2>2. QED
    BY <1>1, <1>3, <2>1 DEF GoodWindow
<1>4. CASE ~(a.op = "split" /\ Len(w.panes) < Room) /\ ~(a.op = "layout" /\ Len(w.panes) <= a.layout[2])
  <2>1. \/ After(a, w) = w
        \/ After(a, w) = [id |-> w.id, sess |-> w.sess, index |-> w.index,
                          panes |-> w.panes, deco |-> a.value, layout |-> w.layout]
    BY <1>4 DEF After
  <2>2. QED
    BY <1>1, <2>1 DEF GoodWindow
<1>5. QED
  BY <1>2, <1>3, <1>4

LEMMA CreateWindowInv ==
  ASSUME IInv, Applying, cmd.plan # <<>>, Head(cmd.plan).op = "window",
         CreateWindow(Head(cmd.plan)), UNCHANGED <<clock, rows, auto>>
  PROVE  IInv'
<1> DEFINE a == Head(cmd.plan)
<1>1. ServerInv /\ RowsInv /\ ApplyInv
  BY DEF IInv, CmdInv
<1>2. a = cmd.plan[1] /\ Ready(cmd.plan, 1, cmd.failed, cmd.old, windows)
  BY <1>1, FirstAction
<1>3. a.at = <<a.at[1], a.at[2]>> /\ a.at[1] \in Name /\ a.at[2] \in Int
  BY <1>2 DEF Ready
<1> HIDE DEF a
<1>4. CASE At(a.at) = {} /\ (a.newSession \/ a.at[1] \in Live)
  <2> DEFINE w == Fresh(a, a.at)
  <2>1. windows' = windows \cup {w} /\ Numbered /\ cmd' = [cmd EXCEPT !.plan = Tail(@)]
    BY <1>4 DEF CreateWindow, a
  <2>2. /\ w = [id |-> server.next, sess |-> w.sess, index |-> w.index,
                panes |-> w.panes, deco |-> w.deco, layout |-> w.layout]
        /\ w.sess = a.at[1] /\ w.index = a.at[2] /\ w.layout[2] = 1 /\ w.panes = <<Pane(a.run)>>
    BY DEF Fresh
  <2>3. GoodWindow(w) /\ Len(w.panes) \in 1 .. w.layout[2]
    <3> DEFINE p == Pane(a.run)
    <3>1. w.panes = <<p>>
      BY <2>2
    <3> HIDE DEF p
    <3>2. <<p>> \in Seq({p}) /\ Len(<<p>>) = 1
      OBVIOUS
    <3>3. IsSeq(w.panes) /\ Len(w.panes) = 1
      BY <3>1, <3>2, IsSeqOfAnything
    <3>4. QED
      BY <1>3, <2>2, <3>3 DEF GoodWindow
  <2>4. \A v \in windows : <<v.sess, v.index>> # <<w.sess, w.index>>
    BY <1>3, <1>4, <2>2 DEF At
  <2> HIDE DEF w
  <2>5. ServerInv'
    BY <1>1, <1>3, <2>1, <2>2, <2>3, <2>4, OneMoreWindow
  <2>6. /\ server'.n = server.n /\ server'.start = server.start /\ server'.next = server.next + 1
        /\ server.next \in Int
    BY <1>1, <2>1 DEF Numbered, ServerInv
  <2>7. RowsInv'
    BY <1>1, <2>6, RowsFrame
  <2>8. w.id \notin cmd.old
    BY <1>1, <2>2 DEF ApplyInv, ServerInv
  <2>9. cmd' = Onward(cmd.failed)
    BY <1>1, <2>1, OnwardIs
  <2>10. \A v \in windows' : <<v.sess, v.index>> = a.at => v.id \notin cmd.old
    BY <1>4, <2>1, <2>8 DEF At
  <2>11. CmdInv'
    BY <1>1, <1>2, <2>1, <2>6, <2>8, <2>9, <2>10, ApplyFrame
  <2>12. QED
    BY <2>5, <2>7, <2>11 DEF IInv
<1>5. CASE ~(At(a.at) = {} /\ (a.newSession \/ a.at[1] \in Live))
  <2>1. /\ windows' = windows /\ server' = server
        /\ cmd' = Onward(cmd.failed \cup {a.at})
    BY <1>1, <1>5, OnwardIs DEF CreateWindow, a
  <2>2. ServerInv' /\ RowsInv'
    BY <1>1, <2>1 DEF ServerInv, RowsInv, Stamped, Onward, Applying
  <2>3. server.next \in Int
    BY <1>1 DEF ServerInv
  <2>4. CmdInv'
    BY <1>1, <1>2, <2>1, <2>3, ApplyFrame
  <2>5. QED
    BY <2>2, <2>4 DEF IInv
<1>6. QED
  BY <1>4, <1>5

LEMMA ArrangeInv ==
  ASSUME IInv, Applying, cmd.plan # <<>>, Head(cmd.plan).op # "window",
         Arrange(Head(cmd.plan)), UNCHANGED <<clock, rows, auto>>
  PROVE  IInv'
<1> DEFINE a == Head(cmd.plan)
           g(w) == IF a.at \notin cmd.failed /\ w \in At(a.at) THEN After(a, w) ELSE w
<1>1. ServerInv /\ RowsInv /\ ApplyInv
  BY DEF IInv, CmdInv
<1>2. a = cmd.plan[1] /\ Ready(cmd.plan, 1, cmd.failed, cmd.old, windows)
  BY <1>1, FirstAction
<1>3. windows' = {g(w) : w \in windows} /\ server' = server /\ cmd' = [cmd EXCEPT !.plan = Tail(@)]
  BY DEF Arrange, At
<1>4. a.op = "layout" => a.layout[2] \in Int
  BY <1>2 DEF Ready
<1> HIDE DEF a
<1>5. ASSUME NEW w \in windows
      PROVE  /\ g(w) = [id |-> w.id, sess |-> w.sess, index |-> w.index,
                        panes |-> g(w).panes, deco |-> g(w).deco, layout |-> g(w).layout]
             /\ GoodWindow(g(w)) /\ Len(g(w).panes) \in 1 .. g(w).layout[2]
  BY <1>1, <1>4, AfterKeeps DEF ServerInv
<1> HIDE DEF g
<1>6. \A w \in windows : g(w).id = w.id /\ g(w).sess = w.sess /\ g(w).index = w.index
  BY <1>5
<1>7. IsFiniteSet(windows')
  <2> DEFINE f == [w \in windows |-> g(w)]
  <2>1. f \in Surjection(windows, windows')
    BY <1>3 DEF Surjection
  <2> HIDE DEF f
  <2>2. QED
    BY <1>1, <2>1, FS_Surjection DEF ServerInv
<1>8. \A v \in windows' :
        /\ v = [id |-> v.id, sess |-> v.sess, index |-> v.index,
                panes |-> v.panes, deco |-> v.deco, layout |-> v.layout]
        /\ v.id \in Int /\ v.id < server.next /\ v.sess \in Name
        /\ GoodWindow(v) /\ Len(v.panes) \in 1 .. v.layout[2]
  BY <1>1, <1>3, <1>5, <1>6 DEF ServerInv
<1>9. \A u, v \in windows' : u = v \/ (u.id # v.id /\ <<u.sess, u.index>> # <<v.sess, v.index>>)
  BY <1>1, <1>3, <1>6 DEF ServerInv
<1>10. windows' # {}
  BY <1>1, <1>3 DEF ServerInv, Applying
<1>11. ServerInv' /\ RowsInv'
  BY <1>1, <1>3, <1>7, <1>8, <1>9, <1>10 DEF ServerInv, RowsInv, Stamped
<1>12. cmd' = Onward(cmd.failed) /\ server.next \in Int
  BY <1>1, <1>3, OnwardIs DEF ServerInv
<1>13. \A w \in windows' : \E v \in windows : v.id = w.id /\ v.sess = w.sess /\ v.index = w.index
  BY <1>3, <1>6
<1>14. CmdInv'
  BY <1>1, <1>2, <1>3, <1>12, <1>13, ApplyFrame DEF a
<1>15. QED
  BY <1>11, <1>14 DEF IInv

LEMMA ApplyStepInv ==
  ASSUME IInv, ApplyStep
  PROVE  IInv'
<1>1. /\ Applying /\ cmd.plan # <<>> /\ UNCHANGED <<clock, rows, auto>>
      /\ IF Head(cmd.plan).op = "window" THEN CreateWindow(Head(cmd.plan)) ELSE Arrange(Head(cmd.plan))
  BY DEF ApplyStep
<1>2. QED
  BY <1>1, CreateWindowInv, ArrangeInv

\* The steps that leave server and rows alone and no restore under way.
LEMMA RestInv ==
  ASSUME IInv, Applied \/ UNCHANGED vars
  PROVE  IInv'
<1>1. /\ ServerInv /\ RowsInv /\ CmdInv /\ UNCHANGED <<windows, server, clock, rows, auto>>
      /\ cmd' = cmd \/ (Applying /\ cmd' = Idle)
  BY DEF IInv, Applied, vars, tmux
<1>2. ServerInv' /\ RowsInv'
  BY <1>1 DEF ServerInv, RowsInv, Stamped, Applying, Idle
<1>3. CmdInv'
  BY <1>1 DEF CmdInv, ApplyInv, Stamped, Applying, Saving, Idle
<1>4. QED
  BY <1>2, <1>3 DEF IInv

\* The inductive invariant: windows, rows and plan are what the code makes
\* them, and every action of a plan that is left is about a window the restore
\* will create, could not create, or has created.
THEOREM Invariance == Spec => []IInv
<1>1. Init => IInv
  BY InitInv
<1>2. IInv /\ [Next]_vars => IInv'
  BY UserInv, TickInv, SaveInv, RestoreInv, PickInv, ApplyStepInv, RestInv DEF Next
<1>3. QED
  BY <1>1, <1>2, PTL DEF Spec
-----------------------------------------------------------------------------
\* Whatever the user, the saves and the restores do, an id names one window,
\* an index of a session holds one, every layout has a cell for every pane,
\* and restore and picker run on a live server only.
THEOREM TypeCorrect == Spec => []TypeOK
<1>1. IInv => TypeOK
  <2>1. SUFFICES ASSUME IInv PROVE TypeOK
    OBVIOUS
  <2>2. ServerInv /\ CmdInv
    BY <2>1 DEF IInv
  <2>3. QED
    BY <2>2 DEF TypeOK, ServerInv, CmdInv
<1>2. QED
  BY <1>1, Invariance, PTL

\* `restore`, --auto or by hand, never takes what a save stored that began
\* under its own server (main.go: "snapshots written by the current server's
\* own save hooks"): however long a second is and however fast saves and
\* server births follow each other.
THEOREM AnchorIsPast == Spec => []AutoPicksThePast
<1>1. IInv => AutoPicksThePast
  BY DEF IInv, CmdInv, ApplyInv, AutoPicksThePast
<1>2. QED
  BY <1>1, Invariance, PTL

\* Apply (apply.go: "land on whatever unrelated live window happens to sit
\* there") leaves every window alone that was there when it began, for every
\* snapshot, filter, set of running sessions and user.
THEOREM OldWindowsStay == Spec => OldWindowsUntouched
<1>1. ASSUME IInv, ApplyStep, NEW w \in windows, w.id \in cmd.old
      PROVE  w \in windows'
  <2> DEFINE a == Head(cmd.plan)
  <2>1. /\ Applying /\ cmd.plan # <<>>
        /\ IF a.op = "window" THEN CreateWindow(a) ELSE Arrange(a)
    BY <1>1 DEF ApplyStep
  <2>2. a = cmd.plan[1] /\ Ready(cmd.plan, 1, cmd.failed, cmd.old, windows)
    BY <1>1, <2>1, FirstAction DEF IInv, CmdInv
  <2> HIDE DEF a
  <2>3. CASE a.op = "window"
    BY <2>1, <2>3 DEF CreateWindow
  <2>4. CASE a.op # "window"
    <3>1. windows' = IF a.at \in cmd.failed THEN windows
                     ELSE (windows \ At(a.at)) \cup {After(a, v) : v \in At(a.at)}
      BY <2>1, <2>4 DEF Arrange
    <3>2. a.at \in cmd.failed \/ w \notin At(a.at)
      BY <1>1, <2>2, <2>4 DEF Ready, At
    <3>3. QED
      BY <3>1, <3>2
  <2>5. QED
    BY <2>3, <2>4
<1>2. IInv /\ [Next]_vars => [ApplyStep => \A w \in windows : w.id \in cmd.old => w \in windows']_vars
  BY <1>1
<1>3. QED
  BY <1>2, Invariance, PTL DEF Spec, OldWindowsUntouched
-----------------------------------------------------------------------------
(* Plans, window by window.  The actions about one window, among those of a *)
(* plan, are the actions of that window, in order.                          *)

About(plan, p) == FlattenSeq([i \in DOMAIN plan |-> IF plan[i].at = p THEN <<plan[i]>> ELSE <<>>])

OnPlace(A, p) == [a \in A |-> IF a.at = p THEN <<a>> ELSE <<>>]

LEMMA AboutIs ==
  ASSUME NEW A, NEW plan \in Seq(A), NEW p
  PROVE  /\ Maps(OnPlace(A, p), A, A)
         /\ About(plan, p) = FlatMap(OnPlace(A, p), plan)
         /\ About(plan, p) \in Seq(A)
<1> DEFINE F == OnPlace(A, p)
<1>1. Maps(F, A, A)
  <2>1. ASSUME NEW a \in A PROVE F[a] \in Seq(A)
    <3>1. <<>> \in Seq(A) /\ <<a>> \in Seq(A)
      OBVIOUS
    <3>2. F[a] = IF a.at = p THEN <<a>> ELSE <<>>
      BY DEF OnPlace
    <3> HIDE DEF F
    <3>3. QED
      BY <3>1, <3>2
  <2>2. QED
    BY <2>1 DEF Maps, OnPlace
<1>2. \A i \in DOMAIN plan : F[plan[i]] = IF plan[i].at = p THEN <<plan[i]>> ELSE <<>>
  BY DEF OnPlace
<1>3. About(plan, p) = FlatMap(F, plan)
  BY <1>2 DEF About, FlatMap
<1>4. QED
  BY <1>1, <1>3, FlatMapSteps

LEMMA AboutNone ==
  ASSUME NEW plan, IsSeq(plan), NEW p, \A i \in 1 .. Len(plan) : plan[i].at # p
  PROVE  About(plan, p) = <<>>
<1> DEFINE seqs == [i \in DOMAIN plan |-> IF plan[i].at = p THEN <<plan[i]>> ELSE <<>>]
           n == Len(plan)
<1>1. n \in Nat /\ DOMAIN plan = 1 .. n
  BY IsSeqDomain
<1>2. seqs = [i \in 1 .. n |-> <<>>]
  BY <1>1
<1>3. About(plan, p) = FlattenSeq(seqs)
  BY DEF About
<1> HIDE DEF seqs, n
<1>4. QED
  BY <1>1, <1>2, <1>3, FlattenNothing

LEMMA AboutAll ==
  ASSUME NEW plan, IsSeq(plan), NEW p, \A i \in 1 .. Len(plan) : plan[i].at = p
  PROVE  About(plan, p) = plan
<1> DEFINE A == {plan[i] : i \in DOMAIN plan}
           F == OnPlace(A, p)
           R == [a \in A |-> a]
<1>1. plan \in Seq(A) /\ DOMAIN plan = 1 .. Len(plan)
  BY IsSeqDomain DEF IsSeq
<1>2. \A a \in A : a.at = p
  BY <1>1
<1>3. MapsOne(F, A, R)
  BY <1>2 DEF MapsOne, OnPlace
<1>4. Mapped(plan, R) = plan
  <2>1. \A i \in DOMAIN plan : R[plan[i]] = plan[i]
    OBVIOUS
  <2> HIDE DEF R, A
  <2>2. plan = [i \in DOMAIN plan |-> plan[i]]
    BY <1>1
  <2>3. QED
    BY <2>1, <2>2 DEF Mapped
<1> HIDE DEF A, R
<1>5. Maps(F, A, A) /\ About(plan, p) = FlatMap(F, plan)
  BY <1>1, AboutIs
<1> HIDE DEF F
<1>6. FlatMap(F, plan) = Mapped(plan, R)
  BY <1>1, <1>3, <1>5, FlatMapIsMap
<1>7. QED
  BY <1>4, <1>5, <1>6

LEMMA AboutFirst ==
  ASSUME NEW plan, IsSeq(plan), plan # <<>>, NEW p
  PROVE  /\ Head(plan).at = p => About(plan, p) = <<Head(plan)>> \o About(Tail(plan), p)
         /\ Head(plan).at # p => About(plan, p) = About(Tail(plan), p)
         /\ IsSeq(About(Tail(plan), p))
<1> DEFINE A == {plan[i] : i \in DOMAIN plan}
           F == OnPlace(A, p)
           a == Head(plan)
           rest == Tail(plan)
<1>1. plan \in Seq(A)
  BY DEF IsSeq
<1> HIDE DEF A
<1>2. a \in A /\ rest \in Seq(A) /\ <<a>> \in Seq(A) /\ plan = <<a>> \o rest
  <2>1. a \in A /\ rest \in Seq(A) /\ plan = <<a>> \o rest
    BY <1>1
  <2> HIDE DEF a
  <2>2. <<a>> \in Seq(A)
    BY <2>1
  <2>3. QED
    BY <2>1, <2>2
<1>3. F[a] = IF a.at = p THEN <<a>> ELSE <<>>
  BY <1>2 DEF OnPlace
<1> HIDE DEF F, a, rest
<1>4. /\ Maps(F, A, A) /\ About(plan, p) = FlatMap(F, plan)
      /\ About(rest, p) = FlatMap(F, rest) /\ About(rest, p) \in Seq(A)
  BY <1>1, <1>2, AboutIs DEF F
<1>5. InParts(F, A) /\ FlatMap(F, <<a>>) = F[a]
  BY <1>2, <1>4, FlatMapConcat, FlatMapOne
<1>6. FlatMap(F, <<a>> \o rest) = FlatMap(F, <<a>>) \o FlatMap(F, rest)
  BY <1>2, <1>5 DEF InParts
<1>7. About(plan, p) = F[a] \o About(rest, p)
  BY <1>2, <1>4, <1>5, <1>6
<1>8. <<>> \o About(rest, p) = About(rest, p)
  <2> DEFINE u == About(rest, p)
  <2>1. u \in Seq(A)
    BY <1>4
  <2> HIDE DEF u
  <2>2. <<>> \o u = u
    BY <2>1
  <2>3. QED
    BY <2>2 DEF u
<1>9. IsSeq(About(rest, p))
  BY <1>4, IsSeqOfAnything
<1>10. a.at = p => About(plan, p) = <<a>> \o About(rest, p)
  BY <1>3, <1>7
<1>11. a.at # p => About(plan, p) = About(rest, p)
  BY <1>3, <1>7, <1>8
<1>12. QED
  BY <1>9, <1>10, <1>11 DEF a, rest

\* Plans in a row have their elements in common.
LEMMA PartsAre ==
  ASSUME NEW plans, IsSeq(plans), \A i \in 1 .. Len(plans) : IsSeq(plans[i])
  PROVE  LET A == UNION {{plans[i][j] : j \in 1 .. Len(plans[i])} : i \in 1 .. Len(plans)}
         IN  /\ PartsOf(plans, Len(plans), A) /\ plans \in Seq(Seq(A))
             /\ FlattenSeq(plans) \in Seq(A)
<1> DEFINE A == UNION {{plans[i][j] : j \in 1 .. Len(plans[i])} : i \in 1 .. Len(plans)}
           n == Len(plans)
<1>1. n \in Nat /\ DOMAIN plans = 1 .. n
  BY IsSeqDomain
<1>2. \A i \in 1 .. n : plans[i] \in Seq(A)
  <2> TAKE i \in 1 .. n
  <2>1. plans[i] \in Seq({plans[i][j] : j \in DOMAIN plans[i]}) /\ DOMAIN plans[i] = 1 .. Len(plans[i])
    BY IsSeqDomain DEF IsSeq
  <2>2. {plans[i][j] : j \in DOMAIN plans[i]} \subseteq A
    BY <2>1
  <2> HIDE DEF A
  <2>3. QED
    BY <2>1, <2>2
<1> HIDE DEF A
<1>3. plans = [i \in 1 .. n |-> plans[i]]
  BY <1>1 DEF IsSeq
<1> HIDE DEF n
<1>4. plans \in [1 .. n -> Seq(A)]
  BY <1>2, <1>3
<1>5. plans \in Seq(Seq(A))
  BY <1>1, <1>4
<1>6. FlattenSeq(plans) \in Seq(A)
  BY <1>1, <1>2, <1>3, FlattenSeqType
<1>7. QED
  BY <1>4, <1>5, <1>6 DEF PartsOf, A, n

LEMMA AboutFlatten ==
  ASSUME NEW plans, IsSeq(plans), \A i \in 1 .. Len(plans) : IsSeq(plans[i]), NEW p
  PROVE  /\ About(FlattenSeq(plans), p) = FlattenSeq([i \in 1 .. Len(plans) |-> About(plans[i], p)])
         /\ \A k \in 1 .. Len(plans) :
              (\A i \in 1 .. Len(plans) : i # k => About(plans[i], p) = <<>>)
                => About(FlattenSeq(plans), p) = About(plans[k], p)
<1> DEFINE A == UNION {{plans[i][j] : j \in 1 .. Len(plans[i])} : i \in 1 .. Len(plans)}
           n == Len(plans)
           F == OnPlace(A, p)
           seqs == [i \in 1 .. n |-> About(plans[i], p)]
<1>1. plans \in Seq(Seq(A)) /\ FlattenSeq(plans) \in Seq(A) /\ n \in Nat /\ DOMAIN plans = 1 .. n
  <2>1. plans \in Seq(Seq(A)) /\ FlattenSeq(plans) \in Seq(A)
    BY PartsAre
  <2> HIDE DEF A
  <2>2. QED
    BY <2>1, IsSeqDomain
<1> HIDE DEF A
<1>2. \A i \in 1 .. n : plans[i] \in Seq(A)
  BY <1>1
<1>3. \A i \in 1 .. n : About(plans[i], p) = FlatMap(F, plans[i]) /\ About(plans[i], p) \in Seq(A)
  BY <1>2, AboutIs
<1>4. Maps(F, A, A) /\ About(FlattenSeq(plans), p) = FlatMap(F, FlattenSeq(plans))
  BY <1>1, AboutIs
<1> HIDE DEF F
<1>5. FlatMap(F, FlattenSeq(plans)) = FlattenSeq([i \in DOMAIN plans |-> FlatMap(F, plans[i])])
  BY <1>1, <1>4, FlatMapFlatten
<1>6. [i \in DOMAIN plans |-> FlatMap(F, plans[i])] = seqs
  BY <1>1, <1>3
<1>7. About(FlattenSeq(plans), p) = FlattenSeq(seqs)
  BY <1>4, <1>5, <1>6
<1>8. PartsOf(seqs, n, A)
  BY <1>3 DEF PartsOf
<1>9. \A i \in 1 .. n : seqs[i] = About(plans[i], p)
  OBVIOUS
<1> HIDE DEF seqs
<1>10. ASSUME NEW k \in 1 .. n, \A i \in 1 .. n : i # k => About(plans[i], p) = <<>>
       PROVE  FlattenSeq(seqs) = About(plans[k], p)
  <2>1. \A i \in 1 .. n : i # k => seqs[i] = <<>>
    BY <1>9, <1>10
  <2>2. n \in Nat
    BY <1>1
  <2> HIDE DEF n
  <2>3. FlattenSeq(seqs) = seqs[k]
    BY <1>8, <2>1, <2>2, FlattenOnlyOne
  <2>4. QED
    BY <1>9, <2>3
<1>11. QED
  BY <1>7, <1>10 DEF seqs, n

PanesKept(f, w) == {i \in DOMAIN w.panes : ~SkipPane(f, w.panes[i])}

\* The panes of a window that are restored, in their order.
LEMMA KeptPanesAre ==
  ASSUME NEW f, NEW w, IsSeq(w.panes)
  PROVE  LET K == PanesKept(f, w)
             kept == KeptPanes(f, w)
         IN  /\ IsSeq(kept) /\ Len(kept) = Cardinality(K)
             /\ \A i \in K : Position(K, i) \in 1 .. Cardinality(K) /\ kept[Position(K, i)] = w.panes[i]
             /\ \A i, j \in K : Position(K, i) = Position(K, j) => i = j
             /\ \A r \in 1 .. Cardinality(K) : \E i \in K : Position(K, i) = r
             /\ Len(kept) \in Nat
             /\ Kept(f, w) => Len(kept) # 0
             /\ ~Kept(f, w) => kept = <<>>
<1> DEFINE K == PanesKept(f, w)
           ps == w.panes
           A == {ps[i] : i \in DOMAIN ps}
           kept == KeptPanes(f, w)
<1>1. ps \in Seq(A) /\ K \in SUBSET DOMAIN ps
  BY DEF IsSeq, PanesKept
<1>2. kept = Chosen(ps, K)
  <2>1. \A i \in DOMAIN ps : i \in K <=> ~SkipPane(f, ps[i])
    BY DEF PanesKept
  <2>2. [i \in DOMAIN ps |-> IF SkipPane(f, ps[i]) THEN <<>> ELSE <<ps[i]>>]
          = [i \in DOMAIN ps |-> IF i \in K THEN <<ps[i]>> ELSE <<>>]
    <3> HIDE DEF K
    <3> QED
      BY <2>1
  <2>3. QED
    BY <2>2 DEF KeptPanes, Chosen
<1>3. Kept(f, w) <=> K # {}
  BY DEF Kept, PanesKept
<1> HIDE DEF K, ps, A, kept
<1>4. /\ kept \in Seq(A) /\ Len(kept) = Cardinality(K)
      /\ \A i \in K : Position(K, i) \in 1 .. Cardinality(K) /\ kept[Position(K, i)] = ps[i]
  BY <1>1, <1>2, ChosenInOrder
<1>5. /\ IsFiniteSet(K) /\ Cardinality(K) \in Nat
      /\ \A i, j \in K : Position(K, i) = Position(K, j) => i = j
      /\ \A r \in 1 .. Cardinality(K) : \E i \in K : Position(K, i) = r
  BY <1>1, ChosenRanks
<1>6. IsSeq(kept)
  BY <1>4, IsSeqOfAnything
<1>7. Kept(f, w) => Len(kept) # 0
  BY <1>3, <1>4, <1>5, FS_EmptySet
<1>8. ~Kept(f, w) => kept = <<>>
  <2>1. ~Kept(f, w) => Len(kept) = 0
    BY <1>3, <1>4, FS_EmptySet
  <2>2. QED
    BY <1>4, <2>1
<1>9. QED
  BY <1>4, <1>5, <1>6, <1>7, <1>8 DEF K, kept, ps

\* As many panes as fit, started as the first so many that are kept were.
Fitting(n) == IF n < Room THEN n ELSE Room
Filled(f, w, n) == [k \in 1 .. Fitting(n) |-> Pane(Startup(KeptPanes(f, w)[k]))]

LEMMA ComesBackIs ==
  ASSUME NEW f, NEW w, IsSeq(w.panes)
  PROVE  ComesBack(f, w) = Filled(f, w, Len(KeptPanes(f, w)))
<1> DEFINE K == PanesKept(f, w)
           nth(k) == CHOOSE i \in K : Position(K, i) = k
           n == IF Cardinality(K) < Room THEN Cardinality(K) ELSE Room
           kept == KeptPanes(f, w)
<1>1. /\ Len(kept) = Cardinality(K) /\ Cardinality(K) \in Nat
      /\ \A i \in K : Position(K, i) \in 1 .. Cardinality(K) /\ kept[Position(K, i)] = w.panes[i]
      /\ \A i, j \in K : Position(K, i) = Position(K, j) => i = j
      /\ \A r \in 1 .. Cardinality(K) : \E i \in K : Position(K, i) = r
  BY KeptPanesAre
<1>2. ComesBack(f, w) = [k \in 1 .. n |-> Pane(Startup(w.panes[nth(k)]))]
  BY DEF ComesBack, PanesKept, Position
<1> HIDE DEF K, kept
<1>3. n \in Nat /\ n <= Cardinality(K) /\ n = Fitting(Len(kept))
  BY <1>1, RestoreAssumption DEF Fitting
<1>4. ASSUME NEW k \in 1 .. n PROVE w.panes[nth(k)] = kept[k]
  <2>1. \E i \in K : Position(K, i) = k
    BY <1>1, <1>3
  <2>2. nth(k) \in K /\ Position(K, nth(k)) = k
    BY <2>1
  <2> HIDE DEF nth
  <2>3. QED
    BY <1>1, <2>2
<1> HIDE DEF n, nth
<1>5. [k \in 1 .. n |-> Pane(Startup(w.panes[nth(k)]))] = [k \in 1 .. n |-> Pane(Startup(kept[k]))]
  BY <1>4
<1>6. QED
  BY <1>2, <1>3, <1>5 DEF Filled, kept

\* Where the elements of concatenated sequences are.
Joined(r, a, b) ==
  /\ Len(r) = Len(a) + Len(b) /\ Len(a) \in Nat /\ Len(b) \in Nat
  /\ \A i \in 1 .. Len(a) : r[i] = a[i]
  /\ \A i \in 1 .. Len(b) : r[Len(a) + i] = b[i]

JoinedFour(r, a, b, c, d) ==
  /\ Len(r) = Len(a) + Len(b) + Len(c) + Len(d)
  /\ \A i \in 1 .. Len(a) : r[i] = a[i]
  /\ \A i \in 1 .. Len(b) : r[Len(a) + i] = b[i]
  /\ \A i \in 1 .. Len(c) : r[Len(a) + Len(b) + i] = c[i]
  /\ \A i \in 1 .. Len(d) : r[Len(a) + Len(b) + Len(c) + i] = d[i]

LEMMA TwoInARow ==
  ASSUME NEW A, NEW a \in Seq(A), NEW b \in Seq(A)
  PROVE  a \o b \in Seq(A) /\ Joined(a \o b, a, b)
  BY DEF Joined

LEMMA FourInARow ==
  ASSUME NEW A, NEW a \in Seq(A), NEW b \in Seq(A), NEW c \in Seq(A), NEW d \in Seq(A),
         NEW r, r = ((a \o b) \o c) \o d
  PROVE  r \in Seq(A) /\ JoinedFour(r, a, b, c, d)
<1> DEFINE u == a \o b
           v == u \o c
<1>1. u \in Seq(A) /\ Joined(u, a, b)
  BY TwoInARow
<1> HIDE DEF u
<1>2. v \in Seq(A) /\ Joined(v, u, c)
  BY <1>1, TwoInARow
<1> HIDE DEF v
<1>3. r \in Seq(A) /\ Joined(r, v, d)
  BY <1>2, TwoInARow DEF u, v
<1>4. Len(u) = Len(a) + Len(b) /\ Len(v) = Len(u) + Len(c) /\ Len(r) = Len(v) + Len(d)
  BY <1>1, <1>2, <1>3 DEF Joined
<1>5. Len(a) \in Nat /\ Len(b) \in Nat /\ Len(c) \in Nat /\ Len(d) \in Nat
  BY <1>1, <1>2, <1>3 DEF Joined
<1>6. \A i \in 1 .. Len(v) : r[i] = v[i]
  BY <1>3 DEF Joined
<1>7. \A i \in 1 .. Len(u) : i \in 1 .. Len(v) /\ r[i] = u[i]
  BY <1>2, <1>4, <1>5, <1>6 DEF Joined
<1>8. \A i \in 1 .. Len(a) : r[i] = a[i]
  BY <1>1, <1>4, <1>5, <1>7 DEF Joined
<1>9. \A i \in 1 .. Len(b) : r[Len(a) + i] = b[i]
  <2> TAKE i \in 1 .. Len(b)
  <2>1. Len(a) + i \in 1 .. Len(u)
    BY <1>4, <1>5
  <2>2. QED
    BY <1>1, <1>7, <2>1 DEF Joined
<1>10. \A i \in 1 .. Len(c) : r[Len(a) + Len(b) + i] = c[i]
  <2> TAKE i \in 1 .. Len(c)
  <2>1. Len(u) + i \in 1 .. Len(v) /\ Len(a) + Len(b) + i = Len(u) + i
    BY <1>4, <1>5
  <2>2. QED
    BY <1>2, <1>6, <2>1 DEF Joined
<1>11. \A i \in 1 .. Len(d) : r[Len(a) + Len(b) + Len(c) + i] = d[i]
  BY <1>3, <1>4 DEF Joined
<1>12. QED
  BY <1>3, <1>4, <1>8, <1>9, <1>10, <1>11 DEF JoinedFour

Place(s, w) == <<s.name, w.index>>

\* One action for the decoration, where there is any.
Deco(w) == IF w.deco = "" THEN 0 ELSE 1

\* The actions of a window of n panes: its creation with the first of them,
\* its decoration, a split for each other pane, its layout.
InOrder(acts, p, first, w, panes) ==
  /\ IsSeq(acts) /\ Len(acts) = Deco(w) + Len(panes) + 1
  /\ \A i \in 1 .. Len(acts) : acts[i].at = p /\ (acts[i].op = "window" <=> i = 1)
  /\ acts[1].run = Startup(panes[1]) /\ acts[1].newSession = first
  /\ Deco(w) = 1 => acts[2].op = "option" /\ acts[2].value = w.deco
  /\ \A i \in Deco(w) + 2 .. Deco(w) + Len(panes) :
       acts[i].op = "split" /\ acts[i].run = Startup(panes[i - Deco(w)])
  /\ acts[Deco(w) + Len(panes) + 1].op = "layout"
  /\ acts[Deco(w) + Len(panes) + 1].layout = w.layout

LEMMA WindowActionsAre ==
  ASSUME NEW f, NEW s, NEW w, NEW first, IsSeq(w.panes), Kept(f, w)
  PROVE  InOrder(WindowActions(f, s, w, first), Place(s, w), first, w, KeptPanes(f, w))
<1> DEFINE at   == Place(s, w)
           kept == KeptPanes(f, w)
           n    == Len(kept)
           x == [op |-> "window", at |-> at, run |-> Startup(kept[1]), newSession |-> first]
           y == [op |-> "option", at |-> at, value |-> w.deco]
           z == [op |-> "layout", at |-> at, layout |-> w.layout]
           create == <<x>>
           option == IF w.deco = "" THEN <<>> ELSE <<y>>
           split  == [i \in 1 .. n - 1 |-> [op |-> "split", at |-> at, run |-> Startup(kept[i + 1])]]
           layout == <<z>>
           A == {x, y, z} \cup {split[i] : i \in 1 .. n - 1}
           acts == WindowActions(f, s, w, first)
<1>1. acts = ((create \o option) \o split) \o layout
  BY DEF WindowActions, Place
<1>2. n \in Nat \ {0}
  BY KeptPanesAre
<1>3. /\ x.op = "window" /\ x.at = at /\ x.run = Startup(kept[1]) /\ x.newSession = first
      /\ y.op = "option" /\ y.at = at /\ y.value = w.deco
      /\ z.op = "layout" /\ z.at = at /\ z.layout = w.layout
      /\ \A i \in 1 .. n - 1 : split[i].op = "split" /\ split[i].at = at /\ split[i].run = Startup(kept[i + 1])
  OBVIOUS
<1>4. /\ x \in A /\ y \in A /\ z \in A /\ \A i \in 1 .. n - 1 : split[i] \in A
      /\ split = [i \in 1 .. n - 1 |-> split[i]]
  OBVIOUS
<1> HIDE DEF A, x, y, z, split, kept, n, at, acts
<1>5. /\ create \in Seq(A) /\ Len(create) = 1 /\ create[1] = x
      /\ layout \in Seq(A) /\ Len(layout) = 1 /\ layout[1] = z
  BY <1>4
<1>6. /\ option \in Seq(A) /\ Len(option) = Deco(w)
      /\ Deco(w) = 1 => option[1] = y
  <2>1. CASE w.deco = ""
    <3>1. option = <<>> /\ Deco(w) = 0
      BY <2>1 DEF Deco
    <3> HIDE DEF option
    <3>2. QED
      BY <3>1
  <2>2. CASE w.deco # ""
    <3>1. option = <<y>> /\ Deco(w) = 1
      BY <2>2 DEF Deco
    <3> HIDE DEF option
    <3>2. <<y>> \in Seq(A) /\ Len(<<y>>) = 1 /\ <<y>>[1] = y
      BY <1>4
    <3>3. QED
      BY <3>1, <3>2
  <2>3. QED
    BY <2>1, <2>2
<1>7. split \in Seq(A) /\ Len(split) = n - 1
  <2>1. n - 1 \in Nat
    BY <1>2
  <2>2. QED
    BY <1>4, <2>1
<1>8. Deco(w) \in {0, 1}
  BY DEF Deco
<1> HIDE DEF create, option, layout
<1>9. /\ acts \in Seq(A) /\ Len(acts) = 1 + Deco(w) + (n - 1) + 1
      /\ acts[1] = x
      /\ Deco(w) = 1 => acts[2] = y
      /\ \A i \in 1 .. n - 1 : acts[1 + Deco(w) + i] = split[i]
      /\ acts[1 + Deco(w) + (n - 1) + 1] = z
  <2>1. /\ acts \in Seq(A) /\ Len(acts) = Len(create) + Len(option) + Len(split) + Len(layout)
        /\ \A i \in 1 .. Len(create) : acts[i] = create[i]
        /\ \A i \in 1 .. Len(option) : acts[Len(create) + i] = option[i]
        /\ \A i \in 1 .. Len(split) : acts[Len(create) + Len(option) + i] = split[i]
        /\ \A i \in 1 .. Len(layout) : acts[Len(create) + Len(option) + Len(split) + i] = layout[i]
    <3>1. create \in Seq(A) /\ option \in Seq(A) /\ split \in Seq(A) /\ layout \in Seq(A)
      BY <1>5, <1>6, <1>7
    <3>2. acts \in Seq(A) /\ JoinedFour(acts, create, option, split, layout)
      BY <1>1, <3>1, FourInARow
    <3>3. QED
      BY <3>2 DEF JoinedFour
  <2>2. acts[1] = x /\ acts[1 + Deco(w) + (n - 1) + 1] = z
    BY <1>5, <1>6, <1>7, <2>1
  <2>3. Deco(w) = 1 => acts[2] = y
    BY <1>5, <1>6, <2>1
  <2>4. \A i \in 1 .. n - 1 : acts[1 + Deco(w) + i] = split[i]
    BY <1>5, <1>6, <1>7, <2>1
  <2>5. QED
    BY <1>5, <1>6, <1>7, <2>1, <2>2, <2>3, <2>4
<1> DEFINE d == Deco(w)
<1> HIDE DEF d
<1>10. /\ d \in {0, 1} /\ Len(acts) = d + n + 1 /\ acts[1] = x /\ (d = 1 => acts[2] = y)
       /\ acts[d + n + 1] = z
  <2>1. 1 + d + (n - 1) + 1 = d + n + 1 /\ d \in {0, 1}
    BY <1>2, <1>8 DEF d
  <2>2. QED
    BY <1>9, <2>1 DEF d
<1>11. \A i \in d + 2 .. d + n : acts[i] = split[i - d - 1] /\ i - d - 1 \in 1 .. n - 1 /\ (i - d - 1) + 1 = i - d
  <2> TAKE i \in d + 2 .. d + n
  <2>1. i - d - 1 \in 1 .. n - 1 /\ 1 + d + (i - d - 1) = i /\ (i - d - 1) + 1 = i - d
    BY <1>2, <1>10
  <2>2. QED
    BY <1>9, <2>1 DEF d
<1>12. \A i \in 1 .. Len(acts) : acts[i].at = at /\ (acts[i].op = "window" <=> i = 1)
  <2> TAKE i \in 1 .. Len(acts)
  <2>1. i = 1 \/ (d = 1 /\ i = 2) \/ i \in d + 2 .. d + n \/ i = d + n + 1
    BY <1>2, <1>10
  <2>2. CASE i = 1
    BY <1>3, <1>10, <2>2
  <2>3. CASE d = 1 /\ i = 2
    BY <1>3, <1>10, <2>3
  <2>4. CASE i \in d + 2 .. d + n
    <3>1. i # 1
      BY <1>10, <2>4
    <3>2. QED
      BY <1>3, <1>11, <2>4, <3>1
  <2>5. CASE i = d + n + 1
    <3>1. i # 1
      BY <1>2, <1>10, <2>5
    <3>2. QED
      BY <1>3, <1>10, <2>5, <3>1
  <2>6. QED
    BY <2>1, <2>2, <2>3, <2>4, <2>5
<1>13. \A i \in d + 2 .. d + n : acts[i].op = "split" /\ acts[i].run = Startup(kept[i - d])
  BY <1>3, <1>11
<1>14. IsSeq(acts)
  BY <1>9, IsSeqOfAnything
<1>15. QED
  BY <1>3, <1>10, <1>12, <1>13, <1>14 DEF InOrder, acts, at, kept, n, d

\* A window that is created in a session that is there comes after another one
\* of its session.
Led(plan) ==
  /\ IsSeq(plan)
  /\ \A i \in 1 .. Len(plan) :
       plan[i].op = "window" /\ ~plan[i].newSession =>
         \E j \in 1 .. i - 1 : plan[j].op = "window" /\ plan[j].at[1] = plan[i].at[1]

LEMMA LedAppend ==
  ASSUME NEW p, NEW q, Led(p), Led(q)
  PROVE  Led(p \o q)
<1> DEFINE A == {p[i] : i \in DOMAIN p} \cup {q[i] : i \in DOMAIN q}
           r == p \o q
<1>1. p \in Seq(A) /\ q \in Seq(A)
  BY DEF Led, IsSeq
<1> HIDE DEF A
<1>2. r \in Seq(A) /\ Joined(r, p, q)
  BY <1>1, TwoInARow
<1> HIDE DEF r
<1>3. ASSUME NEW i \in 1 .. Len(r), r[i].op = "window" /\ ~r[i].newSession
      PROVE  \E j \in 1 .. i - 1 : r[j].op = "window" /\ r[j].at[1] = r[i].at[1]
  <2>1. CASE i \in 1 .. Len(p)
    <3>1. r[i] = p[i] /\ \A j \in 1 .. i - 1 : j \in 1 .. Len(p) /\ r[j] = p[j]
      BY <1>2, <2>1 DEF Joined
    <3>2. QED
      BY <1>3, <2>1, <3>1 DEF Led
  <2>2. CASE i \notin 1 .. Len(p)
    <3> DEFINE k == i - Len(p)
    <3>1. k \in 1 .. Len(q) /\ i = Len(p) + k /\ Len(p) \in Nat
      BY <1>2, <2>2 DEF Joined
    <3> HIDE DEF k
    <3>2. r[i] = q[k]
      BY <1>2, <3>1 DEF Joined
    <3>3. PICK j \in 1 .. k - 1 : q[j].op = "window" /\ q[j].at[1] = q[k].at[1]
      BY <1>3, <3>1, <3>2 DEF Led
    <3>4. j \in 1 .. Len(q) /\ Len(p) + j \in 1 .. i - 1
      BY <3>1
    <3>5. r[Len(p) + j] = q[j]
      BY <1>2, <3>4 DEF Joined
    <3>6. QED
      BY <3>2, <3>3, <3>4, <3>5
  <2>3. QED
    BY <2>1, <2>2
<1>4. QED
  BY <1>2, <1>3, IsSeqOfAnything DEF Led, r

LEMMA LedFlatten ==
  ASSUME NEW plans, IsSeq(plans), \A i \in 1 .. Len(plans) : Led(plans[i])
  PROVE  Led(FlattenSeq(plans))
<1> DEFINE A == UNION {{plans[i][j] : j \in 1 .. Len(plans[i])} : i \in 1 .. Len(plans)}
           P == {s \in Seq(A) : Led(s)}
<1>1. \A i \in 1 .. Len(plans) : IsSeq(plans[i])
  BY DEF Led
<1>2. plans \in Seq(Seq(A))
  BY <1>1, PartsAre
<1> HIDE DEF A
<1>3. \A i \in 1 .. Len(plans) : plans[i] \in P
  BY <1>2
<1>4. <<>> \in P
  BY DEF Led, IsSeq
<1>5. \A s, t \in P : s \o t \in P
  BY LedAppend
<1>6. P \in SUBSET Seq(A)
  OBVIOUS
<1> HIDE DEF P
<1>7. FlattenSeq(plans) \in P
  BY <1>2, <1>3, <1>4, <1>5, <1>6, FlattenSeqClosed
<1>8. QED
  BY <1>7 DEF P

\* The windows of a session that are planned are those of which a pane is kept.
LEMMA PlannedWindowsAre ==
  ASSUME NEW f, NEW s, GoodSession(s)
  PROVE  LET ws == PlannedWindows(f, s)
             K  == {i \in 1 .. Len(s.windows) : Kept(f, s.windows[i])}
         IN  /\ IsSeq(ws)
             /\ \A i \in K : \E r \in 1 .. Len(ws) : ws[r] = s.windows[i]
             /\ \A r \in 1 .. Len(ws) : \E i \in K : ws[r] = s.windows[i]
             /\ IndexesApart(s.windows) => IndexesApart(ws)
<1> DEFINE all == s.windows
           K  == {i \in 1 .. Len(all) : Kept(f, all[i])}
           ws == PlannedWindows(f, s)
           A  == {all[i] : i \in DOMAIN all}
<1>1. /\ all \in Seq(A) /\ DOMAIN all = 1 .. Len(all)
      /\ \A i \in 1 .. Len(all) : IsSeq(all[i].panes)
  BY IsSeqDomain DEF GoodSession, GoodWindow, IsSeq
<1>2. \A i \in DOMAIN all : i \in K <=> ~(SkipWindow(f, all[i]) \/ KeptPanes(f, all[i]) = <<>>)
  <2> TAKE i \in DOMAIN all
  <2>1. /\ Kept(f, all[i]) => Len(KeptPanes(f, all[i])) # 0
        /\ ~Kept(f, all[i]) => KeptPanes(f, all[i]) = <<>>
    BY <1>1, KeptPanesAre
  <2>2. Kept(f, all[i]) => KeptPanes(f, all[i]) # <<>>
    BY <2>1
  <2>3. Kept(f, all[i]) => ~SkipWindow(f, all[i])
    BY DEF Kept, SkipWindow
  <2>4. QED
    BY <1>1, <2>1, <2>2, <2>3
<1>3. ws = Chosen(all, K)
  <2> HIDE DEF K
  <2>1. [i \in DOMAIN all |-> IF SkipWindow(f, all[i]) \/ KeptPanes(f, all[i]) = <<>>
                              THEN <<>> ELSE <<all[i]>>]
          = [i \in DOMAIN all |-> IF i \in K THEN <<all[i]>> ELSE <<>>]
    BY <1>2
  <2>2. QED
    BY <2>1 DEF PlannedWindows, Chosen
<1>4. K \in SUBSET DOMAIN all
  BY <1>1
<1> HIDE DEF K, A, all, ws
<1>5. /\ ws \in Seq(A) /\ Len(ws) = Cardinality(K)
      /\ \A i \in K : Position(K, i) \in 1 .. Cardinality(K) /\ ws[Position(K, i)] = all[i]
  BY <1>1, <1>3, <1>4, ChosenInOrder
<1>6. \A r \in 1 .. Cardinality(K) : \E i \in K : Position(K, i) = r
  BY <1>1, <1>4, ChosenRanks
<1>7. IsSeq(ws)
  BY <1>5, IsSeqOfAnything
<1>8. \A i \in K : \E r \in 1 .. Len(ws) : ws[r] = all[i]
  BY <1>5
<1>9. \A r \in 1 .. Len(ws) : \E i \in K : Position(K, i) = r /\ ws[r] = all[i]
  BY <1>5, <1>6
<1>10. ASSUME IndexesApart(all) PROVE IndexesApart(ws)
  <2> SUFFICES ASSUME NEW r \in 1 .. Len(ws), NEW t \in 1 .. Len(ws), ws[r].index = ws[t].index
               PROVE  r = t
    BY DEF IndexesApart
  <2>1. PICK i \in K : Position(K, i) = r /\ ws[r] = all[i]
    BY <1>9
  <2>2. PICK j \in K : Position(K, j) = t /\ ws[t] = all[j]
    BY <1>9
  <2>3. i = j
    BY <1>1, <1>4, <1>10, <2>1, <2>2 DEF IndexesApart
  <2>4. QED
    BY <2>1, <2>2, <2>3
<1>11. QED
  BY <1>7, <1>8, <1>9, <1>10 DEF K, ws, all

\* The plan of a session is that of its windows, the first of which is created
\* with the session.
LEMMA SessionActionsAre ==
  ASSUME NEW f, NEW s, GoodSession(s), IndexesApart(s.windows)
  PROVE  LET acts == SessionActions(f, s)
         IN  /\ Led(acts)
             /\ \A i \in 1 .. Len(acts) :
                  \E j \in 1 .. Len(s.windows) : Kept(f, s.windows[j]) /\ acts[i].at = Place(s, s.windows[j])
             /\ \A j \in 1 .. Len(s.windows) : Kept(f, s.windows[j]) =>
                  \E first \in BOOLEAN :
                    About(acts, Place(s, s.windows[j])) = WindowActions(f, s, s.windows[j], first)
<1> DEFINE ws == PlannedWindows(f, s)
           n == Len(ws)
           plans == [i \in DOMAIN ws |-> WindowActions(f, s, ws[i], i = 1)]
           acts == SessionActions(f, s)
<1>1. /\ IsSeq(ws) /\ IndexesApart(ws)
      /\ \A i \in 1 .. Len(s.windows) : Kept(f, s.windows[i]) => \E r \in 1 .. n : ws[r] = s.windows[i]
      /\ \A r \in 1 .. n : \E i \in 1 .. Len(s.windows) : Kept(f, s.windows[i]) /\ ws[r] = s.windows[i]
  BY PlannedWindowsAre
<1>2. n \in Nat /\ DOMAIN ws = 1 .. n
  BY <1>1, IsSeqDomain
<1>3. acts = FlattenSeq(plans)
  BY DEF SessionActions
<1>4. /\ DOMAIN plans = 1 .. n /\ plans = [i \in 1 .. n |-> plans[i]]
      /\ \A i \in 1 .. n : plans[i] = WindowActions(f, s, ws[i], i = 1)
  BY <1>2
<1> HIDE DEF ws, n, plans, acts
<1>5. IsSeq(plans) /\ Len(plans) = n
  BY <1>2, <1>4, IsSeqFunction
<1>6. ASSUME NEW i \in 1 .. n
      PROVE  /\ InOrder(plans[i], Place(s, ws[i]), i = 1, ws[i], KeptPanes(f, ws[i])) /\ Kept(f, ws[i])
             /\ Len(KeptPanes(f, ws[i])) \in Nat \ {0}
  <2>1. IsSeq(ws[i].panes) /\ Kept(f, ws[i])
    BY <1>1 DEF GoodSession, GoodWindow
  <2>2. InOrder(WindowActions(f, s, ws[i], i = 1), Place(s, ws[i]), i = 1, ws[i], KeptPanes(f, ws[i]))
    BY <2>1, WindowActionsAre
  <2>3. Len(KeptPanes(f, ws[i])) \in Nat \ {0}
    BY <2>1, KeptPanesAre
  <2>4. QED
    BY <1>4, <2>1, <2>2, <2>3
<1>7. ASSUME NEW i \in 1 .. n
      PROVE  /\ IsSeq(plans[i]) /\ Len(plans[i]) # 0
             /\ plans[i][1].op = "window" /\ (plans[i][1].newSession <=> i = 1)
             /\ \A j \in 1 .. Len(plans[i]) : plans[i][j].at = Place(s, ws[i])
  <2>1. Deco(ws[i]) \in {0, 1}
    BY DEF Deco
  <2>2. Len(plans[i]) \in Nat \ {0}
    BY <1>6, <2>1 DEF InOrder
  <2>3. 1 \in 1 .. Len(plans[i])
    BY <2>2
  <2>4. plans[i][1].op = "window"
    BY <1>6, <2>3 DEF InOrder
  <2>5. plans[i][1].newSession <=> i = 1
    BY <1>6 DEF InOrder
  <2>6. QED
    BY <1>6, <2>2, <2>4, <2>5 DEF InOrder
<1> DEFINE A == UNION {{plans[i][j] : j \in 1 .. Len(plans[i])} : i \in 1 .. Len(plans)}
<1>8. PartsOf(plans, n, A) /\ acts \in Seq(A)
  <2>1. \A i \in 1 .. Len(plans) : IsSeq(plans[i])
    BY <1>5, <1>7
  <2>2. plans \in Seq(Seq(A)) /\ FlattenSeq(plans) \in Seq(A)
    BY <1>5, <2>1, PartsAre
  <2> HIDE DEF A
  <2>3. \A i \in 1 .. n : plans[i] \in Seq(A)
    BY <1>5, <2>2
  <2>4. PartsOf(plans, n, A)
    BY <1>4, <2>3 DEF PartsOf
  <2>5. QED
    BY <1>3, <2>2, <2>4
<1>9. \A a \in A : \E i \in 1 .. n : \E j \in 1 .. Len(plans[i]) : a = plans[i][j]
  BY <1>5
<1> HIDE DEF A
<1>10. IsSeq(acts) /\ \A i \in 1 .. Len(acts) : acts[i] \in A
  BY <1>8, IsSeqOfAnything
<1>11. \A i \in 1 .. Len(acts) : \E r \in 1 .. n : acts[i].at = Place(s, ws[r])
  BY <1>7, <1>9, <1>10
<1>12. Led(acts)
  <2>1. ASSUME NEW i \in 1 .. Len(acts), acts[i].op = "window" /\ ~acts[i].newSession
        PROVE  \E j \in 1 .. i - 1 : acts[j].op = "window" /\ acts[j].at[1] = acts[i].at[1]
    <3>1. n \in Nat \ {0}
      BY <1>2, <1>11
    <3>2. Len(plans[1]) # 0 /\ plans[1][1].op = "window" /\ plans[1][1].newSession
      BY <1>7, <3>1
    <3>3. Len(acts) # 0 /\ acts[1] = plans[1][1]
      BY <1>3, <1>8, <3>1, <3>2, FlattenFirst
    <3>4. i # 1
      BY <2>1, <3>2, <3>3
    <3>5. 1 \in 1 .. i - 1 /\ 1 \in 1 .. Len(acts)
      BY <3>4
    <3>6. acts[1].at[1] = s.name /\ acts[i].at[1] = s.name
      BY <1>11, <3>5 DEF Place
    <3>7. QED
      BY <3>2, <3>3, <3>5, <3>6
  <2>2. QED
    BY <1>10, <2>1 DEF Led
<1>13. ASSUME NEW r \in 1 .. n
       PROVE  About(acts, Place(s, ws[r])) = WindowActions(f, s, ws[r], r = 1)
  <2> DEFINE p == Place(s, ws[r])
  <2>1. ASSUME NEW i \in 1 .. n, i # r PROVE About(plans[i], p) = <<>>
    <3>1. ws[i].index # ws[r].index
      BY <1>1, <2>1 DEF IndexesApart, n
    <3>2. Place(s, ws[i]) # p
      BY <3>1 DEF Place
    <3>3. IsSeq(plans[i]) /\ \A j \in 1 .. Len(plans[i]) : plans[i][j].at # p
      BY <1>7, <3>2
    <3> HIDE DEF p
    <3>4. QED
      BY <3>3, AboutNone
  <2>2. About(plans[r], p) = plans[r]
    <3>1. IsSeq(plans[r]) /\ \A j \in 1 .. Len(plans[r]) : plans[r][j].at = p
      BY <1>7
    <3> HIDE DEF p
    <3>2. QED
      BY <3>1, AboutAll
  <2> HIDE DEF p
  <2>3. \A i \in 1 .. Len(plans) : IsSeq(plans[i])
    BY <1>5, <1>7
  <2>4. About(FlattenSeq(plans), p) = About(plans[r], p)
    <3>1. r \in 1 .. Len(plans) /\ \A i \in 1 .. Len(plans) : i # r => About(plans[i], p) = <<>>
      BY <1>5, <2>1
    <3>2. QED
      BY <1>5, <2>3, <3>1, AboutFlatten
  <2>5. QED
    BY <1>3, <1>4, <2>2, <2>4 DEF p
<1>14. \A i \in 1 .. Len(acts) :
         \E j \in 1 .. Len(s.windows) : Kept(f, s.windows[j]) /\ acts[i].at = Place(s, s.windows[j])
  <2> TAKE i \in 1 .. Len(acts)
  <2>1. PICK r \in 1 .. n : acts[i].at = Place(s, ws[r])
    BY <1>11
  <2>2. PICK j \in 1 .. Len(s.windows) : ws[r] = s.windows[j] /\ Kept(f, s.windows[j])
    BY <1>1, <2>1
  <2>3. acts[i].at = Place(s, s.windows[j])
    BY <2>1, <2>2
  <2>4. QED
    BY <2>2, <2>3
<1>15. ASSUME NEW j \in 1 .. Len(s.windows), Kept(f, s.windows[j])
       PROVE  \E first \in BOOLEAN :
                About(acts, Place(s, s.windows[j])) = WindowActions(f, s, s.windows[j], first)
  <2>1. PICK r \in 1 .. n : ws[r] = s.windows[j]
    BY <1>1, <1>15
  <2>2. (r = 1) \in BOOLEAN
    OBVIOUS
  <2>3. About(acts, Place(s, s.windows[j])) = WindowActions(f, s, s.windows[j], r = 1)
    BY <1>13, <2>1
  <2>4. QED
    BY <2>2, <2>3
<1>16. QED
  BY <1>12, <1>14, <1>15 DEF acts

Due(m, f, running, now, i, j) ==
  /\ i \in 1 .. Len(m) /\ j \in 1 .. Len(m[i].windows)
  /\ SkipReason(f, m[i], running, now) = "" /\ Kept(f, m[i].windows[j])

\* The plan of a manifest: for every window that is due its actions, in order,
\* and none about another window.
LEMMA PlanActionsAre ==
  ASSUME NEW m, NEW f, NEW running, NEW now, GoodManifest(m), Apart(m)
  PROVE  LET plan == BuildPlan(m, f, running, now)
         IN  /\ Led(plan)
             /\ \A x \in 1 .. Len(plan) :
                  \E i, j \in Nat : Due(m, f, running, now, i, j) /\ plan[x].at = Place(m[i], m[i].windows[j])
             /\ \A i, j : Due(m, f, running, now, i, j) =>
                  \E first \in BOOLEAN :
                    About(plan, Place(m[i], m[i].windows[j])) = WindowActions(f, m[i], m[i].windows[j], first)
<1> DEFINE n == Len(m)
           due(i) == SkipReason(f, m[i], running, now) = ""
           plans == [i \in DOMAIN m |-> IF due(i) THEN SessionActions(f, m[i]) ELSE <<>>]
           plan == BuildPlan(m, f, running, now)
<1>1. /\ n \in Nat /\ DOMAIN m = 1 .. n
      /\ \A i \in 1 .. n : GoodSession(m[i]) /\ IndexesApart(m[i].windows)
  BY IsSeqDomain DEF GoodManifest, Apart
<1>2. plan = FlattenSeq(plans)
  BY DEF BuildPlan
<1>3. /\ DOMAIN plans = 1 .. n /\ plans = [i \in 1 .. n |-> plans[i]]
      /\ \A i \in 1 .. n : /\ due(i) => plans[i] = SessionActions(f, m[i])
                           /\ ~due(i) => plans[i] = <<>>
  BY <1>1
<1> HIDE DEF plans, plan, n
<1>4. IsSeq(plans) /\ Len(plans) = n
  BY <1>1, <1>3, IsSeqFunction
<1>5. Led(<<>>) /\ Len(<<>>) = 0
  BY DEF Led, IsSeq
<1>6. ASSUME NEW i \in 1 .. n
      PROVE  /\ Led(plans[i]) /\ IsSeq(plans[i])
             /\ \A x \in 1 .. Len(plans[i]) :
                  \E j \in Nat : Due(m, f, running, now, i, j) /\ plans[i][x].at = Place(m[i], m[i].windows[j])
  <2>1. Led(SessionActions(f, m[i]))
    BY <1>1, SessionActionsAre
  <2>2. \A x \in 1 .. Len(SessionActions(f, m[i])) :
          \E j \in 1 .. Len(m[i].windows) :
            Kept(f, m[i].windows[j]) /\ SessionActions(f, m[i])[x].at = Place(m[i], m[i].windows[j])
    BY <1>1, SessionActionsAre
  <2>3. CASE due(i)
    <3>1. plans[i] = SessionActions(f, m[i])
      BY <1>3, <2>3
    <3>2. Led(plans[i]) /\ IsSeq(plans[i])
      BY <2>1, <3>1 DEF Led
    <3>3. ASSUME NEW x \in 1 .. Len(plans[i])
          PROVE  \E j \in Nat : Due(m, f, running, now, i, j) /\ plans[i][x].at = Place(m[i], m[i].windows[j])
      <4>1. PICK j \in 1 .. Len(m[i].windows) :
              Kept(f, m[i].windows[j]) /\ plans[i][x].at = Place(m[i], m[i].windows[j])
        BY <2>2, <3>1
      <4>2. i \in 1 .. Len(m) /\ SkipReason(f, m[i], running, now) = ""
        BY <2>3 DEF n
      <4>3. Len(m[i].windows) \in Nat
        BY <1>1, IsSeqDomain DEF GoodSession
      <4>4. j \in Nat
        BY <4>3
      <4>5. QED
        BY <4>1, <4>2, <4>4 DEF Due
    <3>4. QED
      BY <3>2, <3>3
  <2>4. CASE ~due(i)
    <3>1. plans[i] = <<>>
      BY <1>3, <2>4
    <3>2. Led(<<>>) /\ IsSeq(<<>>) /\ 1 .. Len(<<>>) = {}
      BY <1>5 DEF Led
    <3>3. QED
      BY <3>1, <3>2
  <2>5. QED
    BY <2>3, <2>4
<1>7. \A i \in 1 .. Len(plans) : IsSeq(plans[i]) /\ Led(plans[i])
  BY <1>4, <1>6
<1>8. Led(plan)
  BY <1>2, <1>4, <1>7, LedFlatten
<1> DEFINE A == UNION {{plans[i][j] : j \in 1 .. Len(plans[i])} : i \in 1 .. Len(plans)}
<1>9. plan \in Seq(A)
  <2>1. \A i \in 1 .. Len(plans) : IsSeq(plans[i])
    BY <1>7
  <2>2. FlattenSeq(plans) \in Seq(A)
    BY <1>4, <2>1, PartsAre
  <2> HIDE DEF A
  <2>3. QED
    BY <1>2, <2>2
<1>10. \A a \in A : \E i \in 1 .. n : \E x \in 1 .. Len(plans[i]) : a = plans[i][x]
  BY <1>4
<1> HIDE DEF A
<1>11. \A x \in 1 .. Len(plan) :
         \E i, j \in Nat : Due(m, f, running, now, i, j) /\ plan[x].at = Place(m[i], m[i].windows[j])
  <2> TAKE x \in 1 .. Len(plan)
  <2>1. plan[x] \in A
    BY <1>9
  <2>2. PICK i \in 1 .. n : \E y \in 1 .. Len(plans[i]) : plan[x] = plans[i][y]
    BY <1>10, <2>1
  <2>3. PICK y \in 1 .. Len(plans[i]) : plan[x] = plans[i][y]
    BY <2>2
  <2>4. i \in Nat
    OBVIOUS
  <2>5. QED
    BY <1>6, <2>3, <2>4
<1>12. ASSUME NEW i, NEW j, Due(m, f, running, now, i, j)
       PROVE  \E first \in BOOLEAN :
                About(plan, Place(m[i], m[i].windows[j])) = WindowActions(f, m[i], m[i].windows[j], first)
  <2> DEFINE p == Place(m[i], m[i].windows[j])
  <2>1. i \in 1 .. n /\ j \in 1 .. Len(m[i].windows) /\ due(i) /\ Kept(f, m[i].windows[j])
    BY <1>12 DEF Due, n
  <2>2. ASSUME NEW k \in 1 .. n, k # i PROVE About(plans[k], p) = <<>>
    <3>1. m[k].name # m[i].name
      BY <2>1, <2>2 DEF Apart, n
    <3>2. \A x \in 1 .. Len(plans[k]) : plans[k][x].at # p
      BY <1>6, <3>1 DEF Place
    <3> HIDE DEF p
    <3>3. QED
      BY <1>6, <3>2, AboutNone
  <2>3. PICK first \in BOOLEAN :
          About(SessionActions(f, m[i]), p) = WindowActions(f, m[i], m[i].windows[j], first)
    BY <1>1, <2>1, SessionActionsAre
  <2> HIDE DEF p
  <2>4. i \in 1 .. Len(plans) /\ \A k \in 1 .. Len(plans) : k # i => About(plans[k], p) = <<>>
    BY <1>4, <2>1, <2>2
  <2>5. About(FlattenSeq(plans), p) = About(plans[i], p)
    BY <1>4, <1>7, <2>4, AboutFlatten
  <2>6. plans[i] = SessionActions(f, m[i])
    BY <1>3, <2>1
  <2>7. QED
    BY <1>2, <2>3, <2>5, <2>6 DEF p
<1>13. QED
  BY <1>8, <1>11, <1>12 DEF plan
-----------------------------------------------------------------------------
(* How far a restore is with a window. *)

AtIn(ws, p) == {w \in ws : <<w.sess, w.index>> = p}
SessionsIn(ws) == {w.sess : w \in ws}

\* The panes of a window of n of them that are there when k of its actions are
\* done, d of which is the decoration's.
Started(d, n, k) == IF k <= d + 1 THEN 1 ELSE IF k <= d + n THEN k - d ELSE n

\* What k of its actions make of a window w of a snapshot.
Staged(f, w, k, x) ==
  LET n == Len(KeptPanes(f, w))
  IN  /\ x.panes = Filled(f, w, Started(Deco(w), n, k))
      /\ x.deco = (IF k >= Deco(w) + 1 THEN w.deco ELSE "")
      /\ k = Deco(w) + n + 1 => x.layout = w.layout

\* The elements of all that are left when k of them are taken.
Remaining(rest, all, k) ==
  /\ IsSeq(rest) /\ Len(rest) = Len(all) - k
  /\ \A x \in 1 .. Len(rest) : rest[x] = all[k + x]

LEMMA RemainingIs ==
  ASSUME NEW all, NEW k \in Nat, NEW a, NEW rest, IsSeq(all), IsSeq(rest),
         Remaining(<<a>> \o rest, all, k)
  PROVE  k + 1 \in 1 .. Len(all) /\ a = all[k + 1] /\ Remaining(rest, all, k + 1)
<1> DEFINE A == {rest[i] : i \in DOMAIN rest} \cup {a}
           r == <<a>> \o rest
<1>1. rest \in Seq(A) /\ <<a>> \in Seq(A)
  BY DEF IsSeq
<1> HIDE DEF A
<1>2. Len(r) = Len(rest) + 1 /\ Len(rest) \in Nat /\ r[1] = a /\ \A i \in 1 .. Len(rest) : r[i + 1] = rest[i]
  BY <1>1
<1>3. Len(all) \in Nat
  BY IsSeqDomain
<1>4. Len(r) = Len(all) - k /\ \A x \in 1 .. Len(r) : r[x] = all[k + x]
  BY DEF Remaining, r
<1> HIDE DEF r
<1>5. k + 1 \in 1 .. Len(all) /\ a = all[k + 1]
  BY <1>2, <1>3, <1>4
<1>6. Len(rest) = Len(all) - (k + 1)
  <2>1. Len(r) = Len(rest) + 1 /\ Len(r) = Len(all) - k /\ Len(rest) \in Nat
    BY <1>2, <1>4
  <2> DEFINE lr == Len(rest)
             la == Len(all)
             l  == Len(r)
  <2>2. l = lr + 1 /\ l = la - k /\ lr \in Nat /\ la \in Nat
    BY <1>3, <2>1
  <2> HIDE DEF lr, la, l
  <2>3. lr = la - (k + 1)
    BY <2>2
  <2>4. QED
    BY <2>3 DEF lr, la
<1>7. ASSUME NEW x \in 1 .. Len(rest) PROVE rest[x] = all[(k + 1) + x]
  <2>1. x + 1 \in 1 .. Len(r) /\ k + (x + 1) = (k + 1) + x
    BY <1>2
  <2>2. QED
    BY <1>2, <1>4, <2>1
<1>8. QED
  BY <1>5, <1>6, <1>7 DEF Remaining

\* One pane more, while there is room.
LEMMA FilledMore ==
  ASSUME NEW f, NEW w, NEW q \in Nat \ {0}
  PROVE  /\ Len(Filled(f, w, q)) = Fitting(q) /\ Fitting(q) \in Nat /\ Fitting(q) <= q
         /\ Fitting(q) < Room =>
              Filled(f, w, q + 1) = Append(Filled(f, w, q), Pane(Startup(KeptPanes(f, w)[q + 1])))
         /\ ~(Fitting(q) < Room) => Filled(f, w, q + 1) = Filled(f, w, q)
<1> DEFINE pane(i) == Pane(Startup(KeptPanes(f, w)[i]))
           A == {pane(i) : i \in Nat}
<1>1. /\ Fitting(q) \in Nat /\ Fitting(q) <= q
      /\ Fitting(q) < Room => Fitting(q) = q /\ Fitting(q + 1) = q + 1
      /\ ~(Fitting(q) < Room) => Fitting(q + 1) = Fitting(q)
  BY RestoreAssumption DEF Fitting
<1>2. \A n : Filled(f, w, n) = [i \in 1 .. Fitting(n) |-> pane(i)]
  BY DEF Filled
<1>3. \A i \in Nat : pane(i) \in A
  OBVIOUS
<1> HIDE DEF pane, A
<1>4. Len(Filled(f, w, q)) = Fitting(q)
  BY <1>1, <1>2
<1>5. ASSUME Fitting(q) < Room
      PROVE  Filled(f, w, q + 1) = Append(Filled(f, w, q), pane(q + 1))
  <2> DEFINE s == [i \in 1 .. q |-> pane(i)]
             t == [i \in 1 .. q + 1 |-> pane(i)]
  <2>1. s \in Seq(A) /\ Len(s) = q /\ t \in Seq(A) /\ Len(t) = q + 1 /\ pane(q + 1) \in A
    BY <1>3
  <2>2. \A i \in 1 .. q + 1 : t[i] = IF i <= q THEN s[i] ELSE pane(q + 1)
    OBVIOUS
  <2> HIDE DEF s, t
  <2>3. t = Append(s, pane(q + 1))
    BY <2>1, <2>2
  <2>4. QED
    BY <1>1, <1>2, <1>5, <2>3 DEF s, t
<1>6. ~(Fitting(q) < Room) => Filled(f, w, q + 1) = Filled(f, w, q)
  BY <1>1, <1>2
<1>7. QED
  BY <1>1, <1>4, <1>5, <1>6 DEF pane

LEMMA FilledOne ==
  ASSUME NEW f, NEW w
  PROVE  Filled(f, w, 1) = <<Pane(Startup(KeptPanes(f, w)[1]))>>
<1> DEFINE pane(i) == Pane(Startup(KeptPanes(f, w)[i]))
<1>1. Fitting(1) = 1
  BY RestoreAssumption DEF Fitting
<1>2. Filled(f, w, 1) = [i \in 1 .. 1 |-> pane(i)]
  BY <1>1 DEF Filled
<1>3. 1 .. 1 = {1}
  OBVIOUS
<1> HIDE DEF pane
<1>4. [i \in 1 .. 1 |-> pane(i)] = <<pane(1)>>
  BY <1>3
<1>5. QED
  BY <1>2, <1>4 DEF pane

LEMMA DecoIs ==
  ASSUME NEW w
  PROVE  Deco(w) \in {0, 1} /\ (Deco(w) = 0 => w.deco = "")
<1>1. CASE w.deco = ""
  BY <1>1 DEF Deco
<1>2. CASE w.deco # ""
  <2>1. Deco(w) = 1
    BY <1>2 DEF Deco
  <2>2. QED
    BY <2>1
<1>3. QED
  BY <1>1, <1>2

LEMMA StartedOne ==
  ASSUME NEW d \in {0, 1}, NEW n \in Nat \ {0}
  PROVE  Started(d, n, 1) = 1 /\ (1 >= d + 1 => d = 0) /\ 1 # d + n + 1
  BY DEF Started

\* The window is created with the first of its panes.
LEMMA FirstStage ==
  ASSUME NEW f, NEW w, IsSeq(w.panes), Kept(f, w), NEW x,
         x.panes = <<Pane(Startup(KeptPanes(f, w)[1]))>>, x.deco = ""
  PROVE  Staged(f, w, 1, x)
<1> DEFINE n == Len(KeptPanes(f, w))
           d == Deco(w)
<1>1. n \in Nat \ {0}
  BY KeptPanesAre
<1>2. d \in {0, 1} /\ (d = 0 => w.deco = "")
  BY DecoIs
<1>3. Filled(f, w, 1) = x.panes
  BY FilledOne
<1> HIDE DEF n, d
<1>4. Started(d, n, 1) = 1 /\ (1 >= d + 1 => d = 0) /\ 1 # d + n + 1
  BY <1>1, <1>2, StartedOne
<1>5. x.deco = (IF 1 >= d + 1 THEN w.deco ELSE "")
  BY <1>2, <1>4
<1>6. QED
  BY <1>3, <1>4, <1>5 DEF Staged, n, d

\* Each action after it takes the window a stage further: no layout asks for
\* fewer cells than there are panes by then.
LEMMA NextStage ==
  ASSUME NEW f, NEW w, IsSeq(w.panes), Kept(f, w), w.layout[2] \in Int, Len(w.panes) <= w.layout[2],
         NEW acts, NEW p, NEW first, InOrder(acts, p, first, w, KeptPanes(f, w)),
         NEW k \in Nat \ {0}, k + 1 \in 1 .. Len(acts),
         NEW x, x = [id |-> x.id, sess |-> x.sess, index |-> x.index,
                     panes |-> x.panes, deco |-> x.deco, layout |-> x.layout],
         Staged(f, w, k, x)
  PROVE  Staged(f, w, k + 1, After(acts[k + 1], x))
<1> DEFINE kept == KeptPanes(f, w)
           n == Len(kept)
           d == Deco(w)
           a == acts[k + 1]
           y == After(a, x)
<1>1. n \in Nat \ {0} /\ d \in {0, 1} /\ Len(acts) = d + n + 1
  <2>1. n \in Nat \ {0}
    BY KeptPanesAre
  <2>2. d \in {0, 1}
    BY DecoIs
  <2>3. Len(acts) = d + n + 1
    BY DEF InOrder
  <2>4. QED
    BY <2>1, <2>2, <2>3
<1>2. n <= Len(w.panes)
  <2>1. n = Cardinality(PanesKept(f, w))
    BY KeptPanesAre
  <2>2. Len(w.panes) \in Nat /\ PanesKept(f, w) \in SUBSET (1 .. Len(w.panes))
    BY IsSeqDomain DEF PanesKept
  <2> DEFINE l == Len(w.panes)
             K == PanesKept(f, w)
  <2>3. l \in Nat /\ l \in Int /\ K \in SUBSET (1 .. l)
    BY <2>2
  <2> HIDE DEF l, K
  <2>4. IsFiniteSet(1 .. l) /\ Cardinality(1 .. l) = l
    <3>1. /\ IsFiniteSet(1 .. l) 
          /\ Cardinality(1 .. l) = IF 1 > l THEN 0 ELSE (l - 1) + 1
      BY <2>3, 1 \in Int, FS_Interval
    <3>2. QED
      BY <2>3, <3>1
  <2>5. Cardinality(K) <= l
    BY <2>3, <2>4, FS_Subset
  <2>6. QED
    BY <2>1, <2>5 DEF l, K
<1>3. /\ x.panes = Filled(f, w, Started(d, n, k))
      /\ x.deco = (IF k >= d + 1 THEN w.deco ELSE "")
  BY DEF Staged
<1>4. /\ d = 1 => acts[2].op = "option" /\ acts[2].value = w.deco
      /\ \A i \in d + 2 .. d + n : acts[i].op = "split" /\ acts[i].run = Startup(kept[i - d])
      /\ acts[d + n + 1].op = "layout" /\ acts[d + n + 1].layout = w.layout
  BY DEF InOrder
<1> HIDE DEF d
<1>5. (d = 1 /\ k = 1) \/ k \in d + 1 .. d + n - 1 \/ k = d + n
  BY <1>1
<1> SUFFICES /\ y.panes = Filled(f, w, Started(d, n, k + 1))
             /\ y.deco = (IF k + 1 >= d + 1 THEN w.deco ELSE "")
             /\ k + 1 = d + n + 1 => y.layout = w.layout
  BY DEF Staged, d
<1>6. CASE d = 1 /\ k = 1
  <2>1. a.op = "option" /\ a.value = w.deco
    BY <1>4, <1>6
  <2>2. y = [x EXCEPT !.deco = w.deco]
    BY <2>1 DEF After
  <2> HIDE DEF a, y, kept, n
  <2>3. y.panes = x.panes /\ y.deco = w.deco
    BY <2>2
  <2>4. Started(d, n, k) = 1 /\ Started(d, n, k + 1) = 1 /\ k + 1 >= d + 1 /\ k + 1 # d + n + 1
    BY <1>1, <1>6 DEF Started
  <2>5. QED
    BY <1>3, <2>3, <2>4
<1>7. CASE k \in d + 1 .. d + n - 1
  <2> DEFINE q == k - d
  <2>1. q \in Nat \ {0} /\ k + 1 \in d + 2 .. d + n /\ (k + 1) - d = q + 1
    BY <1>1, <1>7
  <2>2. a.op = "split" /\ a.run = Startup(kept[q + 1])
    BY <1>4, <2>1
  <2> HIDE DEF q
  <2>3. Started(d, n, k) = q /\ Started(d, n, k + 1) = q + 1
    BY <1>1, <1>7, <2>1 DEF Started, q
  <2>4. x.panes = Filled(f, w, q) /\ Len(x.panes) = Fitting(q)
    <3>1. x.panes = Filled(f, w, q)
      BY <1>3, <2>3
    <3>2. Len(Filled(f, w, q)) = Fitting(q)
      BY <2>1, FilledMore
    <3>3. QED
      BY <3>1, <3>2
  <2>5. x.deco = w.deco /\ k + 1 >= d + 1 /\ k + 1 # d + n + 1
    BY <1>1, <1>3, <1>7
  <2>6. CASE Fitting(q) < Room
    <3>1. y = [x EXCEPT !.panes = Append(@, Pane(a.run)), !.layout = <<"even", Len(x.panes) + 1>>]
      BY <2>2, <2>4, <2>6 DEF After
    <3>2. y.panes = Append(x.panes, Pane(a.run)) /\ y.deco = x.deco
      BY <3>1
    <3>3. Filled(f, w, q + 1) = Append(Filled(f, w, q), Pane(Startup(kept[q + 1])))
      BY <2>1, <2>6, FilledMore
    <3> HIDE DEF a, y, kept, n
    <3>4. y.panes = Filled(f, w, q + 1)
      BY <2>2, <2>4, <3>2, <3>3
    <3>5. QED
      BY <2>3, <2>5, <3>2, <3>4
  <2>7. CASE ~(Fitting(q) < Room)
    <3>1. y = x
      BY <2>2, <2>4, <2>7 DEF After
    <3>2. Filled(f, w, q + 1) = Filled(f, w, q)
      BY <2>1, <2>7, FilledMore
    <3> HIDE DEF a, y, kept, n
    <3>3. QED
      BY <2>3, <2>4, <2>5, <3>1, <3>2
  <2>8. QED
    BY <2>6, <2>7
<1>8. CASE k = d + n
  <2>1. a.op = "layout" /\ a.layout = w.layout
    BY <1>4, <1>8
  <2>2. Started(d, n, k) = n /\ Started(d, n, k + 1) = n /\ k >= d + 1 /\ k + 1 >= d + 1
    <3> HIDE DEF n
    <3>1. QED
      BY <1>1, <1>8 DEF Started
  <2>3. Len(x.panes) = Fitting(n) /\ Fitting(n) \in Nat /\ Fitting(n) <= n
    <3> HIDE DEF n
    <3>1. QED
      BY <1>1, <1>3, <2>2, FilledMore
  <2>4. Len(w.panes) \in Nat
    BY IsSeqDomain
  <2>5. Len(x.panes) <= a.layout[2]
    <3> DEFINE lx == Len(x.panes)
               lw == Len(w.panes)
               l  == w.layout[2]
    <3>1. lx <= n /\ n <= lw /\ lw <= l /\ lx \in Nat /\ lw \in Nat /\ l \in Int
      BY <1>2, <2>3, <2>4
    <3> HIDE DEF lx, lw, l, n
    <3>2. lx <= l
      BY <1>1, <3>1
    <3>3. QED
      BY <2>1, <3>2 DEF lx, l
  <2>6. y = [x EXCEPT !.layout = w.layout]
    BY <2>1, <2>5 DEF After
  <2> HIDE DEF a, y, kept, n
  <2>7. y.panes = x.panes /\ y.deco = x.deco /\ y.layout = w.layout
    BY <2>6
  <2>8. QED
    BY <1>3, <2>2, <2>7
<1>9. QED
  BY <1>5, <1>6, <1>7, <1>8
-----------------------------------------------------------------------------
(* The invariant of a restore that is alone. *)

\* k of the actions of the j-th window of the i-th session are done.
Halfway(plan, ws, m, f, i, j) ==
  LET w == m[i].windows[j]
      p == Place(m[i], w)
  IN  \E first \in BOOLEAN, k \in Nat :
        /\ Remaining(About(plan, p), WindowActions(f, m[i], w, first), k)
        /\ k = 0 => AtIn(ws, p) = {}
        /\ k # 0 => \E x : AtIn(ws, p) = {x} /\ Staged(f, w, k, x)

DueAt(m, f, running, now, p) ==
  \E i, j \in Nat : Due(m, f, running, now, i, j) /\ p = Place(m[i], m[i].windows[j])

\* What is left of the plan can be done, and is about windows that are due; a
\* window that is due in a session that was not live is as far as its actions
\* are; every other session that is there was live; none of these failed.
Completing(plan, ws, live, failed, m, f, running, now) ==
  /\ \A x \in 1 .. Len(plan) :
       /\ DueAt(m, f, running, now, plan[x].at)
       /\ plan[x].op = "window" /\ ~plan[x].newSession /\ plan[x].at[1] \notin live =>
            \/ plan[x].at[1] \in SessionsIn(ws)
            \/ \E y \in 1 .. x - 1 : plan[y].op = "window" /\ plan[y].at[1] = plan[x].at[1]
  /\ \A i, j \in Nat : Due(m, f, running, now, i, j) /\ m[i].name \notin live => Halfway(plan, ws, m, f, i, j)
  /\ \A w \in ws : w.sess \in live \/ DueAt(m, f, running, now, <<w.sess, w.index>>)
  /\ \A p \in failed : p[1] \in live

\* A restore begins with all of it to do.
LEMMA CompletingBegins ==
  ASSUME NEW m, NEW f, NEW running, NEW now, GoodManifest(m), Apart(m), NEW ws
  PROVE  Completing(BuildPlan(m, f, running, now), ws, SessionsIn(ws), {}, m, f, running, now)
<1> DEFINE plan == BuildPlan(m, f, running, now)
           live == SessionsIn(ws)
<1>1. /\ Led(plan)
      /\ \A x \in 1 .. Len(plan) :
           \E i, j \in Nat : Due(m, f, running, now, i, j) /\ plan[x].at = Place(m[i], m[i].windows[j])
      /\ \A i, j : Due(m, f, running, now, i, j) =>
           \E first \in BOOLEAN :
             About(plan, Place(m[i], m[i].windows[j])) = WindowActions(f, m[i], m[i].windows[j], first)
  BY PlanActionsAre
<1> HIDE DEF plan
<1>2. \A x \in 1 .. Len(plan) : DueAt(m, f, running, now, plan[x].at)
  BY <1>1 DEF DueAt
<1>3. \A x \in 1 .. Len(plan) :
        plan[x].op = "window" /\ ~plan[x].newSession =>
          \E y \in 1 .. x - 1 : plan[y].op = "window" /\ plan[y].at[1] = plan[x].at[1]
  BY <1>1 DEF Led
<1>4. ASSUME NEW i \in Nat, NEW j \in Nat, Due(m, f, running, now, i, j), m[i].name \notin live
      PROVE  Halfway(plan, ws, m, f, i, j)
  <2> DEFINE w == m[i].windows[j]
             p == Place(m[i], w)
  <2>1. PICK first \in BOOLEAN : About(plan, p) = WindowActions(f, m[i], w, first)
    BY <1>1, <1>4
  <2>2. IsSeq(w.panes) /\ Kept(f, w)
    BY <1>4 DEF Due, GoodManifest, GoodSession, GoodWindow
  <2> DEFINE acts == WindowActions(f, m[i], w, first)
  <2>3. IsSeq(acts)
    BY <2>2, WindowActionsAre DEF InOrder
  <2> HIDE DEF acts
  <2>4. Remaining(acts, acts, 0)
    <3>1. Len(acts) \in Nat
      BY <2>3, IsSeqDomain
    <3>2. Len(acts) = Len(acts) - 0 /\ \A x \in 1 .. Len(acts) : acts[x] = acts[0 + x]
      BY <3>1
    <3>3. QED
      BY <2>3, <3>2 DEF Remaining
  <2>5. AtIn(ws, p) = {}
    BY <1>4 DEF AtIn, SessionsIn, Place
  <2> HIDE DEF p, w
  <2>6. 0 \in Nat
    OBVIOUS
  <2>7. Remaining(About(plan, p), WindowActions(f, m[i], w, first), 0)
    BY <2>1, <2>4 DEF acts, w, p
  <2>8. QED
    BY <2>5, <2>6, <2>7 DEF Halfway, p, w
<1>5. \A w \in ws : w.sess \in live
  BY DEF SessionsIn
<1>6. QED
  BY <1>2, <1>3, <1>4, <1>5 DEF Completing, plan

AreWindows(ws) ==
  \A w \in ws : w = [id |-> w.id, sess |-> w.sess, index |-> w.index,
                    panes |-> w.panes, deco |-> w.deco, layout |-> w.layout]

Created(a, ws) == \E x : AtIn(ws, a.at) = {x} /\ x.panes = <<Pane(a.run)>> /\ x.deco = ""

\* What an action does to windows and failures.
Effect(a, ws, failed, ws2, failed2) ==
  /\ failed2 \subseteq failed \cup {a.at}
  /\ \A p : p # a.at => AtIn(ws2, p) = AtIn(ws, p)
  /\ SessionsIn(ws) \subseteq SessionsIn(ws2)
  /\ IF a.op = "window"
     THEN AtIn(ws, a.at) = {} /\ (a.newSession \/ a.at[1] \in SessionsIn(ws)) =>
            failed2 = failed /\ Created(a, ws2)
     ELSE /\ failed2 = failed
          /\ a.at \notin failed => AtIn(ws2, a.at) = {After(a, w) : w \in AtIn(ws, a.at)}

\* One action of the plan is about one window: it does what is next there and
\* leaves the others where they are.
LEMMA CompletingStep ==
  ASSUME NEW m, NEW f, NEW running, NEW now, GoodManifest(m), Apart(m),
         NEW plan, IsSeq(plan), plan # <<>>, NEW a, a = Head(plan), NEW ws, NEW live, NEW failed,
         Completing(plan, ws, live, failed, m, f, running, now),
         AreWindows(ws), NEW ws2, NEW failed2, Effect(a, ws, failed, ws2, failed2)
  PROVE  Completing(Tail(plan), ws2, live, failed2, m, f, running, now)
<1> DEFINE rest == Tail(plan)
<1>1. /\ IsSeq(rest) /\ Len(plan) \in Nat \ {0} /\ Len(rest) = Len(plan) - 1 /\ a = plan[1]
      /\ \A x \in 1 .. Len(rest) : rest[x] = plan[x + 1]
  <2> DEFINE A == {plan[x] : x \in DOMAIN plan}
  <2>1. plan \in Seq(A)
    BY DEF IsSeq
  <2> HIDE DEF A
  <2>2. /\ rest \in Seq(A) /\ Len(plan) \in Nat \ {0} /\ Len(rest) = Len(plan) - 1 /\ a = plan[1]
        /\ \A x \in 1 .. Len(rest) : rest[x] = plan[x + 1]
    BY <2>1
  <2>3. QED
    BY <2>2, IsSeqOfAnything
<1>2. \A p : /\ a.at = p => About(plan, p) = <<a>> \o About(rest, p)
             /\ a.at # p => About(plan, p) = About(rest, p)
             /\ IsSeq(About(rest, p))
  BY AboutFirst
<1> HIDE DEF rest
<1>3. /\ \A x \in 1 .. Len(plan) : DueAt(m, f, running, now, plan[x].at)
      /\ \A x \in 1 .. Len(plan) :
           plan[x].op = "window" /\ ~plan[x].newSession /\ plan[x].at[1] \notin live =>
             \/ plan[x].at[1] \in SessionsIn(ws)
             \/ \E y \in 1 .. x - 1 : plan[y].op = "window" /\ plan[y].at[1] = plan[x].at[1]
      /\ \A i, j \in Nat : Due(m, f, running, now, i, j) /\ m[i].name \notin live => Halfway(plan, ws, m, f, i, j)
      /\ \A w \in ws : w.sess \in live \/ DueAt(m, f, running, now, <<w.sess, w.index>>)
      /\ \A p \in failed : p[1] \in live
  BY DEF Completing
<1>4. PICK i0 \in Nat, j0 \in Nat :
        Due(m, f, running, now, i0, j0) /\ a.at = Place(m[i0], m[i0].windows[j0])
  <2>1. DueAt(m, f, running, now, a.at)
    BY <1>1, <1>3
  <2>2. QED
    BY <2>1 DEF DueAt
<1> DEFINE w0 == m[i0].windows[j0]
           p0 == Place(m[i0], w0)
<1>5. /\ IsSeq(w0.panes) /\ Kept(f, w0) /\ w0.layout[2] \in Int /\ Len(w0.panes) <= w0.layout[2]
      /\ a.at = p0 /\ a.at[1] = m[i0].name
  <2>1. i0 \in 1 .. Len(m) /\ j0 \in 1 .. Len(m[i0].windows) /\ Kept(f, w0)
    BY <1>4 DEF Due
  <2>2. GoodWindow(w0)
    BY <2>1 DEF GoodManifest, GoodSession
  <2>3. Len(w0.panes) <= w0.layout[2]
    BY <2>1 DEF Apart
  <2>4. a.at = p0 /\ a.at[1] = m[i0].name
    BY <1>4 DEF Place
  <2>5. QED
    BY <2>1, <2>2, <2>3, <2>4 DEF GoodWindow
<1>6. ASSUME a.at[1] \notin live
      PROVE  /\ Halfway(rest, ws2, m, f, i0, j0) /\ failed2 = failed
             /\ AtIn(ws2, a.at) # {}
  <2>1. Halfway(plan, ws, m, f, i0, j0)
    BY <1>3, <1>4, <1>5, <1>6
  <2>2. PICK first \in BOOLEAN, k \in Nat :
          /\ Remaining(About(plan, p0), WindowActions(f, m[i0], w0, first), k)
          /\ k = 0 => AtIn(ws, p0) = {}
          /\ k # 0 => \E x : AtIn(ws, p0) = {x} /\ Staged(f, w0, k, x)
    BY <2>1 DEF Halfway
  <2> DEFINE acts == WindowActions(f, m[i0], w0, first)
  <2>3. InOrder(acts, p0, first, w0, KeptPanes(f, w0))
    BY <1>5, WindowActionsAre
  <2> HIDE DEF acts, w0, p0
  <2>4. IsSeq(acts)
    BY <2>3 DEF InOrder
  <2>5. Remaining(<<a>> \o About(rest, p0), acts, k) /\ IsSeq(About(rest, p0))
    BY <1>2, <1>5, <2>2 DEF acts
  <2>6. k + 1 \in 1 .. Len(acts) /\ a = acts[k + 1] /\ Remaining(About(rest, p0), acts, k + 1)
    BY <2>4, <2>5, RemainingIs
  <2>7. a.op = "window" <=> k = 0
    <3>1. a.op = "window" <=> k + 1 = 1
      BY <2>3, <2>6 DEF InOrder
    <3>2. QED
      BY <3>1
  <2>8. failed2 = failed /\ \E x : AtIn(ws2, p0) = {x} /\ Staged(f, w0, k + 1, x)
    <3>1. CASE k = 0
      <4>1. a.newSession \/ a.at[1] \in SessionsIn(ws)
        <5>1. 1 \in 1 .. Len(plan) /\ 1 .. 1 - 1 = {}
          BY <1>1
        <5>2. QED
          BY <1>1, <1>3, <1>6, <2>7, <3>1, <5>1
      <4>2. failed2 = failed
        BY <1>5, <2>2, <2>7, <3>1, <4>1 DEF Effect
      <4>3. PICK x : AtIn(ws2, p0) = {x} /\ x.panes = <<Pane(a.run)>> /\ x.deco = ""
        <5>1. Created(a, ws2)
          BY <1>5, <2>2, <2>7, <3>1, <4>1 DEF Effect
        <5>2. QED
          BY <1>5, <5>1 DEF Created
      <4>4. a.run = Startup(KeptPanes(f, w0)[1])
        BY <2>3, <2>6, <3>1 DEF InOrder
      <4>5. Staged(f, w0, 1, x)
        BY <1>5, <4>3, <4>4, FirstStage
      <4>6. k + 1 = 1
        BY <3>1
      <4>7. Staged(f, w0, k + 1, x)
        BY <4>5, <4>6
      <4>8. QED
        BY <4>2, <4>3, <4>7
    <3>2. CASE k # 0
      <4>1. PICK x : AtIn(ws, p0) = {x} /\ Staged(f, w0, k, x)
        BY <2>2, <3>2
      <4>2. a.at \notin failed /\ a.op # "window"
        BY <1>3, <1>6, <2>7, <3>2
      <4>3. AtIn(ws2, p0) = {After(a, x)} /\ failed2 = failed
        BY <1>5, <4>1, <4>2 DEF Effect
      <4>4. x \in ws
        BY <4>1 DEF AtIn
      <4>5. x = [id |-> x.id, sess |-> x.sess, index |-> x.index,
                 panes |-> x.panes, deco |-> x.deco, layout |-> x.layout]
        BY <4>4 DEF AreWindows
      <4>6. k \in Nat \ {0}
        BY <3>2
      <4>7. Staged(f, w0, k + 1, After(a, x))
        BY <1>5, <2>3, <2>6, <4>1, <4>5, <4>6, NextStage
      <4>8. QED
        BY <4>3, <4>7
    <3>3. QED
      BY <3>1, <3>2
  <2>9. k + 1 \in Nat /\ k + 1 # 0
    OBVIOUS
  <2>10. Halfway(rest, ws2, m, f, i0, j0)
    BY <2>6, <2>8, <2>9 DEF Halfway, acts, w0, p0
  <2>11. QED
    BY <1>5, <2>8, <2>10
<1>7. ASSUME NEW i \in Nat, NEW j \in Nat, Due(m, f, running, now, i, j), m[i].name \notin live
      PROVE  Halfway(rest, ws2, m, f, i, j)
  <2> DEFINE p == Place(m[i], m[i].windows[j])
  <2>1. CASE p = a.at
    <3>1. m[i].name = m[i0].name /\ m[i].windows[j].index = m[i0].windows[j0].index
      BY <1>4, <2>1 DEF Place
    <3>2. i = i0
      BY <1>4, <1>7, <3>1 DEF Due, Apart
    <3>3. j = j0
      BY <1>4, <1>7, <3>1, <3>2 DEF Due, Apart, IndexesApart
    <3>4. QED
      BY <1>5, <1>6, <1>7, <3>2, <3>3
  <2>2. CASE p # a.at
    <3>1. Halfway(plan, ws, m, f, i, j)
      BY <1>3, <1>7
    <3>2. About(rest, p) = About(plan, p) /\ AtIn(ws2, p) = AtIn(ws, p)
      BY <1>2, <2>2 DEF Effect
    <3>3. QED
      BY <3>1, <3>2 DEF Halfway
  <2>3. QED
    BY <2>1, <2>2
<1>8. \A p \in failed2 : p[1] \in live
  BY <1>3, <1>6 DEF Effect
<1>9. ASSUME NEW w \in ws2
      PROVE  w.sess \in live \/ DueAt(m, f, running, now, <<w.sess, w.index>>)
  <2> DEFINE p == <<w.sess, w.index>>
  <2>1. CASE p = a.at
    BY <1>1, <1>3, <2>1
  <2>2. CASE p # a.at
    <3>1. w \in AtIn(ws2, p)
      BY DEF AtIn
    <3>2. w \in AtIn(ws, p)
      BY <2>2, <3>1 DEF Effect
    <3>3. QED
      BY <1>3, <3>2 DEF AtIn
  <2>3. QED
    BY <2>1, <2>2
<1>10. a.at[1] \notin live => a.at[1] \in SessionsIn(ws2)
  BY <1>5, <1>6 DEF AtIn, SessionsIn, Place
<1>11. ASSUME NEW x \in 1 .. Len(rest)
       PROVE  /\ DueAt(m, f, running, now, rest[x].at)
              /\ rest[x].op = "window" /\ ~rest[x].newSession /\ rest[x].at[1] \notin live =>
                   \/ rest[x].at[1] \in SessionsIn(ws2)
                   \/ \E y \in 1 .. x - 1 : rest[y].op = "window" /\ rest[y].at[1] = rest[x].at[1]
  <2>1. x + 1 \in 1 .. Len(plan) /\ rest[x] = plan[x + 1] /\ (x + 1) - 1 = x
    BY <1>1
  <2>2. DueAt(m, f, running, now, rest[x].at)
    BY <1>3, <2>1
  <2>3. ASSUME rest[x].op = "window" /\ ~rest[x].newSession /\ rest[x].at[1] \notin live
        PROVE  \/ rest[x].at[1] \in SessionsIn(ws2)
               \/ \E y \in 1 .. x - 1 : rest[y].op = "window" /\ rest[y].at[1] = rest[x].at[1]
    <3>1. \/ rest[x].at[1] \in SessionsIn(ws)
          \/ \E y \in 1 .. x : plan[y].op = "window" /\ plan[y].at[1] = rest[x].at[1]
      BY <1>3, <2>1, <2>3 DEF Effect
    <3>2. ASSUME NEW y \in 1 .. x, plan[y].op = "window" /\ plan[y].at[1] = rest[x].at[1]
          PROVE  \/ rest[x].at[1] \in SessionsIn(ws2)
                 \/ \E z \in 1 .. x - 1 : rest[z].op = "window" /\ rest[z].at[1] = rest[x].at[1]
      <4>1. CASE y = 1
        BY <1>1, <1>10, <2>3, <3>2, <4>1
      <4>2. CASE y # 1
        <5>1. y - 1 \in 1 .. x - 1 /\ y - 1 \in 1 .. Len(rest) /\ (y - 1) + 1 = y
          BY <1>1, <4>2
        <5>2. rest[y - 1] = plan[y]
          BY <1>1, <5>1
        <5>3. QED
          BY <3>2, <5>1, <5>2
      <4>3. QED
        BY <4>1, <4>2
    <3>3. QED
      BY <3>1, <3>2 DEF Effect
  <2>4. QED
    BY <2>2, <2>3
<1>12. QED
  BY <1>7, <1>8, <1>9, <1>11 DEF Completing, rest

\* The rows hold what tmux listed, and a restore that is alone is completing
\* its plan.
AloneInv ==
  /\ \A e \in rows : Apart(e.man)
  /\ Applying =>
       /\ GoodManifest(cmd.snap.man) /\ Apart(cmd.snap.man)
       /\ cmd.alone => Completing(cmd.plan, windows, cmd.live, cmd.failed,
                                 cmd.snap.man, cmd.filter, cmd.running, cmd.now)

LEMMA AloneInit == Init => AloneInv
  BY DEF Init, AloneInv, Applying, Idle

LEMMA AloneBegin ==
  ASSUME IInv, AloneInv, NEW e \in rows, NEW by, NEW f, NEW running,
         cmd' = Begin(by, e, f, running), UNCHANGED <<windows, rows>>
  PROVE  AloneInv'
<1>1. GoodManifest(e.man) /\ Apart(e.man)
  BY DEF IInv, RowsInv, AloneInv
<1>2. Completing(BuildPlan(e.man, f, running, clock), windows, SessionsIn(windows), {},
                 e.man, f, running, clock)
  BY <1>1, CompletingBegins
<1>3. /\ cmd'.snap = e /\ cmd'.plan = BuildPlan(e.man, f, running, clock) /\ cmd'.failed = {}
      /\ cmd'.live = SessionsIn(windows) /\ cmd'.filter = f /\ cmd'.running = running /\ cmd'.now = clock
  BY DEF Begin, Live, SessionsIn
<1>4. QED
  BY <1>1, <1>2, <1>3 DEF AloneInv

\* A user who works meanwhile ends the restore's being alone, if not the restore.
LEMMA AloneUser ==
  ASSUME IInv, AloneInv, User
  PROVE  AloneInv'
<1>1. rows' = rows /\ (cmd' = Idle \/ (~Applying /\ cmd' = cmd) \/ (Applying /\ cmd' = [cmd EXCEPT !.alone = FALSE]))
  <2>1. rows' = rows
    BY DEF User, NewSession, NewWindow, Attach, KillWindow, KillServer, Remain
  <2>2. Disturb \/ cmd' = Idle \/ (Saving /\ cmd' = cmd)
    BY DEF User, NewSession, NewWindow, Attach, KillWindow, KillServer, Remain
  <2>3. QED
    BY <2>1, <2>2 DEF Disturb, Saving, Applying
<1>2. CASE cmd' = Idle
  BY <1>1, <1>2 DEF AloneInv, Applying, Idle
<1>3. CASE ~Applying /\ cmd' = cmd
  BY <1>1, <1>3 DEF AloneInv, Applying
<1>4. CASE Applying /\ cmd' = [cmd EXCEPT !.alone = FALSE]
  <2>1. cmd'.snap = cmd.snap /\ cmd'.alone = FALSE
    BY <1>4 DEF IInv, CmdInv, ApplyInv
  <2>2. QED
    BY <1>1, <1>4, <2>1 DEF AloneInv
<1>5. QED
  BY <1>1, <1>2, <1>3, <1>4

LEMMA AloneSave ==
  ASSUME IInv, AloneInv, SaveStart \/ SaveEnd \/ SaveFails
  PROVE  AloneInv'
<1>1. rows' \subseteq rows \cup {Row}
  BY SaveEndRows DEF SaveStart, SaveFails
<1>2. Apart(Row.man)
  <2>1. Row.man = Manifest
    BY DEF Row
  <2>2. QED
    BY <2>1, ManifestIsApart DEF IInv
<1>3. \A e \in rows' : Apart(e.man)
  BY <1>1, <1>2 DEF AloneInv
<1>4. ~Applying'
  BY DEF SaveStart, SaveEnd, SaveFails, Idle, Applying
<1>5. QED
  BY <1>3, <1>4 DEF AloneInv

\* Restores and picks begin a plan, or none.
LEMMA AlonePick ==
  ASSUME IInv, AloneInv, RestoreAuto \/ RestoreByHand \/ Pick \/ PickCancel \/ PickChoose
  PROVE  AloneInv'
<1>1. UNCHANGED <<windows, rows>> /\ ~Applying
  BY DEF RestoreAuto, RestoreByHand, Pick, PickCancel, PickChoose, tmux, Free, Idle, Applying
<1>2. \/ cmd' = cmd \/ cmd' = Idle \/ cmd' = [op |-> "pick", running |-> Live]
      \/ \E e \in rows : \E by, f, running : cmd' = Begin(by, e, f, running)
  <2>1. CASE RestoreAuto
    BY <2>1 DEF RestoreAuto, Anchor, LatestSnapshotBefore, First, Snapshots
  <2>2. CASE RestoreByHand
    BY <2>2 DEF RestoreByHand, Anchor, LatestSnapshotBefore, First, Snapshots
  <2>3. CASE Pick \/ PickCancel \/ PickChoose
    BY <2>3 DEF Pick, PickCancel, PickChoose
  <2>4. QED
    BY <2>1, <2>2, <2>3
<1>3. CASE cmd' = cmd \/ cmd' = Idle \/ cmd' = [op |-> "pick", running |-> Live]
  BY <1>1, <1>3 DEF AloneInv, Applying, Idle
<1>4. ASSUME NEW e \in rows, NEW by, NEW f, NEW running, cmd' = Begin(by, e, f, running)
      PROVE  AloneInv'
  BY <1>1, <1>4, AloneBegin
<1>5. QED
  BY <1>2, <1>3, <1>4

\* What CreateWindow and Arrange do to windows and failures.
LEMMA CreateEffect ==
  ASSUME IInv, Applying, cmd.plan # <<>>, NEW a, a = Head(cmd.plan), a.op = "window", CreateWindow(a)
  PROVE  Effect(a, windows, cmd.failed, windows', cmd'.failed) /\ cmd' = Onward(cmd'.failed)
<1>1. ApplyInv /\ Ready(cmd.plan, 1, cmd.failed, cmd.old, windows) /\ a = cmd.plan[1]
  BY FirstAction DEF IInv, CmdInv
<1>2. a.at = <<a.at[1], a.at[2]>>
  BY <1>1 DEF Ready
<1>3. CASE At(a.at) = {} /\ (a.newSession \/ a.at[1] \in Live)
  <2> DEFINE w == Fresh(a, a.at)
  <2>1. windows' = windows \cup {w} /\ cmd' = Onward(cmd.failed) /\ cmd'.failed = cmd.failed
    BY <1>1, <1>3, OnwardIs DEF CreateWindow, Onward
  <2>2. <<w.sess, w.index>> = a.at /\ w.panes = <<Pane(a.run)>> /\ w.deco = ""
    BY <1>2 DEF Fresh
  <2> HIDE DEF w
  <2>3. \A p : p # a.at => AtIn(windows', p) = AtIn(windows, p)
    BY <2>1, <2>2 DEF AtIn
  <2>4. AtIn(windows', a.at) = {w}
    BY <1>3, <2>1, <2>2 DEF AtIn, At
  <2>5. Created(a, windows')
    BY <2>2, <2>4 DEF Created
  <2>6. SessionsIn(windows) \subseteq SessionsIn(windows')
    BY <2>1 DEF SessionsIn
  <2>7. QED
    BY <2>1, <2>3, <2>5, <2>6 DEF Effect
<1>4. CASE ~(At(a.at) = {} /\ (a.newSession \/ a.at[1] \in Live))
  <2>1. windows' = windows /\ cmd' = Onward(cmd.failed \cup {a.at}) /\ cmd'.failed = cmd.failed \cup {a.at}
    BY <1>1, <1>4, OnwardIs DEF CreateWindow, Onward
  <2>2. ~(AtIn(windows, a.at) = {} /\ (a.newSession \/ a.at[1] \in SessionsIn(windows)))
    BY <1>4 DEF At, AtIn, Live, SessionsIn
  <2>3. QED
    BY <2>1, <2>2 DEF Effect
<1>5. QED
  BY <1>3, <1>4

LEMMA ArrangeEffect ==
  ASSUME IInv, Applying, cmd.plan # <<>>, NEW a, a = Head(cmd.plan), a.op # "window", Arrange(a)
  PROVE  Effect(a, windows, cmd.failed, windows', cmd'.failed) /\ cmd' = Onward(cmd'.failed)
<1>1. ApplyInv /\ Ready(cmd.plan, 1, cmd.failed, cmd.old, windows) /\ a = cmd.plan[1] /\ ServerInv
  BY FirstAction DEF IInv, CmdInv
<1>2. a.op = "layout" => a.layout[2] \in Int
  BY <1>1 DEF Ready
<1>3. /\ windows' = IF a.at \in cmd.failed THEN windows
                     ELSE (windows \ At(a.at)) \cup {After(a, w) : w \in At(a.at)}
      /\ cmd' = Onward(cmd.failed) /\ cmd'.failed = cmd.failed
  BY <1>1, OnwardIs DEF Arrange, Onward
<1>4. ASSUME NEW w \in windows
      PROVE  After(a, w).sess = w.sess /\ After(a, w).index = w.index
  <2> DEFINE v == After(a, w)
  <2>1. v = [id |-> w.id, sess |-> w.sess, index |-> w.index,
             panes |-> v.panes, deco |-> v.deco, layout |-> v.layout]
    BY <1>1, <1>2, AfterKeeps DEF ServerInv
  <2> HIDE DEF v
  <2>2. v.sess = w.sess /\ v.index = w.index
    BY <2>1
  <2>3. QED
    BY <2>2 DEF v
<1>5. CASE a.at \in cmd.failed
  BY <1>3, <1>5 DEF Effect
<1>6. CASE a.at \notin cmd.failed
  <2>1. windows' = (windows \ At(a.at)) \cup {After(a, w) : w \in At(a.at)}
    BY <1>3, <1>6
  <2>2. \A w \in At(a.at) : w \in windows /\ <<After(a, w).sess, After(a, w).index>> = a.at
    BY <1>4 DEF At
  <2>3. \A p : p # a.at => AtIn(windows', p) = AtIn(windows, p)
    BY <2>1, <2>2 DEF AtIn, At
  <2>4. AtIn(windows', a.at) = {After(a, w) : w \in AtIn(windows, a.at)}
    BY <2>1, <2>2 DEF AtIn, At
  <2>5. SessionsIn(windows) \subseteq SessionsIn(windows')
    <3>1. ASSUME NEW w \in windows PROVE \E v \in windows' : v.sess = w.sess
      BY <1>4, <2>1
    <3>2. QED
      BY <3>1 DEF SessionsIn
  <2>6. QED
    BY <1>3, <2>3, <2>4, <2>5 DEF Effect
<1>7. QED
  BY <1>5, <1>6

LEMMA AloneStep ==
  ASSUME IInv, AloneInv, ApplyStep
  PROVE  AloneInv'
<1> DEFINE a == Head(cmd.plan)
<1>1. /\ Applying /\ cmd.plan # <<>> /\ rows' = rows
      /\ IF a.op = "window" THEN CreateWindow(a) ELSE Arrange(a)
  BY DEF ApplyStep
<1> HIDE DEF a
<1>2. Effect(a, windows, cmd.failed, windows', cmd'.failed) /\ cmd' = Onward(cmd'.failed)
  BY <1>1, CreateEffect, ArrangeEffect DEF a
<1>3. /\ cmd'.snap = cmd.snap /\ cmd'.alone = cmd.alone /\ cmd'.plan = Tail(cmd.plan) /\ cmd'.live = cmd.live
      /\ cmd'.filter = cmd.filter /\ cmd'.running = cmd.running /\ cmd'.now = cmd.now
  BY <1>2 DEF Onward
<1>4. IsSeq(cmd.plan) /\ AreWindows(windows)
  BY <1>1 DEF IInv, CmdInv, ApplyInv, ServerInv, AreWindows
<1>5. GoodManifest(cmd.snap.man) /\ Apart(cmd.snap.man)
  BY <1>1 DEF AloneInv
<1>6. ASSUME cmd.alone
      PROVE  Completing(Tail(cmd.plan), windows', cmd.live, cmd'.failed,
                        cmd.snap.man, cmd.filter, cmd.running, cmd.now)
  <2>1. Completing(cmd.plan, windows, cmd.live, cmd.failed, cmd.snap.man, cmd.filter, cmd.running, cmd.now)
    BY <1>1, <1>6 DEF AloneInv
  <2>2. QED
    BY <1>1, <1>2, <1>4, <1>5, <2>1, CompletingStep DEF a
<1>7. QED
  BY <1>1, <1>3, <1>5, <1>6 DEF AloneInv

LEMMA AloneRest ==
  ASSUME AloneInv, Tick \/ Applied \/ UNCHANGED vars
  PROVE  AloneInv'
<1>1. UNCHANGED <<windows, rows>> /\ (cmd' = cmd \/ cmd' = Idle)
  BY DEF Tick, Applied, vars, tmux
<1>2. QED
  BY <1>1 DEF AloneInv, Applying, Idle

LEMMA AloneInvariance == Spec => []AloneInv
<1>1. IInv /\ AloneInv /\ [Next]_vars => AloneInv'
  BY AloneUser, AloneSave, AlonePick, AloneStep, AloneRest DEF Next
<1>2. QED
  BY <1>1, AloneInit, Invariance, PTL DEF Spec

\* One window is at p, as w was and with the panes that come back.
IsBack(ws, p, f, w) ==
  \E x : /\ AtIn(ws, p) = {x} /\ x.panes = ComesBack(f, w)
         /\ x.deco = w.deco /\ x.layout = w.layout

\* A window whose actions are all done is back.
LEMMA LastStage ==
  ASSUME NEW ws, NEW m, NEW f, NEW i, NEW j, GoodWindow(m[i].windows[j]), Kept(f, m[i].windows[j]),
         NEW plan, plan = <<>>, Halfway(plan, ws, m, f, i, j)
  PROVE  IsBack(ws, Place(m[i], m[i].windows[j]), f, m[i].windows[j])
<1> DEFINE w == m[i].windows[j]
           p == Place(m[i], w)
           n == Len(KeptPanes(f, w))
           d == Deco(w)
<1>1. PICK first \in BOOLEAN, k \in Nat :
        /\ Remaining(About(plan, p), WindowActions(f, m[i], w, first), k)
        /\ k # 0 => \E x : AtIn(ws, p) = {x} /\ Staged(f, w, k, x)
  BY DEF Halfway
<1>2. IsSeq(w.panes) /\ Kept(f, w)
  BY DEF GoodWindow
<1>3. n \in Nat \ {0} /\ d \in {0, 1}
  <2>1. n \in Nat \ {0}
    BY <1>2, KeptPanesAre
  <2>2. d \in {0, 1}
    BY DecoIs
  <2>3. QED
    BY <2>1, <2>2
<1> DEFINE acts == WindowActions(f, m[i], w, first)
<1>4. Len(acts) = d + n + 1
  <2>1. InOrder(acts, p, first, w, KeptPanes(f, w))
    BY <1>2, WindowActionsAre
  <2> HIDE DEF acts, p
  <2>2. QED
    BY <2>1 DEF InOrder
<1>5. Len(About(plan, p)) = 0
  <2>1. IsSeq(plan) /\ 1 .. Len(plan) = {}
    BY DEF IsSeq
  <2>2. About(plan, p) = <<>>
    BY <2>1, AboutNone
  <2>3. QED
    BY <2>2
<1>6. 0 = Len(acts) - k
  BY <1>1, <1>5 DEF Remaining
<1> HIDE DEF n, d, acts, w, p
<1>7. k = d + n + 1 /\ k # 0 /\ k >= d + 1 /\ Started(d, n, k) = n
  BY <1>3, <1>4, <1>6 DEF Started
<1>8. PICK x : AtIn(ws, p) = {x} /\ Staged(f, w, k, x)
  BY <1>1, <1>7
<1>9. x.panes = Filled(f, w, n) /\ x.deco = w.deco /\ x.layout = w.layout
  BY <1>7, <1>8 DEF Staged, n, d
<1>10. x.panes = ComesBack(f, w)
  BY <1>2, <1>9, ComesBackIs DEF n
<1>11. QED
  BY <1>8, <1>9, <1>10 DEF IsBack, p, w

\* A window comes back with a pane if and only if the filter keeps one.
LEMMA ComesBackWithPanes ==
  ASSUME NEW f, NEW w, IsSeq(w.panes)
  PROVE  ComesBack(f, w) # <<>> <=> Kept(f, w)
<1> DEFINE n == Len(KeptPanes(f, w))
           s == ComesBack(f, w)
<1>1. n \in Nat /\ (Kept(f, w) => n # 0) /\ (~Kept(f, w) => KeptPanes(f, w) = <<>>)
  BY KeptPanesAre
<1>2. ~Kept(f, w) => n = 0
  BY <1>1
<1>3. s = [k \in 1 .. Fitting(n) |-> Pane(Startup(KeptPanes(f, w)[k]))]
  BY ComesBackIs DEF Filled
<1>4. DOMAIN s = 1 .. Fitting(n)
  BY <1>3
<1> HIDE DEF n, s
<1>5. Kept(f, w) => 1 \in DOMAIN s
  BY <1>1, <1>4, RestoreAssumption DEF Fitting
<1>6. ~Kept(f, w) => DOMAIN s = {}
  BY <1>2, <1>4, RestoreAssumption DEF Fitting
<1>7. Kept(f, w) => s # <<>>
  BY <1>5
<1>8. ~Kept(f, w) => s = <<>>
  <2>1. ASSUME ~Kept(f, w) PROVE s = <<>>
    <3>1. s = [k \in {} |-> Pane(Startup(KeptPanes(f, w)[k]))]
      BY <1>3, <1>4, <1>6, <2>1
    <3>2. s \in Seq({}) /\ Len(s) = 0
      BY <3>1
    <3>3. QED
      BY <3>2
  <2>2. QED
    BY <2>1
<1>9. QED
  BY <1>7, <1>8 DEF s

\* `restore` and the picker, on a server nobody works on meanwhile, bring back
\* every session that is neither skipped nor live: every window of which a pane
\* is kept, at its index, with its decoration and layout and the panes that
\* fit, and nothing else (apply.go, plan.go) - for every snapshot a save can
\* have made, filter, set of running sessions, base-index and room.
THEOREM RestoresAreComplete == Spec => []RestoreIsComplete
<1> DEFINE m    == cmd.snap.man
           due(i, j) == Due(m, cmd.filter, cmd.running, cmd.now, i, j)
           back(s, w) == [id |-> 0, sess |-> s.name, index |-> w.index,
                          panes |-> ComesBack(cmd.filter, w), deco |-> w.deco, layout |-> w.layout]
           kept == {s \in {cmd.snap.man[i] : i \in DOMAIN cmd.snap.man} :
                      s.name \notin cmd.live /\ SkipReason(cmd.filter, s, cmd.running, cmd.now) = ""}
           is(s) == {[w EXCEPT !.id = 0] : w \in {v \in windows : v.sess = s.name}}
           owed(s) == {w \in {back(s, w) : w \in {s.windows[i] : i \in DOMAIN s.windows}} : w.panes # <<>>}
<1>1. ASSUME IInv, AloneInv, Applying, cmd.plan = <<>>, cmd.alone
      PROVE  /\ \A s \in kept : is(s) = owed(s)
             /\ Live \subseteq cmd.live \cup {s.name : s \in kept}
  <2>1. GoodManifest(m) /\ Apart(m) /\ AreWindows(windows)
    BY <1>1 DEF AloneInv, IInv, ServerInv, AreWindows
  <2>2. /\ \A i, j \in Nat : due(i, j) /\ m[i].name \notin cmd.live => Halfway(<<>>, windows, m, cmd.filter, i, j)
        /\ \A w \in windows : w.sess \in cmd.live \/
              \E i, j \in Nat : due(i, j) /\ <<w.sess, w.index>> = Place(m[i], m[i].windows[j])
    BY <1>1 DEF AloneInv, Completing, DueAt
  <2>3. /\ DOMAIN m = 1 .. Len(m) /\ Len(m) \in Nat
        /\ \A i \in 1 .. Len(m) :
             /\ DOMAIN m[i].windows = 1 .. Len(m[i].windows) /\ Len(m[i].windows) \in Nat
             /\ \A j \in 1 .. Len(m[i].windows) : GoodWindow(m[i].windows[j])
    BY <2>1, IsSeqDomain DEF GoodManifest, GoodSession
  <2> HIDE DEF m
  <2>4. ASSUME NEW i \in Nat, NEW j \in Nat, due(i, j), m[i].name \notin cmd.live
        PROVE  \E x \in windows : /\ AtIn(windows, Place(m[i], m[i].windows[j])) = {x}
                                  /\ [x EXCEPT !.id = 0] = back(m[i], m[i].windows[j])
    <3> DEFINE w == m[i].windows[j]
    <3>1. GoodWindow(w) /\ Kept(cmd.filter, w)
      BY <2>3, <2>4 DEF Due
    <3>2. PICK x : /\ AtIn(windows, Place(m[i], w)) = {x} /\ x.panes = ComesBack(cmd.filter, w)
                   /\ x.deco = w.deco /\ x.layout = w.layout
      <4>1. Halfway(cmd.plan, windows, m, cmd.filter, i, j) /\ cmd.plan = <<>>
        BY <1>1, <2>2, <2>4
      <4> HIDE DEF due
      <4>2. IsBack(windows, Place(m[i], w), cmd.filter, w)
        BY <3>1, <4>1, LastStage
      <4>3. QED
        BY <4>2 DEF IsBack
    <3>3. x \in windows /\ x.sess = m[i].name /\ x.index = w.index
      BY <3>2 DEF AtIn, Place
    <3>4. x = [id |-> x.id, sess |-> x.sess, index |-> x.index,
               panes |-> x.panes, deco |-> x.deco, layout |-> x.layout]
      BY <2>1, <3>3 DEF AreWindows
    <3> HIDE DEF w
    <3>5. [x EXCEPT !.id = 0] = [id |-> 0, sess |-> x.sess, index |-> x.index,
                                 panes |-> x.panes, deco |-> x.deco, layout |-> x.layout]
      BY <3>4
    <3>6. [x EXCEPT !.id = 0] = back(m[i], w)
      BY <3>2, <3>3, <3>5
    <3>7. QED
      BY <3>2, <3>3, <3>6 DEF w
  <2>5. ASSUME NEW s \in kept
        PROVE  is(s) = owed(s)
    <3>1. PICK i \in 1 .. Len(m) : s = m[i]
      BY <2>3 DEF m
    <3>2. s.name \notin cmd.live /\ SkipReason(cmd.filter, s, cmd.running, cmd.now) = "" /\ i \in Nat
      <4>1. s.name \notin cmd.live /\ SkipReason(cmd.filter, s, cmd.running, cmd.now) = ""
        OBVIOUS
      <4>2. i \in Nat
        <5> HIDE DEF kept
        <5>1. QED
          BY <2>3
      <4>3. QED
        BY <4>1, <4>2
    <3> HIDE DEF kept
    <3>3. \A j \in 1 .. Len(s.windows) :
            /\ j \in Nat /\ (due(i, j) <=> Kept(cmd.filter, s.windows[j]))
            /\ Kept(cmd.filter, s.windows[j]) <=> ComesBack(cmd.filter, s.windows[j]) # <<>>
      <4> TAKE j \in 1 .. Len(s.windows)
      <4>1. j \in Nat /\ GoodWindow(s.windows[j])
        BY <2>3, <3>1
      <4>2. due(i, j) <=> Kept(cmd.filter, s.windows[j])
        BY <3>1, <3>2 DEF Due
      <4>3. Kept(cmd.filter, s.windows[j]) <=> ComesBack(cmd.filter, s.windows[j]) # <<>>
        BY <4>1, ComesBackWithPanes DEF GoodWindow
      <4>4. QED
        BY <4>1, <4>2, <4>3
    <3>4. \A v \in owed(s) : \E j \in 1 .. Len(s.windows) : due(i, j) /\ v = back(s, s.windows[j])
      <4> TAKE v \in owed(s)
      <4>1. PICK j \in 1 .. Len(s.windows) : v = back(s, s.windows[j])
        BY <2>3, <3>1
      <4>2. v.panes = ComesBack(cmd.filter, s.windows[j]) /\ v.panes # <<>>
        BY <4>1
      <4>3. QED
        BY <3>3, <4>1, <4>2
    <3>5. \A j \in 1 .. Len(s.windows) : due(i, j) => back(s, s.windows[j]) \in owed(s)
      <4> TAKE j \in 1 .. Len(s.windows)
      <4>1. HAVE due(i, j)
      <4>2. back(s, s.windows[j]).panes # <<>>
        BY <3>3, <4>1
      <4>3. QED
        BY <2>3, <3>1, <4>2
    <3>6. ASSUME NEW v \in owed(s) PROVE v \in is(s)
      <4>1. PICK j \in 1 .. Len(s.windows) : due(i, j) /\ v = back(s, s.windows[j])
        BY <3>4
      <4>2. PICK x \in windows : /\ AtIn(windows, Place(m[i], m[i].windows[j])) = {x}
                                 /\ [x EXCEPT !.id = 0] = back(m[i], m[i].windows[j])
        BY <2>4, <3>1, <3>2, <3>3, <4>1
      <4>3. x.sess = s.name
        BY <3>1, <4>2 DEF AtIn, Place
      <4> HIDE DEF back
      <4>4. QED
        BY <3>1, <4>1, <4>2, <4>3
    <3>7. ASSUME NEW x \in windows, x.sess = s.name PROVE [x EXCEPT !.id = 0] \in owed(s)
      <4>1. PICK k \in Nat, j \in Nat : due(k, j) /\ <<x.sess, x.index>> = Place(m[k], m[k].windows[j])
        BY <2>2, <3>2, <3>7
      <4>2. k = i /\ j \in 1 .. Len(s.windows)
        BY <2>1, <3>1, <3>7, <4>1 DEF Due, Place, Apart
      <4>3. PICK y \in windows : /\ AtIn(windows, Place(m[i], m[i].windows[j])) = {y}
                                 /\ [y EXCEPT !.id = 0] = back(m[i], m[i].windows[j])
        BY <2>4, <3>1, <3>2, <4>1, <4>2
      <4>4. x = y
        BY <4>1, <4>2, <4>3 DEF AtIn
      <4> HIDE DEF back
      <4>5. QED
        BY <3>1, <3>5, <4>1, <4>2, <4>3, <4>4
    <3> HIDE DEF owed
    <3>8. QED
      BY <3>6, <3>7
  <2>6. Live \subseteq cmd.live \cup {s.name : s \in kept}
    <3>1. ASSUME NEW w \in windows, w.sess \notin cmd.live
          PROVE  \E s \in kept : s.name = w.sess
      <4>1. PICK i \in Nat, j \in Nat : due(i, j) /\ <<w.sess, w.index>> = Place(m[i], m[i].windows[j])
        BY <2>2, <3>1
      <4>2. /\ i \in DOMAIN m /\ m[i].name = w.sess
            /\ SkipReason(cmd.filter, m[i], cmd.running, cmd.now) = ""
        BY <2>3, <4>1 DEF Due, Place
      <4>3. QED
        BY <3>1, <4>2 DEF m
    <3>2. QED
      BY <3>1 DEF Live
  <2>7. QED
    BY <2>5, <2>6
<1>2. IInv /\ AloneInv => RestoreIsComplete
  BY <1>1 DEF RestoreIsComplete
<1>3. QED
  BY <1>2, Invariance, AloneInvariance, PTL
=============================================================================
