--------------------------- MODULE CloseListProofs ---------------------------
(***************************************************************************)
(* The list of closes is right, however many closes there are, of whatever *)
(* keys and times and in whatever order.                                   *)
(***************************************************************************)
EXTENDS CloseList, SequenceProofs

\* What a row shows of the group of its key among the closes of C.
ShowsItsGroup(row, C) ==
  LET group == {c \in C : CollapseKey(c) = row.key}
  IN  /\ row.kind = "close" /\ row.ts \in Int
      /\ row.count = Cardinality(group)
      /\ \E c \in group : c.id = row.id /\ c.ts = row.ts
      /\ \A c \in group : c.ts <= row.ts

\* A row for each key among the closes of C.
GoodGroups(rows, C) ==
  /\ IsSeq(rows)
  /\ \A i \in 1 .. Len(rows) : ShowsItsGroup(rows[i], C)
  /\ \A i, j \in 1 .. Len(rows) : rows[i].key = rows[j].key => i = j
  /\ \A c \in C : \E i \in 1 .. Len(rows) : rows[i].key = CollapseKey(c)

Sorted(rows) == \A i, j \in 1 .. Len(rows) : i < j => rows[i].ts >= rows[j].ts

\* A row of its own for a close that has no group yet.
LEMMA RowIsGood ==
  ASSUME NEW C, NEW c, c.ts \in Int, \A d \in C : CollapseKey(d) # CollapseKey(c)
  PROVE  ShowsItsGroup(Row(c), C \cup {c})
<1>1. {d \in C \cup {c} : CollapseKey(d) = Row(c).key} = {c}
  BY DEF Row
<1>2. Cardinality({c}) = 1
  BY FS_Singleton
<1>3. QED
  BY <1>1, <1>2 DEF ShowsItsGroup, Row

\* A group with one more close.
LEMMA JoinedIsGood ==
  ASSUME NEW C, IsFiniteSet(C), \A d \in C : d.ts \in Int, NEW c, c.ts \in Int, c \notin C,
         NEW g, ShowsItsGroup(g, C), g.key = CollapseKey(c)
  PROVE  ShowsItsGroup(Joined(g, c), C \cup {c}) /\ Joined(g, c).key = g.key
<1> DEFINE key == CollapseKey(c)
           old == {d \in C : CollapseKey(d) = key}
           new == {d \in C \cup {c} : CollapseKey(d) = key}
<1>1. new = old \cup {c} /\ c \notin old
  OBVIOUS
<1>2. IsFiniteSet(old)
  BY FS_Subset, old \in SUBSET C
<1>3. Cardinality(new) = Cardinality(old) + 1
  <2> HIDE DEF old, new
  <2>1. QED
    BY <1>1, <1>2, FS_AddElement
<1>4. /\ g.ts \in Int /\ g.count = Cardinality(old)
      /\ \E d \in old : d.id = g.id /\ d.ts = g.ts
      /\ \A d \in old : d.ts <= g.ts
  BY DEF ShowsItsGroup
<1> HIDE DEF key, old
<1>T. \A d \in old : d.ts \in Int
  BY DEF old
<1>5. Joined(g, c).kind = "close" /\ Joined(g, c).key = key /\ Joined(g, c).count = g.count + 1
  BY DEF Joined, key
<1>6. CASE c.ts > g.ts
  <2>1. Joined(g, c).ts = c.ts /\ Joined(g, c).id = c.id
    BY <1>6 DEF Joined
  <2>2. \A d \in old \cup {c} : d.ts <= c.ts
    BY <1>4, <1>6, <1>T
  <2>3. QED
    BY <1>1, <1>3, <1>4, <1>5, <2>1, <2>2 DEF ShowsItsGroup, key
<1>7. CASE ~(c.ts > g.ts)
  <2>1. Joined(g, c).ts = g.ts /\ Joined(g, c).id = g.id
    BY <1>7 DEF Joined
  <2>2. \A d \in old \cup {c} : d.ts <= g.ts
    BY <1>4, <1>7
  <2>3. QED
    BY <1>1, <1>3, <1>4, <1>5, <2>1, <2>2 DEF ShowsItsGroup, key
<1>8. QED
  BY <1>6, <1>7

LEMMA JoinIsGood ==
  ASSUME NEW C, IsFiniteSet(C), \A d \in C : d.ts \in Int, NEW c, c.ts \in Int, c \notin C,
         NEW gs, GoodGroups(gs, C)
  PROVE  GoodGroups(Join(gs, c), C \cup {c})
<1> DEFINE key == CollapseKey(c)
           n == Len(gs)
           joined == Join(gs, c)
<1>1. n \in Nat /\ DOMAIN gs = 1 .. n /\ IsSeq(gs)
  BY IsSeqDomain DEF GoodGroups
<1>2. /\ \A i \in 1 .. n : ShowsItsGroup(gs[i], C)
      /\ \A i, j \in 1 .. n : gs[i].key = gs[j].key => i = j
      /\ \A d \in C : \E i \in 1 .. n : gs[i].key = CollapseKey(d)
  BY DEF GoodGroups
<1>3. ASSUME NEW g, ShowsItsGroup(g, C), g.key # key
      PROVE  ShowsItsGroup(g, C \cup {c})
  <2>1. {d \in C \cup {c} : CollapseKey(d) = g.key} = {d \in C : CollapseKey(d) = g.key}
    BY <1>3
  <2>2. QED
    BY <1>3, <2>1 DEF ShowsItsGroup
<1>4. CASE \E i \in 1 .. n : gs[i].key = key
  <2>1. joined = [i \in 1 .. n |-> IF gs[i].key = key THEN Joined(gs[i], c) ELSE gs[i]]
    BY <1>1, <1>4 DEF Join
  <2> HIDE DEF joined, n, key
  <2>2. IsSeq(joined) /\ Len(joined) = n
    BY <1>1, <2>1, IsSeqFunction
  <2>3. \A i \in 1 .. n : ShowsItsGroup(joined[i], C \cup {c}) /\ joined[i].key = gs[i].key
    <3> TAKE i \in 1 .. n
    <3>1. ShowsItsGroup(gs[i], C)
      BY <1>2
    <3>2. CASE gs[i].key = key
      <4> DEFINE g == gs[i]
      <4>1. joined[i] = Joined(g, c) /\ ShowsItsGroup(g, C) /\ g.key = CollapseKey(c)
        BY <2>1, <3>1, <3>2 DEF key
      <4> HIDE DEF g
      <4>2. ShowsItsGroup(Joined(g, c), C \cup {c}) /\ Joined(g, c).key = g.key
        BY <4>1, JoinedIsGood
      <4>3. QED
        BY <4>1, <4>2 DEF g
    <3>3. CASE gs[i].key # key
      BY <1>3, <2>1, <3>1, <3>3
    <3>4. QED
      BY <3>2, <3>3
  <2>4. \A d \in C \cup {c} : \E i \in 1 .. n : joined[i].key = CollapseKey(d)
    BY <1>2, <1>4, <2>3 DEF key
  <2>5. QED
    BY <1>2, <2>2, <2>3, <2>4 DEF GoodGroups, joined
<1>5. CASE ~ \E i \in 1 .. n : gs[i].key = key
  <2> DEFINE row == Row(c)
  <2>1. joined = Append(gs, row)
    BY <1>1, <1>5 DEF Join
  <2>2. row.key = key /\ ShowsItsGroup(row, C \cup {c})
    BY <1>2, <1>5, RowIsGood DEF Row
  <2> HIDE DEF joined, n, key, row
  <2>3. /\ IsSeq(joined) /\ Len(joined) = n + 1 /\ joined[n + 1] = row
        /\ \A i \in 1 .. n : joined[i] = gs[i]
    <3> DEFINE A == {gs[i] : i \in DOMAIN gs} \cup {row}
    <3>1. gs \in Seq(A) /\ row \in A /\ Len(gs) = n
      BY <1>1 DEF IsSeq, n
    <3> HIDE DEF A
    <3>2. /\ Append(gs, row) \in Seq(A) /\ Len(Append(gs, row)) = n + 1 /\ Append(gs, row)[n + 1] = row
          /\ \A i \in 1 .. n : Append(gs, row)[i] = gs[i]
      BY <3>1
    <3>3. QED
      BY <2>1, <3>2, IsSeqOfAnything
  <2>4. \A i \in 1 .. n + 1 : i = n + 1 \/ i \in 1 .. n
    BY <1>1
  <2>5. \A i \in 1 .. n + 1 : ShowsItsGroup(joined[i], C \cup {c})
    BY <1>2, <1>3, <1>5, <2>2, <2>3, <2>4
  <2>6. \A i, j \in 1 .. n + 1 : joined[i].key = joined[j].key => i = j
    BY <1>2, <1>5, <2>2, <2>3, <2>4
  <2>7. \A d \in C \cup {c} : \E i \in 1 .. n + 1 : joined[i].key = CollapseKey(d)
    BY <1>1, <1>2, <2>2, <2>3 DEF key
  <2>8. QED
    BY <2>3, <2>5, <2>6, <2>7 DEF GoodGroups, joined
<1>6. QED
  BY <1>4, <1>5

\* The closes that are put in groups.
ClosesOf(closes, n, S) == {closes[i] : i \in {k \in 1 .. n : closes[k] \in S}}

\* No close is listed twice.
Distinct(closes) ==
  /\ IsSeq(closes)
  /\ \A i, j \in 1 .. Len(closes) : closes[i].id = closes[j].id => i = j
  /\ \A i \in 1 .. Len(closes) : closes[i].ts \in Int

\* Groups, one close at a time.
LEMMA GroupsSteps ==
  ASSUME NEW closes, Len(closes) \in Nat, NEW S
  PROVE  \E g : /\ g[0] = <<>>
                /\ \A i \in 1 .. Len(closes) :
                     g[i] = IF closes[i] \in S THEN Join(g[i - 1], closes[i]) ELSE g[i - 1]
                /\ Groups(closes, S) = g[Len(closes)]
<1> DEFINE n == Len(closes)
           Step(g, i) == IF i = 0 THEN <<>>
                         ELSE IF closes[i] \in S THEN Join(g[i - 1], closes[i]) ELSE g[i - 1]
           T == {k \in Nat : \E g : g = [i \in 0 .. k |-> Step(g, i)]}
           groups == CHOOSE g : g = [i \in 0 .. n |-> Step(g, i)]
<1>1. 0 \in T
  <2> DEFINE g == [i \in 0 .. 0 |-> <<>>]
  <2>1. g = [i \in 0 .. 0 |-> Step(g, i)]
    OBVIOUS
  <2> HIDE DEF g
  <2>2. QED
    BY <2>1
<1>2. ASSUME NEW k \in Nat, k \in T PROVE k + 1 \in T
  <2>1. PICK g : g = [i \in 0 .. k |-> Step(g, i)]
    BY <1>2
  <2> DEFINE h == [i \in 0 .. k + 1 |-> IF i = k + 1 THEN Step(g, k + 1) ELSE g[i]]
  <2>2. \A i \in 0 .. k : h[i] = g[i]
    OBVIOUS
  <2>3. h[k + 1] = Step(g, k + 1)
    BY DEF h
  <2>4. h = [i \in 0 .. k + 1 |-> h[i]]
    OBVIOUS
  <2> HIDE DEF h
  <2>5. \A i \in 0 .. k + 1 : h[i] = Step(h, i)
    <3> TAKE i \in 0 .. k + 1
    <3>1. CASE i = k + 1
      <4>1. i # 0 /\ i - 1 \in 0 .. k
        BY <3>1
      <4>2. h[i - 1] = g[i - 1]
        BY <4>1, <2>2
      <4>3. QED
        BY <2>3, <3>1, <4>1, <4>2
    <3>2. CASE i = 0
      BY <2>1, <2>2, <3>2
    <3>3. CASE i # k + 1 /\ i # 0
      <4>1. i \in 0 .. k /\ i - 1 \in 0 .. k
        BY <3>3
      <4>2. g[i] = Step(g, i) /\ h[i] = g[i] /\ h[i - 1] = g[i - 1]
        BY <2>1, <2>2, <4>1
      <4>3. QED
        BY <3>3, <4>2
    <3>4. QED
      BY <3>1, <3>2, <3>3
  <2>6. h = [i \in 0 .. k + 1 |-> Step(h, i)]
    BY <2>4, <2>5
  <2>7. QED
    BY <2>6
<1>3. n \in T
  <2> HIDE DEF T
  <2>1. QED
    BY <1>1, <1>2, NatInduct
<1>4. groups = [i \in 0 .. n |-> Step(groups, i)]
  <2>1. \E g : g = [i \in 0 .. n |-> Step(g, i)]
    BY <1>3
  <2>2. QED
    BY <2>1
<1>5. Groups(closes, S) = groups[n]
  BY DEF Groups
<1> HIDE DEF groups, n
<1>6. \A i \in 0 .. n : groups[i] = Step(groups, i)
  BY <1>4
<1>7. groups[0] = <<>>
  BY <1>6 DEF n
<1>8. \A i \in 1 .. n : groups[i] = IF closes[i] \in S THEN Join(groups[i - 1], closes[i]) ELSE groups[i - 1]
  BY <1>6
<1>9. QED
  BY <1>5, <1>7, <1>8 DEF n

\* The groups of a list of closes.
LEMMA GroupsAreGood ==
  ASSUME NEW closes, Distinct(closes), NEW S
  PROVE  GoodGroups(Groups(closes, S), ClosesOf(closes, Len(closes), S))
<1> DEFINE n == Len(closes)
           C(k) == ClosesOf(closes, k, S)
<1>1. n \in Nat /\ \A i \in 1 .. n : closes[i].ts \in Int
  BY IsSeqDomain DEF Distinct
<1>2. PICK g : /\ g[0] = <<>>
               /\ \A i \in 1 .. n :
                    g[i] = IF closes[i] \in S THEN Join(g[i - 1], closes[i]) ELSE g[i - 1]
               /\ Groups(closes, S) = g[n]
  BY <1>1, GroupsSteps
<1> DEFINE T == {k \in Nat : k <= n => GoodGroups(g[k], C(k))}
<1>3. 0 \in T
  <2>1. C(0) = {}
    BY DEF ClosesOf
  <2>2. IsSeq(<<>>) /\ Len(<<>>) = 0
    BY DEF IsSeq
  <2>3. GoodGroups(<<>>, {})
    BY <2>2 DEF GoodGroups
  <2>4. QED
    BY <1>2, <2>1, <2>3
<1>4. ASSUME NEW k \in Nat, k \in T, k + 1 <= n PROVE GoodGroups(g[k + 1], C(k + 1))
  <2> DEFINE c == closes[k + 1]
             K == C(k)
  <2>1. k + 1 \in 1 .. n /\ (k + 1) - 1 = k /\ k <= n
    BY <1>1, <1>4
  <2>2. GoodGroups(g[k], K)
    BY <1>4, <2>1
  <2>3. g[k + 1] = IF c \in S THEN Join(g[k], c) ELSE g[k]
    BY <1>2, <2>1
  <2>4. \A i \in 1 .. k : i \in 1 .. n /\ i # k + 1
    BY <1>1, <2>1
  <2>5. c \notin K /\ c.ts \in Int /\ \A d \in K : d.ts \in Int
    BY <1>1, <2>1, <2>4 DEF ClosesOf, Distinct
  <2>6. IsFiniteSet(K)
    <3> DEFINE D == {i \in 1 .. k : closes[i] \in S}
    <3>1. IsFiniteSet(1 .. k) /\ D \in SUBSET (1 .. k)
      BY FS_Interval
    <3>2. IsFiniteSet(D)
      BY <3>1, FS_Subset
    <3> DEFINE f == [i \in D |-> closes[i]]
    <3>3. f \in Surjection(D, K)
      BY DEF Surjection, ClosesOf
    <3> HIDE DEF D, f
    <3>4. QED
      BY <3>2, <3>3, FS_Surjection
  <2>7. \A i \in 1 .. k + 1 : i = k + 1 \/ i \in 1 .. k
    OBVIOUS
  <2>8. CASE c \in S
    <3>1. C(k + 1) = K \cup {c}
      <4>1. k + 1 \in 1 .. k + 1 /\ \A i \in 1 .. k : i \in 1 .. k + 1
        OBVIOUS
      <4>2. QED
        BY <2>7, <2>8, <4>1 DEF ClosesOf
    <3> HIDE DEF c, K
    <3>2. GoodGroups(Join(g[k], c), K \cup {c})
      <4> DEFINE gs == g[k]
      <4>1. GoodGroups(gs, K)
        BY <2>2
      <4> HIDE DEF gs
      <4>2. GoodGroups(Join(gs, c), K \cup {c})
        BY <2>5, <2>6, <4>1, JoinIsGood
      <4>3. QED
        BY <4>2 DEF gs
    <3>3. QED
      BY <2>3, <2>8, <3>1, <3>2
  <2>9. CASE c \notin S
    <3>1. C(k + 1) = K
      <4>1. \A i \in 1 .. k : i \in 1 .. k + 1
        OBVIOUS
      <4>2. QED
        BY <2>7, <2>9, <4>1 DEF ClosesOf
    <3>2. QED
      BY <2>2, <2>3, <2>9, <3>1
  <2>10. QED
    BY <2>8, <2>9
<1>5. n \in T
  <2>1. \A k \in Nat : k \in T => k + 1 \in T
    BY <1>4
  <2> HIDE DEF T
  <2>2. QED
    BY <1>1, <1>3, <2>1, NatInduct
<1>6. QED
  BY <1>1, <1>2, <1>5

-----------------------------------------------------------------------------
(* What is taken from a sequence *)

\* g takes them from s one position at a time.
Takes(g, A, s, keep) ==
  /\ g \in [0 .. Len(s) -> Seq(A)] /\ g[0] = <<>> /\ Those(s, keep) = g[Len(s)]
  /\ \A i \in 1 .. Len(s) : g[i] = IF keep[i] THEN Append(g[i - 1], s[i]) ELSE g[i - 1]

LEMMA ThoseSteps ==
  ASSUME NEW A, NEW s \in Seq(A), NEW keep
  PROVE  \E g : Takes(g, A, s, keep)
<1> DEFINE n == Len(s)
           V == Seq(A)
           Step(g, i) == IF i = 0 THEN <<>> ELSE IF keep[i] THEN Append(g[i - 1], s[i]) ELSE g[i - 1]
           F == [i \in Nat |-> [t \in V |-> IF i + 1 \in 1 .. n /\ keep[i + 1] THEN Append(t, s[i + 1]) ELSE t]]
           those == CHOOSE g : g = [i \in 0 .. n |-> Step(g, i)]
<1>1. n \in Nat /\ \A i \in 1 .. n : s[i] \in A
  OBVIOUS
<1>2. <<>> \in V /\ \A t \in V, x \in A : Append(t, x) \in V
  OBVIOUS
<1>3. Those(s, keep) = those[n]
  BY DEF Those
<1> HIDE DEF V, n
<1>4. F \in [Nat -> [V -> V]]
  BY <1>1, <1>2
<1>5. PICK h \in [0 .. n -> V] : h[0] = <<>> /\ \A i \in 0 .. n - 1 : h[i + 1] = F[i][h[i]]
  <2> DEFINE v == <<>>
  <2>1. v \in V
    BY <1>2
  <2> HIDE DEF F, v
  <2>2. Iterates(F, v, V, n) # {}
    BY <1>1, <1>4, <2>1, Recursion
  <2>3. QED
    BY <2>2 DEF Iterates, v
<1>6. \A i \in 0 .. n : h[i] = Step(h, i)
  <2> TAKE i \in 0 .. n
  <2>1. CASE i = 0
    BY <1>5, <2>1
  <2>2. CASE i # 0
    <3>1. i - 1 \in 0 .. n - 1 /\ i - 1 \in Nat /\ (i - 1) + 1 = i /\ i \in 1 .. n /\ h[i - 1] \in V
      BY <1>1, <2>2
    <3>2. F[i - 1][h[i - 1]] = IF keep[i] THEN Append(h[i - 1], s[i]) ELSE h[i - 1]
      BY <3>1
    <3>3. QED
      BY <1>5, <2>2, <3>1, <3>2
  <2>3. QED
    BY <2>1, <2>2
<1>7. h = [i \in 0 .. n |-> Step(h, i)]
  BY <1>6
<1>8. those = [i \in 0 .. n |-> Step(those, i)]
  BY <1>7
<1> HIDE DEF those
<1>9. \A i \in 0 .. n : those[i] = Step(those, i)
  BY <1>8
<1>10. \A i \in 0 .. n : those[i] \in V
  <2> DEFINE T == {k \in Nat : k \in 0 .. n => those[k] \in V}
  <2>1. 0 \in T
    BY <1>1, <1>2, <1>9
  <2>2. ASSUME NEW k \in Nat, k \in T PROVE k + 1 \in T
    <3> SUFFICES ASSUME k + 1 \in 0 .. n PROVE those[k + 1] \in V
      OBVIOUS
    <3>1. k \in 0 .. n /\ k + 1 # 0 /\ (k + 1) - 1 = k /\ k + 1 \in 1 .. n /\ those[k] \in V
      BY <1>1, <2>2
    <3>2. those[k + 1] = IF keep[k + 1] THEN Append(those[k], s[k + 1]) ELSE those[k]
      BY <1>9, <3>1
    <3>3. QED
      BY <1>1, <1>2, <3>1, <3>2
  <2> HIDE DEF T
  <2>3. Nat \subseteq T
    BY <2>1, <2>2, NatInduct
  <2>4. QED
    BY <1>1, <2>3 DEF T
<1>11. those \in [0 .. n -> V]
  BY <1>8, <1>10
<1>12. those[0] = <<>>
  BY <1>1, <1>9
<1>13. \A i \in 1 .. n : those[i] = IF keep[i] THEN Append(those[i - 1], s[i]) ELSE those[i - 1]
  BY <1>9
<1>14. QED
  BY <1>3, <1>11, <1>12, <1>13 DEF n, V, Takes

\* Those where keep is true, by what each position adds.
LEMMA ThoseIs ==
  ASSUME NEW A, NEW s \in Seq(A), NEW keep
  PROVE  /\ Those(s, keep) \in Seq(A)
         /\ Those(s, keep) = FlattenSeq([i \in DOMAIN s |-> IF keep[i] THEN <<s[i]>> ELSE <<>>])
<1> DEFINE n == Len(s)
           T == [i \in DOMAIN s |-> IF keep[i] THEN <<s[i]>> ELSE <<>>]
<1>1. n \in Nat /\ DOMAIN s = 1 .. n /\ \A i \in 1 .. n : s[i] \in A
  OBVIOUS
<1>0. PICK g : Takes(g, A, s, keep)
  BY ThoseSteps
<1>2. /\ g \in [0 .. n -> Seq(A)] /\ g[0] = <<>> /\ Those(s, keep) = g[n]
      /\ \A i \in 1 .. n : g[i] = IF keep[i] THEN Append(g[i - 1], s[i]) ELSE g[i - 1]
  BY <1>0 DEF Takes
<1> HIDE DEF n
<1>3. Those(s, keep) \in Seq(A)
  BY <1>1, <1>2
<1>4. CASE n = 0
  <2>1. T = <<>>
    BY <1>1, <1>4
  <2>2. QED
    BY <1>2, <1>3, <1>4, <2>1 DEF FlattenSeq
<1>5. CASE n # 0
  <2>1. \A i \in 1 .. n : T[i] = (IF keep[i] THEN <<s[i]>> ELSE <<>>) /\ T[i] \in Seq(A)
    BY <1>1
  <2>2. T \in [1 .. n -> Seq(A)]
    BY <1>1, <2>1
  <2> HIDE DEF T
  <2> DEFINE V == Seq(A)
  <2>3. T \in Seq(V) /\ Len(T) = n
    BY <1>1, <2>2
  <2>4. PICK h \in [1 .. n -> V] :
          /\ h[1] = T[1]
          /\ \A i \in 2 .. n : h[i] = h[i - 1] \o T[i]
          /\ FlattenSeq(T) = h[n]
    BY <1>5, <2>3, FlattenSeqSteps
  <2>5. ASSUME NEW t \in Seq(A), NEW i \in 1 .. n
        PROVE  t \o T[i] = IF keep[i] THEN Append(t, s[i]) ELSE t
    <3>1. s[i] \in A /\ (keep[i] => T[i] = <<s[i]>>) /\ (~keep[i] => T[i] = <<>>)
      BY <1>1, <2>1
    <3> DEFINE x == s[i]
    <3> HIDE DEF x
    <3>2. t \o <<x>> = Append(t, x) /\ t \o <<>> = t
      BY <3>1 DEF x
    <3>3. QED
      BY <3>1, <3>2 DEF x
  <2> DEFINE S == {k \in Nat : k \in 1 .. n => g[k] = h[k]}
  <2>6. 0 \in S
    OBVIOUS
  <2>7. ASSUME NEW k \in Nat, k \in S PROVE k + 1 \in S
    <3> SUFFICES ASSUME k + 1 \in 1 .. n PROVE g[k + 1] = h[k + 1]
      OBVIOUS
    <3>1. k \in 0 .. n /\ (k + 1) - 1 = k
      BY <1>1
    <3>5. g[k] \in Seq(A)
      BY <1>2, <3>1
    <3> DEFINE a == g[k]
    <3>2. g[k + 1] = a \o T[k + 1]
      <4>1. g[k + 1] = IF keep[k + 1] THEN Append(a, s[k + 1]) ELSE a
        BY <1>2, <3>1
      <4>2. a \in Seq(A)
        BY <3>5
      <4> HIDE DEF a
      <4>3. QED
        BY <2>5, <4>1, <4>2
    <3>3. CASE k = 0
      <4>1. g[1] = T[1]
        <5>1. T[1] \in Seq(A)
          BY <1>1, <1>5, <2>2
        <5>2. <<>> \o T[1] = T[1]
          BY <5>1
        <5>3. g[1] = g[0] \o T[1]
          BY <3>2, <3>3, 0 + 1 = 1
        <5>4. QED
          BY <1>2, <5>2, <5>3
      <4>2. QED
        BY <2>4, <3>3, <4>1
    <3>4. CASE k # 0
      <4>1. k + 1 \in 2 .. n /\ g[k] = h[k]
        BY <1>1, <2>7, <3>4
      <4>2. h[k + 1] = h[k] \o T[k + 1]
        BY <2>4, <3>1, <4>1
      <4>3. QED
        BY <3>2, <4>1, <4>2
    <3>6. QED
      BY <3>3, <3>4
  <2> HIDE DEF S
  <2>8. Nat \subseteq S
    BY <2>6, <2>7, NatInduct
  <2>9. g[n] = h[n]
    BY <1>1, <1>5, <2>8 DEF S
  <2>10. QED
    BY <1>2, <1>3, <2>4, <2>9 DEF T
<1>6. QED
  BY <1>4, <1>5

\* keep is c of each element; K makes R's of those where c is true.
Keeps(keep, s, c)     == \A i \in DOMAIN s : keep[i] = c[s[i]]
MapsSome(K, A, c, R) == \A x \in A : K[x] = IF c[x] THEN <<R[x]>> ELSE <<>>

\* What R makes of each of those where c is true.
LEMMA ThoseMapped ==
  ASSUME NEW A, NEW B, NEW s \in Seq(A), NEW c, NEW keep, Keeps(keep, s, c),
         NEW R, NEW K, Maps(K, A, B), MapsSome(K, A, c, R)
  PROVE  Mapped(Those(s, keep), R) = FlatMap(K, s)
<1> DEFINE those == Those(s, keep)
           C == {x \in A : c[x]}
           F == [x \in A |-> IF c[x] THEN <<x>> ELSE <<>>]
           G == [x \in C |-> <<R[x]>>]
<1>1. Maps(F, A, C)
  <2>1. ASSUME NEW x \in A PROVE (IF c[x] THEN <<x>> ELSE <<>>) \in Seq(C)
    <3>1. CASE c[x]
      BY <3>1
    <3>2. CASE ~c[x]
      BY <3>2
    <3>3. QED
      BY <3>1, <3>2
  <2> HIDE DEF C
  <2>2. QED
    BY <2>1 DEF Maps
<1>2. Maps(G, C, B)
  <2>1. ASSUME NEW x \in C PROVE <<R[x]>> \in Seq(B)
    BY DEF Maps, MapsSome
  <2>2. QED
    BY <2>1 DEF Maps
<1>3. \A x \in A : F[x] = IF c[x] THEN <<x>> ELSE <<>>
  OBVIOUS
<1>4. MapsOne(G, C, R) /\ \A x \in A : c[x] <=> x \in C
  BY DEF MapsOne
<1>5. those = FlatMap(F, s)
  <2> DEFINE T == [i \in DOMAIN s |-> IF keep[i] THEN <<s[i]>> ELSE <<>>]
  <2>1. \A i \in DOMAIN s : F[s[i]] = T[i]
    BY DEF Keeps
  <2>2. [i \in DOMAIN s |-> F[s[i]]] = T
    BY <2>1
  <2>3. those = FlattenSeq(T)
    BY ThoseIs
  <2> HIDE DEF T
  <2>4. QED
    BY <2>2, <2>3 DEF FlatMap
<1> HIDE DEF those, F, G, C
<1>6. those \in Seq(C)
  BY <1>1, <1>5, FlatMapSteps
<1>7. Mapped(those, R) = FlatMap(G, those)
  BY <1>2, <1>4, <1>6, FlatMapIsMap
<1>8. ASSUME NEW x \in A PROVE K[x] = FlatMap(G, F[x])
  <2>1. CASE c[x]
    <3>1. x \in C /\ F[x] = <<x>> /\ K[x] = <<R[x]>>
      BY <1>3, <1>4, <2>1 DEF MapsSome
    <3>2. FlatMap(G, <<x>>) = G[x]
      BY <1>2, <3>1, FlatMapOne
    <3>3. QED
      BY <1>4, <3>1, <3>2 DEF MapsOne
  <2>2. CASE ~c[x]
    <3>1. FlatMap(G, <<>>) = <<>>
      BY <1>2, FlatMapSteps
    <3>2. QED
      BY <1>3, <2>2, <3>1 DEF MapsSome
  <2>3. QED
    BY <2>1, <2>2
<1>9. Composed(K, A, G, F)
  BY <1>8 DEF Composed
<1>10. FlatMap(G, FlatMap(F, s)) = FlatMap(K, s)
  BY <1>1, <1>2, <1>9, FlatMapTwice
<1>11. QED
  BY <1>5, <1>7, <1>10 DEF those

-----------------------------------------------------------------------------
\* What is closed downwards among 1 .. n is 1 .. its cardinality.
LEMMA Prefix ==
  ASSUME NEW n \in Nat, NEW S \in SUBSET (1 .. n), \A i \in S, j \in 1 .. n : j < i => j \in S
  PROVE  Cardinality(S) \in 0 .. n /\ S = 1 .. Cardinality(S)
<1> DEFINE Down(k, R) == \A i \in R, j \in 1 .. k : j < i => j \in R
           T == {k \in Nat : \A R \in SUBSET (1 .. k) : Down(k, R) => \E m \in 0 .. k : R = 1 .. m}
<1>1. 0 \in T
  <2>1. 0 \in 0 .. 0 /\ \A R \in SUBSET (1 .. 0) : R = 1 .. 0
    OBVIOUS
  <2>2. \A R \in SUBSET (1 .. 0) : \E m \in 0 .. 0 : R = 1 .. m
    BY <2>1
  <2>3. QED
    BY <2>2
<1>2. ASSUME NEW k \in Nat, k \in T PROVE k + 1 \in T
  <2> SUFFICES ASSUME NEW R \in SUBSET (1 .. k + 1), Down(k + 1, R)
               PROVE  \E m \in 0 .. k + 1 : R = 1 .. m
    OBVIOUS
  <2>1. CASE k + 1 \in R
    <3>1. \A j \in 1 .. k + 1 : j = k + 1 \/ j < k + 1
      OBVIOUS
    <3>2. \A j \in 1 .. k + 1 : j \in R
      BY <2>1, <3>1
    <3>3. R = 1 .. k + 1
      BY <3>2
    <3>4. k + 1 \in 0 .. k + 1
      OBVIOUS
    <3>5. QED
      BY <3>3, <3>4
  <2>2. CASE k + 1 \notin R
    <3>1. R \in SUBSET (1 .. k) /\ Down(k, R)
      BY <2>2
    <3>2. PICK m \in 0 .. k : R = 1 .. m
      BY <1>2, <3>1
    <3>3. QED
      BY <3>2
  <2>3. QED
    BY <2>1, <2>2
<1>3. n \in T
  <2> HIDE DEF T
  <2>1. QED
    BY <1>1, <1>2, NatInduct
<1>4. PICK m \in 0 .. n : S = 1 .. m
  BY <1>3
<1>5. Cardinality(1 .. m) = m
  BY FS_Interval
<1>6. QED
  BY <1>4, <1>5

LEMMA ConcatIs ==
  ASSUME NEW A, NEW s \in Seq(A), NEW t \in Seq(A)
  PROVE  /\ s \o t \in Seq(A) /\ Len(s \o t) = Len(s) + Len(t)
         /\ \A i \in 1 .. Len(s) : (s \o t)[i] = s[i]
         /\ \A i \in 1 .. Len(t) : (s \o t)[Len(s) + i] = t[i]
  OBVIOUS

\* Where a group goes among the ranks: after the newer and the equal ones.
LEMMA RankedIs ==
  ASSUME NEW r, IsSeq(r), Sorted(r), \A i \in 1 .. Len(r) : r[i].ts \in Int, NEW g, g.ts \in Int
  PROVE  \E k \in 0 .. Len(r) :
           /\ IsSeq(Ranked(r, g)) /\ Len(Ranked(r, g)) = Len(r) + 1
           /\ \A i \in 1 .. k : Ranked(r, g)[i] = r[i] /\ r[i].ts >= g.ts
           /\ Ranked(r, g)[k + 1] = g
           /\ \A i \in k + 1 .. Len(r) : Ranked(r, g)[i + 1] = r[i] /\ r[i].ts < g.ts
<1> DEFINE n == Len(r)
           S == {i \in 1 .. n : r[i].ts >= g.ts}
           k == Cardinality(S)
<1>1. n \in Nat /\ DOMAIN r = 1 .. n
  BY IsSeqDomain
<1>2. S \in SUBSET (1 .. n) /\ \A i \in S, j \in 1 .. n : j < i => j \in S
  BY <1>1 DEF Sorted
<1>3. k \in 0 .. n /\ S = 1 .. k
  <2> HIDE DEF S, n
  <2>1. QED
    BY <1>1, <1>2, Prefix
<1>4. \A i \in 1 .. k : r[i].ts >= g.ts
  BY <1>3
<1>5. \A i \in k + 1 .. n : r[i].ts < g.ts
  <2> TAKE i \in k + 1 .. n
  <2> HIDE DEF S, k
  <2>1. i \in 1 .. n /\ i \notin S
    BY <1>1, <1>3
  <2>2. ~(r[i].ts >= g.ts) /\ r[i].ts \in Int
    BY <2>1 DEF S
  <2>3. QED
    BY <2>2
<1>6. Ranked(r, g) = InsertAt(r, 1 + k, g)
  BY <1>1 DEF Ranked
<1> DEFINE A == {r[i] : i \in DOMAIN r} \cup {g}
           x == SubSeq(r, 1, k)
           y == SubSeq(r, k + 1, n)
           one == <<g>>
           ranked == x \o one \o y
<1> HIDE DEF k, S
<1>7. r \in Seq(A) /\ g \in A
  BY <1>1 DEF IsSeq
<1>8. Ranked(r, g) = ranked
  <2>1. (1 + k) - 1 = k /\ 1 + k = k + 1
    BY <1>3
  <2>2. QED
    BY <1>6, <2>1 DEF InsertAt
<1>9. one \in Seq(A) /\ Len(one) = 1 /\ one[1] = g
  BY <1>7
<1> HIDE DEF A, one, n
<1>10. x \in Seq(A) /\ Len(x) = k /\ \A i \in 1 .. k : x[i] = r[i]
  BY <1>1, <1>3, <1>7 DEF n
<1>11. y \in Seq(A) /\ Len(y) = n - k /\ \A i \in 1 .. n - k : y[i] = r[k + i]
  <2>1. \A i \in k + 1 .. n : r[i] \in A
    BY <1>1, <1>3, <1>7 DEF n
  <2>2. y = [i \in 1 .. n - k |-> r[k + i]]
    <3>1. n - (k + 1) + 1 = n - k /\ \A i \in 1 .. n - k : (k + 1) + i - 1 = k + i
      BY <1>1, <1>3
    <3>2. y = [i \in 1 .. n - (k + 1) + 1 |-> r[(k + 1) + i - 1]]
      BY <1>1, <1>3, <1>7 DEF n
    <3>3. QED
      BY <3>1, <3>2
  <2>3. \A i \in 1 .. n - k : k + i \in k + 1 .. n
    BY <1>1, <1>3
  <2>4. n - k \in Nat
    BY <1>1, <1>3
  <2> HIDE DEF y
  <2>5. y \in [1 .. n - k -> A]
    BY <2>1, <2>2, <2>3
  <2>6. QED
    BY <2>2, <2>4, <2>5
<1> HIDE DEF x, y
<1> DEFINE z == x \o one
<1>12. z \in Seq(A) /\ Len(z) = k + 1 /\ z[k + 1] = g /\ \A i \in 1 .. k : z[i] = r[i]
  <2>0. x \in Seq(A) /\ one \in Seq(A)
    BY <1>9, <1>10
  <2>1. /\ z \in Seq(A) /\ Len(z) = Len(x) + Len(one)
        /\ \A i \in 1 .. Len(x) : z[i] = x[i]
        /\ \A i \in 1 .. Len(one) : z[Len(x) + i] = one[i]
    BY <2>0, ConcatIs
  <2> HIDE DEF z
  <2>2. QED
    BY <1>3, <1>9, <1>10, <2>1
<1> HIDE DEF z
<1>13. /\ ranked \in Seq(A) /\ Len(ranked) = n + 1
       /\ \A i \in 1 .. k + 1 : ranked[i] = z[i]
       /\ \A i \in 1 .. n - k : ranked[(k + 1) + i] = y[i]
  <2>1. ranked = z \o y
    BY DEF z
  <2> HIDE DEF ranked
  <2>2. QED
    BY <1>1, <1>3, <1>11, <1>12, <2>1
<1> HIDE DEF ranked
<1>14. \A i \in 1 .. k : ranked[i] = r[i]
  BY <1>3, <1>12, <1>13
<1>15. ranked[k + 1] = g
  BY <1>3, <1>12, <1>13
<1>16. \A i \in k + 1 .. n : ranked[i + 1] = r[i]
  <2> TAKE i \in k + 1 .. n
  <2>1. i - k \in 1 .. n - k /\ (k + 1) + (i - k) = i + 1 /\ k + (i - k) = i
    BY <1>1, <1>3
  <2>2. ranked[(k + 1) + (i - k)] = y[i - k] /\ y[i - k] = r[k + (i - k)]
    BY <1>11, <1>13, <2>1
  <2>3. QED
    BY <2>1, <2>2
<1>17. IsSeq(ranked)
  BY <1>13, IsSeqOfAnything
<1>18. QED
  BY <1>3, <1>4, <1>5, <1>8, <1>13, <1>14, <1>15, <1>16, <1>17 DEF n

\* The first m groups, ranked.
RankedWell(r, groups, m) ==
  /\ IsSeq(r) /\ Sorted(r)
  /\ \A i \in 1 .. Len(r) : \E j \in 1 .. m : r[i] = groups[j]
  /\ \A j \in 1 .. m : \E i \in 1 .. Len(r) : r[i] = groups[j]
  /\ \A i, j \in 1 .. Len(r) : r[i].key = r[j].key => i = j

LEMMA RankedStep ==
  ASSUME NEW groups, NEW m \in Nat, \A i \in 1 .. m + 1 : groups[i].ts \in Int,
         \A i, j \in 1 .. m + 1 : groups[i].key = groups[j].key => i = j,
         NEW r, RankedWell(r, groups, m)
  PROVE  RankedWell(Ranked(r, groups[m + 1]), groups, m + 1)
<1> DEFINE g == groups[m + 1]
           n == Len(r)
           s == Ranked(r, g)
<1>1. n \in Nat /\ IsSeq(r) /\ Sorted(r)
  BY IsSeqDomain DEF RankedWell
<1>2. \A i \in 1 .. m : i \in 1 .. m + 1 /\ i # m + 1
  OBVIOUS
<1>3. m + 1 \in 1 .. m + 1 /\ \A i \in 1 .. m + 1 : i = m + 1 \/ i \in 1 .. m
  OBVIOUS
<1>4. g.ts \in Int /\ \A i \in 1 .. n : r[i].ts \in Int /\ r[i].key # g.key
  <2>1. g.ts \in Int
    BY <1>3
  <2>2. ASSUME NEW i \in 1 .. n PROVE r[i].ts \in Int /\ r[i].key # g.key
    <3>1. PICK j \in 1 .. m : r[i] = groups[j]
      BY <2>2 DEF RankedWell
    <3>2. QED
      BY <1>2, <1>3, <3>1
  <2>3. QED
    BY <2>1, <2>2
<1> HIDE DEF g
<1>5. PICK k \in 0 .. n :
        /\ IsSeq(s) /\ Len(s) = n + 1
        /\ \A i \in 1 .. k : s[i] = r[i] /\ r[i].ts >= g.ts
        /\ s[k + 1] = g
        /\ \A i \in k + 1 .. n : s[i + 1] = r[i] /\ r[i].ts < g.ts
  BY <1>1, <1>4, RankedIs
<1> HIDE DEF s, n
<1>6. ASSUME NEW i \in 1 .. n + 1, i # k + 1
      PROVE  \E j \in 1 .. n : /\ s[i] = r[j] /\ (i < k + 1 => j = i /\ r[j].ts >= g.ts)
                              /\ (i > k + 1 => j = i - 1 /\ r[j].ts < g.ts)
  <2>1. CASE i < k + 1
    <3>1. i \in 1 .. k /\ i \in 1 .. n
      BY <1>1, <2>1
    <3>2. QED
      BY <1>5, <2>1, <3>1
  <2>2. CASE i > k + 1
    <3>1. i - 1 \in k + 1 .. n /\ i - 1 \in 1 .. n /\ (i - 1) + 1 = i
      BY <1>1, <2>2
    <3>2. s[i] = r[i - 1] /\ r[i - 1].ts < g.ts
      BY <1>5, <3>1
    <3>3. QED
      BY <2>2, <3>1, <3>2
  <2>3. QED
    BY <1>6, <2>1, <2>2
<1>7. Sorted(s)
  <2> SUFFICES ASSUME NEW i \in 1 .. n + 1, NEW j \in 1 .. n + 1, i < j PROVE s[i].ts >= s[j].ts
    BY <1>5 DEF Sorted
  <2>1. CASE i = k + 1
    <3>1. j # k + 1 /\ j > k + 1
      BY <2>1
    <3>2. QED
      BY <1>4, <1>5, <1>6, <2>1, <3>1
  <2>2. CASE j = k + 1
    <3>1. i # k + 1 /\ i < k + 1
      BY <2>2
    <3>2. QED
      BY <1>4, <1>5, <1>6, <2>2, <3>1
  <2>3. CASE i # k + 1 /\ j # k + 1
    <3>1. PICK a \in 1 .. n : /\ s[i] = r[a] /\ (i < k + 1 => a = i /\ r[a].ts >= g.ts)
                              /\ (i > k + 1 => a = i - 1 /\ r[a].ts < g.ts)
      BY <1>6, <2>3
    <3>2. PICK b \in 1 .. n : /\ s[j] = r[b] /\ (j < k + 1 => b = j /\ r[b].ts >= g.ts)
                              /\ (j > k + 1 => b = j - 1 /\ r[b].ts < g.ts)
      BY <1>6, <2>3
    <3>3. r[a].ts \in Int /\ r[b].ts \in Int /\ g.ts \in Int
      BY <1>4
    <3>4. CASE i < k + 1 /\ j > k + 1
      BY <3>1, <3>2, <3>3, <3>4
    <3>5. CASE ~(i < k + 1 /\ j > k + 1)
      <4>1. a < b
        BY <2>3, <3>1, <3>2, <3>5
      <4>2. r[a].ts >= r[b].ts
        BY <1>1, <4>1 DEF Sorted, n
      <4>3. QED
        BY <3>1, <3>2, <4>2
    <3>6. QED
      BY <3>4, <3>5
  <2>4. QED
    BY <2>1, <2>2, <2>3
<1>8. \A i \in 1 .. n + 1 : \E j \in 1 .. m + 1 : s[i] = groups[j]
  <2> TAKE i \in 1 .. n + 1
  <2>1. CASE i = k + 1
    BY <1>3, <1>5, <2>1 DEF g
  <2>2. CASE i # k + 1
    <3>1. PICK j \in 1 .. n : s[i] = r[j]
      BY <1>6, <2>2
    <3>2. QED
      BY <1>2, <3>1 DEF RankedWell, n
  <2>3. QED
    BY <2>1, <2>2
<1>9. \A j \in 1 .. m + 1 : \E i \in 1 .. n + 1 : s[i] = groups[j]
  <2> TAKE j \in 1 .. m + 1
  <2>1. CASE j = m + 1
    <3>1. k + 1 \in 1 .. n + 1
      BY <1>1
    <3>2. QED
      BY <1>5, <2>1, <3>1 DEF g
  <2>2. CASE j # m + 1
    <3>1. j \in 1 .. m
      BY <2>2
    <3>2. PICK i \in 1 .. n : r[i] = groups[j]
      BY <3>1 DEF RankedWell, n
    <3>3. CASE i <= k
      <4>1. i \in 1 .. k /\ i \in 1 .. n + 1
        BY <1>1, <3>3
      <4>2. QED
        BY <1>5, <3>2, <4>1
    <3>4. CASE ~(i <= k)
      <4>1. i \in k + 1 .. n /\ i + 1 \in 1 .. n + 1
        BY <1>1, <3>4
      <4>2. QED
        BY <1>5, <3>2, <4>1
    <3>5. QED
      BY <3>3, <3>4
  <2>3. QED
    BY <2>1, <2>2
<1>10. \A i, j \in 1 .. n + 1 : s[i].key = s[j].key => i = j
  <2> SUFFICES ASSUME NEW i \in 1 .. n + 1, NEW j \in 1 .. n + 1, s[i].key = s[j].key PROVE i = j
    OBVIOUS
  <2>1. CASE i = k + 1 \/ j = k + 1
    BY <1>4, <1>5, <1>6, <2>1
  <2>2. CASE i # k + 1 /\ j # k + 1
    <3>1. PICK a \in 1 .. n : /\ s[i] = r[a] /\ (i < k + 1 => a = i)
                              /\ (i > k + 1 => a = i - 1) /\ (i < k + 1 => r[a].ts >= g.ts)
                              /\ (i > k + 1 => r[a].ts < g.ts)
      BY <1>6, <2>2
    <3>2. PICK b \in 1 .. n : /\ s[j] = r[b] /\ (j < k + 1 => b = j)
                              /\ (j > k + 1 => b = j - 1) /\ (j < k + 1 => r[b].ts >= g.ts)
                              /\ (j > k + 1 => r[b].ts < g.ts)
      BY <1>6, <2>2
    <3>3. a = b
      BY <3>1, <3>2 DEF RankedWell, n
    <3>4. r[a].ts \in Int /\ g.ts \in Int
      BY <1>4
    <3>5. QED
      BY <2>2, <3>1, <3>2, <3>3, <3>4
  <2>3. QED
    BY <2>1, <2>2
<1>11. QED
  BY <1>5, <1>7, <1>8, <1>9, <1>10 DEF RankedWell, s, g

\* The ranks, one group at a time.
LEMMA FinishSteps ==
  ASSUME NEW groups, Len(groups) \in Nat
  PROVE  \E r : /\ r[0] = <<>>
                /\ \A i \in 1 .. Len(groups) : r[i] = Ranked(r[i - 1], groups[i])
                /\ FinishCloseGroups(groups) = r[Len(groups)]
<1> DEFINE n == Len(groups)
           Step(r, i) == IF i = 0 THEN <<>> ELSE Ranked(r[i - 1], groups[i])
           T == {k \in Nat : \E r : r = [i \in 0 .. k |-> Step(r, i)]}
           ranks == CHOOSE r : r = [i \in 0 .. n |-> Step(r, i)]
<1>1. 0 \in T
  <2> DEFINE r == [i \in 0 .. 0 |-> <<>>]
  <2>1. r = [i \in 0 .. 0 |-> Step(r, i)]
    OBVIOUS
  <2> HIDE DEF r
  <2>2. QED
    BY <2>1
<1>2. ASSUME NEW k \in Nat, k \in T PROVE k + 1 \in T
  <2>1. PICK r : r = [i \in 0 .. k |-> Step(r, i)]
    BY <1>2
  <2> DEFINE h == [i \in 0 .. k + 1 |-> IF i = k + 1 THEN Step(r, k + 1) ELSE r[i]]
  <2>2. \A i \in 0 .. k : h[i] = r[i]
    OBVIOUS
  <2>3. h[k + 1] = Step(r, k + 1)
    BY DEF h
  <2>4. h = [i \in 0 .. k + 1 |-> h[i]]
    OBVIOUS
  <2> HIDE DEF h
  <2>5. \A i \in 0 .. k + 1 : h[i] = Step(h, i)
    <3> TAKE i \in 0 .. k + 1
    <3>1. CASE i = k + 1
      <4>1. i # 0 /\ i - 1 \in 0 .. k
        BY <3>1
      <4>2. h[i - 1] = r[i - 1]
        BY <4>1, <2>2
      <4>3. QED
        BY <2>3, <3>1, <4>1, <4>2
    <3>2. CASE i = 0
      BY <2>1, <2>2, <3>2
    <3>3. CASE i # k + 1 /\ i # 0
      <4>1. i \in 0 .. k /\ i - 1 \in 0 .. k
        BY <3>3
      <4>2. r[i] = Step(r, i) /\ h[i] = r[i] /\ h[i - 1] = r[i - 1]
        BY <2>1, <2>2, <4>1
      <4>3. QED
        BY <3>3, <4>2
    <3>4. QED
      BY <3>1, <3>2, <3>3
  <2>6. h = [i \in 0 .. k + 1 |-> Step(h, i)]
    BY <2>4, <2>5
  <2>7. QED
    BY <2>6
<1>3. n \in T
  <2> HIDE DEF T
  <2>1. QED
    BY <1>1, <1>2, NatInduct
<1>4. ranks = [i \in 0 .. n |-> Step(ranks, i)]
  <2>1. \E r : r = [i \in 0 .. n |-> Step(r, i)]
    BY <1>3
  <2>2. QED
    BY <2>1
<1>5. FinishCloseGroups(groups) = ranks[n]
  BY DEF FinishCloseGroups
<1> HIDE DEF ranks, n
<1>6. \A i \in 0 .. n : ranks[i] = Step(ranks, i)
  BY <1>4
<1>7. ranks[0] = <<>>
  BY <1>6 DEF n
<1>8. \A i \in 1 .. n : ranks[i] = Ranked(ranks[i - 1], groups[i])
  BY <1>6
<1>9. QED
  BY <1>5, <1>7, <1>8 DEF n

\* The groups in their final order.
LEMMA FinishIsGood ==
  ASSUME NEW C, NEW groups, GoodGroups(groups, C)
  PROVE  GoodGroups(FinishCloseGroups(groups), C) /\ Sorted(FinishCloseGroups(groups))
<1> DEFINE n == Len(groups)
           ranks == FinishCloseGroups(groups)
<1>1. n \in Nat /\ \A i \in 1 .. n : ShowsItsGroup(groups[i], C) /\ groups[i].ts \in Int
  BY IsSeqDomain DEF GoodGroups, ShowsItsGroup
<1>2. \A i, j \in 1 .. n : groups[i].key = groups[j].key => i = j
  BY DEF GoodGroups
<1>3. PICK r : /\ r[0] = <<>>
               /\ \A i \in 1 .. n : r[i] = Ranked(r[i - 1], groups[i])
               /\ ranks = r[n]
  BY <1>1, FinishSteps
<1> HIDE DEF n, ranks
<1> DEFINE T == {k \in Nat : k <= n => RankedWell(r[k], groups, k)}
<1>4. 0 \in T
  <2>1. IsSeq(<<>>) /\ Len(<<>>) = 0
    BY DEF IsSeq
  <2>2. RankedWell(<<>>, groups, 0)
    BY <2>1 DEF RankedWell, Sorted
  <2>3. QED
    BY <1>3, <2>2
<1>5. ASSUME NEW k \in Nat, k \in T, k + 1 <= n PROVE RankedWell(r[k + 1], groups, k + 1)
  <2> DEFINE rk == r[k]
  <2>1. k + 1 \in 1 .. n /\ (k + 1) - 1 = k /\ k <= n
    BY <1>1, <1>5
  <2>2. RankedWell(rk, groups, k)
    BY <1>5, <2>1
  <2>3. r[k + 1] = Ranked(rk, groups[k + 1])
    BY <1>3, <2>1
  <2>4. \A i \in 1 .. k + 1 : i \in 1 .. n
    BY <1>1, <2>1
  <2>5. \A i \in 1 .. k + 1 : groups[i].ts \in Int
    BY <1>1, <2>4
  <2>6. \A i, j \in 1 .. k + 1 : groups[i].key = groups[j].key => i = j
    BY <1>2, <2>4
  <2> HIDE DEF rk
  <2>7. QED
    BY <2>2, <2>3, <2>5, <2>6, RankedStep
<1>6. n \in T
  <2>1. \A k \in Nat : k \in T => k + 1 \in T
    BY <1>5
  <2> HIDE DEF T
  <2>2. QED
    BY <1>1, <1>4, <2>1, NatInduct
<1>7. RankedWell(ranks, groups, n)
  BY <1>1, <1>3, <1>6
<1>8. \A i \in 1 .. Len(ranks) : ShowsItsGroup(ranks[i], C)
  <2> TAKE i \in 1 .. Len(ranks)
  <2>1. PICK j \in 1 .. n : ranks[i] = groups[j]
    BY <1>7 DEF RankedWell
  <2>2. QED
    BY <1>1, <2>1
<1>9. \A c \in C : \E i \in 1 .. Len(ranks) : ranks[i].key = CollapseKey(c)
  <2> TAKE c \in C
  <2>1. PICK j \in 1 .. n : groups[j].key = CollapseKey(c)
    BY DEF GoodGroups, n
  <2>2. PICK i \in 1 .. Len(ranks) : ranks[i] = groups[j]
    BY <1>7 DEF RankedWell
  <2>3. QED
    BY <2>1, <2>2
<1>10. QED
  BY <1>7, <1>8, <1>9 DEF GoodGroups, RankedWell, ranks

-----------------------------------------------------------------------------
CloseRows(rows) == {i \in 1 .. Len(rows) : Selectable(rows[i])}

\* One header, or the two in their order, each over the rows of its section.
GoodHeaders(rows, current, titles) ==
  /\ \A h \in Headers(rows) : rows[h].section \in titles
  /\ \A h, k \in Headers(rows) : h < k => rows[h].section = "this" /\ rows[k].section = "other"
  /\ \A h \in Headers(rows), i \in CloseRows(rows) : Under(rows, h, i) =>
       rows[h].section = IF OfSession(rows[i], current) THEN "this" ELSE "other"

\* Headers with the groups of C under them.
GoodList(rows, C) ==
  /\ IsSeq(rows)
  /\ \A c \in C : \E i \in CloseRows(rows) : rows[i].key = CollapseKey(c)
  /\ \A i, j \in CloseRows(rows) : rows[i].key = rows[j].key => i = j
  /\ \A i \in CloseRows(rows) :
       ShowsItsGroup(rows[i], C) /\ i # 1 /\ (i - 1 \in CloseRows(rows) => rows[i - 1].ts >= rows[i].ts)
  /\ \A i \in (1 .. Len(rows)) \ CloseRows(rows) : rows[i].id = 0 /\ i + 1 \in CloseRows(rows)

\* A section is its header and its groups, or nothing.
LEMMA SectionIsGood ==
  ASSUME NEW C, NEW groups, GoodGroups(groups, C), NEW title
  PROVE  GoodList(Section(title, groups), C)
<1>1. CASE groups = <<>>
  <2>1. IsSeq(<<>>) /\ Len(<<>>) = 0
    BY DEF IsSeq
  <2>2. C = {}
    BY <1>1, <2>1 DEF GoodGroups
  <2>3. Section(title, groups) = <<>>
    BY <1>1 DEF Section
  <2>4. CloseRows(<<>>) = {}
    BY <2>1 DEF CloseRows
  <2>5. QED
    BY <2>1, <2>2, <2>3, <2>4 DEF GoodList
<1>2. CASE groups # <<>>
  <2> DEFINE head == Header(title)
             one == <<head>>
             fin == FinishCloseGroups(groups)
             n == Len(fin)
             rows == Section(title, groups)
             A == {fin[i] : i \in DOMAIN fin} \cup {head}
  <2>1. GoodGroups(fin, C) /\ Sorted(fin)
    BY FinishIsGood
  <2>2. n \in Nat /\ fin \in Seq(A)
    BY <2>1, IsSeqDomain DEF GoodGroups, IsSeq
  <2>3. n # 0
    <3>1. Len(groups) \in Nat /\ Len(groups) # 0
      BY <1>2 DEF GoodGroups, IsSeq
    <3>2. ShowsItsGroup(groups[1], C)
      BY <3>1 DEF GoodGroups
    <3>3. PICK c \in C : TRUE
      BY <3>2 DEF ShowsItsGroup
    <3>4. PICK i \in 1 .. n : fin[i].key = CollapseKey(c)
      BY <2>1 DEF GoodGroups
    <3>5. QED
      BY <3>4
  <2>4. rows = one \o fin
    BY <1>2 DEF Section
  <2>5. head.kind # "close" /\ head.id = 0
    BY DEF Header
  <2> HIDE DEF head
  <2>6. one \in Seq(A) /\ Len(one) = 1 /\ one[1] = head
    OBVIOUS
  <2> HIDE DEF rows, A, one
  <2>7. rows \in Seq(A) /\ Len(rows) = n + 1 /\ rows[1] = head /\ \A i \in 1 .. n : rows[i + 1] = fin[i]
    <3>1. /\ rows \in Seq(A) /\ Len(rows) = Len(one) + Len(fin)
          /\ \A i \in 1 .. Len(one) : rows[i] = one[i]
          /\ \A i \in 1 .. Len(fin) : rows[Len(one) + i] = fin[i]
      <4>1. one \in Seq(A) /\ fin \in Seq(A)
        BY <2>2, <2>6
      <4> HIDE DEF fin
      <4>2. QED
        BY <2>4, <4>1, ConcatIs
    <3> HIDE DEF fin
    <3>2. QED
      BY <2>2, <2>6, <3>1
  <2> HIDE DEF fin, n
  <2>8. /\ \A i \in 1 .. n : fin[i].kind = "close" /\ ShowsItsGroup(fin[i], C)
        /\ \A i, j \in 1 .. n : fin[i].key = fin[j].key => i = j
        /\ \A c \in C : \E i \in 1 .. n : fin[i].key = CollapseKey(c)
        /\ \A i, j \in 1 .. n : i < j => fin[i].ts >= fin[j].ts
    BY <2>1 DEF GoodGroups, ShowsItsGroup, Sorted, n
  <2>9. \A i \in 2 .. n + 1 : i - 1 \in 1 .. n /\ rows[i] = fin[i - 1]
    <3> TAKE i \in 2 .. n + 1
    <3>1. i - 1 \in 1 .. n /\ (i - 1) + 1 = i
      BY <2>2
    <3>2. QED
      BY <2>7, <3>1
  <2>10. CloseRows(rows) = 2 .. n + 1
    <3>1. \A i \in 1 .. n + 1 : i = 1 \/ i \in 2 .. n + 1
      BY <2>2
    <3>2. \A i \in 2 .. n + 1 : i \in 1 .. n + 1 /\ Selectable(rows[i])
      BY <2>2, <2>8, <2>9 DEF Selectable
    <3>3. ~Selectable(rows[1])
      BY <2>5, <2>7 DEF Selectable
    <3>4. QED
      BY <2>7, <3>1, <3>2, <3>3 DEF CloseRows
  <2>11. IsSeq(rows)
    BY <2>7, IsSeqOfAnything
  <2>12. \A c \in C : \E i \in 2 .. n + 1 : rows[i].key = CollapseKey(c)
    <3> TAKE c \in C
    <3>1. PICK i \in 1 .. n : fin[i].key = CollapseKey(c)
      BY <2>8
    <3>2. i + 1 \in 2 .. n + 1 /\ rows[i + 1] = fin[i]
      BY <2>2, <2>7
    <3>3. QED
      BY <3>1, <3>2
  <2>13. \A i, j \in 2 .. n + 1 : rows[i].key = rows[j].key => i = j
    <3> TAKE i, j \in 2 .. n + 1
    <3>1. rows[i].key = rows[j].key => i - 1 = j - 1
      BY <2>8, <2>9
    <3>2. QED
      BY <3>1
  <2>14. \A i \in 2 .. n + 1 :
           ShowsItsGroup(rows[i], C) /\ i # 1 /\ (i - 1 \in 2 .. n + 1 => rows[i - 1].ts >= rows[i].ts)
    <3> TAKE i \in 2 .. n + 1
    <3>1. i - 1 \in 2 .. n + 1 => i - 2 \in 1 .. n /\ i - 2 < i - 1 /\ rows[i - 1] = fin[i - 2]
      <4> SUFFICES ASSUME i - 1 \in 2 .. n + 1 PROVE i - 2 \in 1 .. n /\ i - 2 < i - 1 /\ rows[i - 1] = fin[i - 2]
        OBVIOUS
      <4>1. (i - 1) - 1 = i - 2
        OBVIOUS
      <4>2. i - 2 \in 1 .. n /\ rows[i - 1] = fin[i - 2]
        BY <2>9, <4>1
      <4>3. QED
        BY <4>2
    <3>2. i - 1 \in 1 .. n /\ rows[i] = fin[i - 1] /\ i # 1
      BY <2>9
    <3>3. QED
      BY <2>8, <3>1, <3>2
  <2>15. \A i \in (1 .. n + 1) \ (2 .. n + 1) : rows[i].id = 0 /\ i + 1 \in 2 .. n + 1
    <3>1. \A i \in (1 .. n + 1) \ (2 .. n + 1) : i = 1 /\ i + 1 \in 2 .. n + 1
      BY <2>2, <2>3
    <3>2. QED
      BY <2>5, <2>7, <3>1
  <2>16. QED
    BY <2>7, <2>10, <2>11, <2>12, <2>13, <2>14, <2>15 DEF GoodList, rows
<1>3. QED
  BY <1>1, <1>2

\* The rows of a section are its closes', under its title.
LEMMA SectionHasTitle ==
  ASSUME NEW C, NEW groups, GoodGroups(groups, C), NEW current, NEW title,
         \A c \in C : title = IF Mine(c, current) THEN "this" ELSE "other"
  PROVE  GoodHeaders(Section(title, groups), current, {title})
<1> DEFINE rows == Section(title, groups)
           fin == FinishCloseGroups(groups)
<1>1. GoodList(rows, C)
  BY SectionIsGood
<1>2. IsSeq(rows) /\ DOMAIN rows = 1 .. Len(rows) /\ Len(rows) \in Nat
  BY <1>1, IsSeqDomain DEF GoodList
<1>3. Headers(rows) = (1 .. Len(rows)) \ CloseRows(rows)
  BY <1>2 DEF Headers, CloseRows
<1>4. \A h \in Headers(rows) : h = 1 /\ rows[h] = Header(title)
  <2>1. CASE groups = <<>>
    <3>1. rows = <<>>
      BY <2>1 DEF Section
    <3>2. DOMAIN rows = {}
      BY <3>1
    <3>3. QED
      BY <3>2 DEF Headers
  <2>2. CASE groups # <<>>
    <3> DEFINE A == {fin[i] : i \in DOMAIN fin} \cup {Header(title)}
               one == <<Header(title)>>
    <3>1. GoodGroups(fin, C)
      BY FinishIsGood
    <3>2. fin \in Seq(A) /\ one \in Seq(A) /\ Len(one) = 1 /\ one[1] = Header(title)
      BY <3>1, IsSeqDomain DEF GoodGroups, IsSeq
    <3>3. rows = one \o fin
      BY <2>2 DEF Section
    <3>4. Len(fin) \in Nat /\ \A i \in 1 .. Len(fin) : fin[i].kind = "close"
      BY <3>1, IsSeqDomain DEF GoodGroups, ShowsItsGroup
    <3> HIDE DEF rows, fin, A, one
    <3>5. /\ Len(rows) = Len(one) + Len(fin)
          /\ \A i \in 1 .. Len(one) : rows[i] = one[i]
          /\ \A i \in 1 .. Len(fin) : rows[Len(one) + i] = fin[i]
      <4>1. one \in Seq(A) /\ fin \in Seq(A)
        BY <3>2
      <4>2. /\ Len(one \o fin) = Len(one) + Len(fin)
            /\ \A i \in 1 .. Len(one) : (one \o fin)[i] = one[i]
            /\ \A i \in 1 .. Len(fin) : (one \o fin)[Len(one) + i] = fin[i]
        BY <4>1, ConcatIs
      <4>3. QED
        BY <3>3, <4>2
    <3>6. rows[1] = Header(title)
      BY <3>2, <3>5
    <3>7. ASSUME NEW h \in 1 .. Len(rows), h # 1
          PROVE  Selectable(rows[h])
      <4>1. h - 1 \in 1 .. Len(fin) /\ 1 + (h - 1) = h
        BY <3>2, <3>4, <3>5, <3>7
      <4>2. rows[h] = fin[h - 1]
        BY <3>2, <3>5, <4>1
      <4>3. QED
        BY <3>4, <4>1, <4>2 DEF Selectable
    <3>8. QED
      BY <1>2, <3>6, <3>7 DEF Headers
  <2>3. QED
    BY <2>1, <2>2
<1>5. \A h \in Headers(rows) : rows[h].section = title
  BY <1>4 DEF Header
<1>6. ASSUME NEW i \in CloseRows(rows)
      PROVE  title = IF OfSession(rows[i], current) THEN "this" ELSE "other"
  <2>1. ShowsItsGroup(rows[i], C)
    BY <1>1 DEF GoodList
  <2>2. PICK c \in C : CollapseKey(c) = rows[i].key
    BY <2>1 DEF ShowsItsGroup
  <2>3. CollapseKey(c).scope = c.scope /\ CollapseKey(c).session = SessionName(c)
    BY DEF CollapseKey
  <2>4. OfSession(rows[i], current) <=> Mine(c, current)
    BY <2>2, <2>3 DEF OfSession, Mine
  <2>5. QED
    BY <2>4
<1> HIDE DEF rows
<1>7. \A h, k \in Headers(rows) : ~(h < k)
  BY <1>4
<1>8. QED
  BY <1>5, <1>6, <1>7 DEF GoodHeaders, rows

\* A row shows its group among more closes, when they are not of its key.
LEMMA StillShowsItsGroup ==
  ASSUME NEW A, NEW B, \A c \in A, d \in B : CollapseKey(c) # CollapseKey(d),
         NEW row, ShowsItsGroup(row, A)
  PROVE  ShowsItsGroup(row, A \cup B) /\ ShowsItsGroup(row, B \cup A)
<1>1. PICK c \in A : CollapseKey(c) = row.key
  BY DEF ShowsItsGroup
<1>2. {d \in A \cup B : CollapseKey(d) = row.key} = {d \in A : CollapseKey(d) = row.key}
  BY <1>1
<1>3. {d \in B \cup A : CollapseKey(d) = row.key} = {d \in A : CollapseKey(d) = row.key}
  BY <1>1
<1>4. QED
  BY <1>2, <1>3 DEF ShowsItsGroup

\* One section after another, when no key is in both.
LEMMA SectionsAreGood ==
  ASSUME NEW A, NEW B, \A c \in A, d \in B : CollapseKey(c) # CollapseKey(d),
         NEW a, GoodList(a, A), NEW b, GoodList(b, B)
  PROVE  GoodList(a \o b, A \cup B)
<1> DEFINE n == Len(a)
           m == Len(b)
           rows == a \o b
           X == {a[i] : i \in DOMAIN a} \cup {b[i] : i \in DOMAIN b}
<1>1. IsSeq(a) /\ IsSeq(b) /\ n \in Nat /\ m \in Nat
  BY IsSeqDomain DEF GoodList
<1>2. /\ rows \in Seq(X) /\ Len(rows) = n + m
      /\ \A i \in 1 .. n : rows[i] = a[i]
      /\ \A i \in 1 .. m : rows[n + i] = b[i]
  <2>1. a \in Seq(X) /\ b \in Seq(X)
    BY <1>1 DEF IsSeq
  <2> HIDE DEF X
  <2>2. QED
    BY <2>1, ConcatIs
<1>3. IsSeq(rows)
  BY <1>2, IsSeqOfAnything
<1> HIDE DEF X, rows
<1>4. \A i \in 1 .. n + m : i \in 1 .. n \/ (i - n \in 1 .. m /\ i \notin 1 .. n /\ n + (i - n) = i)
  BY <1>1
<1>5. \A i \in 1 .. n : i \in 1 .. n + m /\ i - 1 \in Int
  BY <1>1
<1>6. \A i \in 1 .. m : n + i \in 1 .. n + m /\ n + i \notin 1 .. n /\ (n + i) - n = i
  BY <1>1
<1> DEFINE P == CloseRows(a)
           Q == CloseRows(b)
           R == CloseRows(rows)
<1>7. P \subseteq 1 .. n /\ Q \subseteq 1 .. m
  BY DEF CloseRows
<1>8. R \subseteq 1 .. n + m
  BY <1>2 DEF CloseRows
<1>9. \A i \in 1 .. n : i \in R <=> i \in P
  BY <1>2, <1>5 DEF CloseRows
<1>10. \A i \in 1 .. m : n + i \in R <=> i \in Q
  BY <1>2, <1>6 DEF CloseRows
<1>11. /\ \A c \in A : \E i \in P : a[i].key = CollapseKey(c)
       /\ \A i, j \in P : a[i].key = a[j].key => i = j
       /\ \A i \in P : ShowsItsGroup(a[i], A) /\ i # 1 /\ (i - 1 \in P => a[i - 1].ts >= a[i].ts)
       /\ \A i \in (1 .. n) \ P : a[i].id = 0 /\ i + 1 \in P
  BY DEF GoodList
<1>12. /\ \A c \in B : \E i \in Q : b[i].key = CollapseKey(c)
       /\ \A i, j \in Q : b[i].key = b[j].key => i = j
       /\ \A i \in Q : ShowsItsGroup(b[i], B) /\ i # 1 /\ (i - 1 \in Q => b[i - 1].ts >= b[i].ts)
       /\ \A i \in (1 .. m) \ Q : b[i].id = 0 /\ i + 1 \in Q
  BY DEF GoodList
<1> HIDE DEF n, m, P, Q, R
<1>13. \A i \in P, j \in Q : a[i].key # b[j].key
  <2> TAKE i \in P, j \in Q
  <2>1. PICK c \in A : CollapseKey(c) = a[i].key
    BY <1>11 DEF ShowsItsGroup
  <2>2. PICK d \in B : CollapseKey(d) = b[j].key
    BY <1>12 DEF ShowsItsGroup
  <2>3. QED
    BY <2>1, <2>2
<1>14. \A i \in P : i \in R /\ rows[i] = a[i]
  BY <1>2, <1>7, <1>9 DEF n
<1>15. \A i \in Q : n + i \in R /\ rows[n + i] = b[i]
  BY <1>2, <1>7, <1>10 DEF n, m
<1>16. ASSUME NEW i \in R PROVE i \in P \/ \E j \in Q : i = n + j
  BY <1>4, <1>8, <1>9, <1>10
<1>17. \A c \in A \cup B : \E i \in R : rows[i].key = CollapseKey(c)
  <2> TAKE c \in A \cup B
  <2>1. CASE c \in A
    BY <1>11, <1>14, <2>1
  <2>2. CASE c \in B
    BY <1>12, <1>15, <2>2
  <2>3. QED
    BY <2>1, <2>2
<1>18. \A i, j \in R : rows[i].key = rows[j].key => i = j
  <2> SUFFICES ASSUME NEW i \in R, NEW j \in R, rows[i].key = rows[j].key PROVE i = j
    OBVIOUS
  <2>1. CASE i \in P /\ j \in P
    BY <1>11, <1>14, <2>1
  <2>2. CASE i \in P /\ j \notin P
    <3>1. PICK l \in Q : j = n + l
      BY <1>16, <2>2
    <3>2. QED
      BY <1>13, <1>14, <1>15, <2>2, <3>1
  <2>3. CASE i \notin P /\ j \in P
    <3>1. PICK k \in Q : i = n + k
      BY <1>16, <2>3
    <3>2. QED
      BY <1>13, <1>14, <1>15, <2>3, <3>1
  <2>4. CASE i \notin P /\ j \notin P
    <3>1. PICK k \in Q : i = n + k
      BY <1>16, <2>4
    <3>2. PICK l \in Q : j = n + l
      BY <1>16, <2>4
    <3>3. QED
      BY <1>12, <1>15, <3>1, <3>2
  <2>5. QED
    BY <2>1, <2>2, <2>3, <2>4
<1>19. ASSUME NEW i \in R
       PROVE  ShowsItsGroup(rows[i], A \cup B) /\ i # 1 /\ (i - 1 \in R => rows[i - 1].ts >= rows[i].ts)
  <2>1. CASE i \in P
    <3>1. ShowsItsGroup(a[i], A) /\ rows[i] = a[i] /\ i # 1
      BY <1>11, <1>14, <2>1
    <3>2. ShowsItsGroup(rows[i], A \cup B)
      BY <3>1, StillShowsItsGroup
    <3>3. i - 1 \in R => i - 1 \in P
      <4>1. i - 1 \in 1 .. n
        BY <1>1, <1>7, <2>1, <3>1
      <4>2. QED
        BY <1>9, <4>1
    <3>4. i - 1 \in R => rows[i - 1].ts >= rows[i].ts
      BY <1>11, <1>14, <2>1, <3>3
    <3>5. QED
      BY <3>1, <3>2, <3>4
  <2>2. CASE i \notin P
    <3>1. PICK j \in Q : i = n + j
      BY <1>16, <2>2
    <3>2. ShowsItsGroup(b[j], B) /\ rows[i] = b[j] /\ j # 1 /\ j \in 1 .. m
      BY <1>7, <1>12, <1>15, <3>1
    <3>3. \A c \in B, d \in A : CollapseKey(c) # CollapseKey(d)
      OBVIOUS
    <3>4. ShowsItsGroup(rows[i], A \cup B)
      BY <3>2, <3>3, StillShowsItsGroup
    <3>5. j - 1 \in 1 .. m /\ i - 1 = n + (j - 1) /\ i # 1
      BY <1>1, <3>1, <3>2
    <3>6. i - 1 \in R => j - 1 \in Q
      BY <1>10, <3>5
    <3>7. i - 1 \in R => rows[i - 1].ts >= rows[i].ts
      <4> SUFFICES ASSUME i - 1 \in R PROVE rows[i - 1].ts >= rows[i].ts
        OBVIOUS
      <4>1. rows[i - 1] = b[j - 1] /\ b[j - 1].ts >= b[j].ts
        BY <1>12, <1>15, <3>5, <3>6
      <4>2. QED
        BY <3>2, <4>1
    <3>8. QED
      BY <3>4, <3>5, <3>7
  <2>3. QED
    BY <2>1, <2>2
<1>20. ASSUME NEW i \in (1 .. n + m) \ R PROVE rows[i].id = 0 /\ i + 1 \in R
  <2>1. CASE i \in 1 .. n
    <3>1. i \notin P /\ rows[i] = a[i]
      BY <1>2, <1>9, <2>1 DEF n
    <3>2. QED
      BY <1>11, <1>14, <2>1, <3>1
  <2>2. CASE i \notin 1 .. n
    <3> DEFINE j == i - n
    <3>1. j \in 1 .. m /\ n + j = i
      BY <1>4, <2>2
    <3>2. j \notin Q /\ rows[n + j] = b[j]
      BY <1>2, <1>10, <3>1 DEF n, m
    <3>3. b[j].id = 0 /\ j + 1 \in Q
      BY <1>12, <3>1, <3>2
    <3>4. n + (j + 1) = i + 1
      BY <1>1
    <3> HIDE DEF j
    <3>5. QED
      BY <1>15, <3>1, <3>2, <3>3, <3>4
  <2>3. QED
    BY <2>1, <2>2
<1>21. QED
  BY <1>2, <1>3, <1>17, <1>18, <1>19, <1>20 DEF GoodList, R, rows, n, m

\* A header is over no row of the section after its own.
LEMMA SectionsHaveTitles ==
  ASSUME NEW A, NEW B, NEW a, GoodList(a, A), NEW b, GoodList(b, B), NEW current,
         GoodHeaders(a, current, {"this"}), GoodHeaders(b, current, {"other"})
  PROVE  GoodHeaders(a \o b, current, {"this", "other"})
<1> DEFINE n == Len(a)
           m == Len(b)
           rows == a \o b
           X == {a[i] : i \in DOMAIN a} \cup {b[i] : i \in DOMAIN b}
<1>1. IsSeq(a) /\ IsSeq(b) /\ n \in Nat /\ m \in Nat /\ DOMAIN a = 1 .. n /\ DOMAIN b = 1 .. m
  BY IsSeqDomain DEF GoodList
<1>2. /\ rows \in Seq(X) /\ Len(rows) = n + m
      /\ \A i \in 1 .. n : rows[i] = a[i]
      /\ \A i \in 1 .. m : rows[n + i] = b[i]
  <2>1. a \in Seq(X) /\ b \in Seq(X)
    BY <1>1 DEF IsSeq
  <2> HIDE DEF X
  <2>2. QED
    BY <2>1, ConcatIs
<1>3. DOMAIN rows = 1 .. n + m
  BY <1>1, <1>2
<1> HIDE DEF X, rows
<1>4. ASSUME NEW i \in 1 .. n + m, i \notin 1 .. n
      PROVE  i - n \in 1 .. m /\ rows[i] = b[i - n] /\ n < i
  <2>1. i - n \in 1 .. m /\ n + (i - n) = i /\ n < i
    BY <1>1, <1>4
  <2>2. QED
    BY <1>2, <2>1
<1>5. \A i \in 1 .. n : i \in 1 .. n + m /\ rows[i] = a[i]
  BY <1>1, <1>2
<1> HIDE DEF n, m
<1>6. ASSUME NEW h \in Headers(rows)
      PROVE  \/ h \in Headers(a) /\ h \in 1 .. n /\ rows[h].section = "this"
             \/ h \notin 1 .. n /\ h - n \in Headers(b) /\ rows[h].section = "other"
  <2>1. h \in 1 .. n + m /\ ~Selectable(rows[h])
    BY <1>3, <1>6 DEF Headers
  <2>2. CASE h \in 1 .. n
    <3>1. h \in Headers(a) /\ rows[h] = a[h]
      BY <1>1, <1>5, <2>1, <2>2 DEF Headers, n
    <3>2. QED
      BY <2>2, <3>1 DEF GoodHeaders
  <2>3. CASE h \notin 1 .. n
    <3>1. h - n \in Headers(b) /\ rows[h] = b[h - n]
      BY <1>1, <1>4, <2>1, <2>3 DEF Headers, m
    <3>2. QED
      BY <2>3, <3>1 DEF GoodHeaders
  <2>4. QED
    BY <2>2, <2>3
<1>7. ASSUME NEW h \in Headers(rows), NEW k \in Headers(rows), h < k
      PROVE  rows[h].section = "this" /\ rows[k].section = "other"
  <2>1. h \in 1 .. n + m /\ k \in 1 .. n + m
    BY <1>3 DEF Headers
  <2>2. CASE h \in 1 .. n /\ k \in 1 .. n
    BY <1>6, <1>7, <2>2 DEF GoodHeaders
  <2>3. CASE h \notin 1 .. n /\ k \notin 1 .. n
    <3>1. h - n \in Headers(b) /\ k - n \in Headers(b)
      BY <1>6, <2>3
    <3>2. h - n < k - n
      BY <1>1, <1>7, <2>1 DEF n
    <3>3. b[h - n].section = "this" /\ b[h - n].section \in {"other"}
      BY <3>1, <3>2 DEF GoodHeaders
    <3>4. QED
      BY <3>3
  <2>4. CASE h \notin 1 .. n /\ k \in 1 .. n
    BY <1>1, <1>7, <2>1, <2>4 DEF n
  <2>5. CASE h \in 1 .. n /\ k \notin 1 .. n
    BY <1>6, <2>5
  <2>6. QED
    BY <2>2, <2>3, <2>4, <2>5
<1>8. ASSUME NEW h \in Headers(rows), NEW i \in CloseRows(rows), Under(rows, h, i)
      PROVE  rows[h].section = IF OfSession(rows[i], current) THEN "this" ELSE "other"
  <2>1. h \in 1 .. n + m /\ i \in 1 .. n + m /\ h < i /\ Selectable(rows[i])
    BY <1>2, <1>3, <1>8 DEF Headers, CloseRows, Under, n, m
  <2>2. \A j \in h + 1 .. i : j \notin Headers(rows)
    BY <1>8 DEF Under
  <2>3. CASE i \in 1 .. n
    <3>1. h \in 1 .. n /\ h \in Headers(a)
      BY <1>1, <1>6, <2>1, <2>3 DEF n
    <3>2. i \in CloseRows(a)
      BY <1>5, <2>1, <2>3 DEF CloseRows, n
    <3>3. \A j \in h + 1 .. i : j \notin Headers(a)
      <4> TAKE j \in h + 1 .. i
      <4>1. j \in 1 .. n
        BY <1>1, <2>3, <3>1 DEF n
      <4>2. j \in Headers(a) => j \in Headers(rows)
        BY <1>3, <1>5, <4>1 DEF Headers
      <4>3. QED
        BY <2>2, <4>2
    <3>4. a[h].section = IF OfSession(a[i], current) THEN "this" ELSE "other"
      BY <2>1, <3>1, <3>2, <3>3 DEF GoodHeaders, Under
    <3>5. QED
      BY <1>5, <2>3, <3>1, <3>4
  <2>4. CASE i \notin 1 .. n
    <3> DEFINE l == i - n
    <3>1. l \in 1 .. m /\ rows[i] = b[l] /\ n < i /\ n + l = i
      BY <1>1, <1>4, <2>1, <2>4 DEF n
    <3>2. l \in CloseRows(b)
      BY <2>1, <3>1 DEF CloseRows, m
    <3> HIDE DEF l
    <3>3. n + 1 \in Headers(rows)
      <4>1. 1 \in 1 .. m
        BY <1>1, <3>1 DEF m
      <4>2. 1 \notin CloseRows(b)
        BY DEF GoodList
      <4>3. ~Selectable(b[1])
        BY <4>1, <4>2 DEF CloseRows, m
      <4>4. rows[n + 1] = b[1]
        BY <1>2, <4>1 DEF n, m
      <4>5. n + 1 \in 1 .. n + m
        BY <1>1, <4>1 DEF n, m
      <4>6. QED
        BY <1>3, <4>3, <4>4, <4>5 DEF Headers
    <3>4. h \notin 1 .. n
      <4> SUFFICES ASSUME h \in 1 .. n PROVE FALSE
        OBVIOUS
      <4>1. n + 1 \in h + 1 .. i
        BY <1>1, <2>1, <3>1 DEF n
      <4>2. QED
        BY <2>2, <3>3, <4>1
    <3>5. h - n \in Headers(b) /\ rows[h] = b[h - n] /\ n < h
      BY <1>4, <1>6, <2>1, <3>4
    <3>6. h - n < l
      BY <1>1, <2>1, <3>1 DEF l, n
    <3>7. \A j \in (h - n) + 1 .. l : j \notin Headers(b)
      <4> TAKE j \in (h - n) + 1 .. l
      <4>1. j \in 1 .. m /\ n + j \in h + 1 .. i
        BY <1>1, <2>1, <3>1, <3>5 DEF n, m
      <4>2. n + j \in 1 .. n + m /\ rows[n + j] = b[j]
        BY <1>1, <1>2, <4>1 DEF n, m
      <4>3. j \in Headers(b) => n + j \in Headers(rows)
        BY <1>3, <4>2 DEF Headers
      <4>4. QED
        BY <2>2, <4>1, <4>3
    <3>8. b[h - n].section = IF OfSession(b[l], current) THEN "this" ELSE "other"
      BY <3>2, <3>5, <3>6, <3>7 DEF GoodHeaders, Under
    <3>9. QED
      BY <3>1, <3>5, <3>8
  <2>5. QED
    BY <2>3, <2>4
<1>9. \A h \in Headers(rows) : rows[h].section \in {"this", "other"}
  BY <1>6
<1>10. QED
  BY <1>7, <1>8, <1>9 DEF GoodHeaders, rows

\* The close list of any closes, in any order, around any session: a row for
\* each group, with its newest and its number, newest group first, and each
\* under the header of its section (BuildCloseList and finishCloseGroups of
\* closelist.go).
THEOREM BuildCloseListIsRight ==
  ASSUME NEW closes, Distinct(closes), NEW current
  PROVE  /\ GoodList(BuildCloseList(closes, current), Recoverable(closes))
         /\ GoodHeaders(BuildCloseList(closes, current), current, {"this", "other"})
<1> DEFINE n == Len(closes)
           listed == Recoverable(closes)
           mine == {c \in listed : Mine(c, current)}
           other == listed \ mine
           a == Section("this", Groups(closes, mine))
           b == Section("other", Groups(closes, other))
<1>1. DOMAIN closes = 1 .. n
  BY IsSeqDomain DEF Distinct
<1>2. ASSUME NEW S, S \subseteq listed PROVE ClosesOf(closes, n, S) = S
  BY <1>1, <1>2 DEF ClosesOf, Recoverable, ToSet
<1>3. mine \subseteq listed /\ other \subseteq listed /\ mine \cup other = listed
  OBVIOUS
<1>4. \A c \in mine, d \in other : CollapseKey(c) # CollapseKey(d)
  <2> SUFFICES ASSUME NEW c \in mine, NEW d \in other, CollapseKey(c) = CollapseKey(d) PROVE FALSE
    OBVIOUS
  <2>1. CollapseKey(c).scope = c.scope /\ CollapseKey(c).session = SessionName(c)
    BY DEF CollapseKey
  <2>2. CollapseKey(d).scope = d.scope /\ CollapseKey(d).session = SessionName(d)
    BY DEF CollapseKey
  <2>3. c.scope = d.scope /\ SessionName(c) = SessionName(d)
    BY <2>1, <2>2
  <2>4. QED
    BY <2>3 DEF Mine
<1>5. BuildCloseList(closes, current) = a \o b
  BY DEF BuildCloseList
<1> HIDE DEF n, mine, other
<1>6. GoodList(a, mine) /\ GoodHeaders(a, current, {"this"})
  <2> DEFINE groups == Groups(closes, mine)
  <2>1. GoodGroups(groups, mine)
    BY <1>2, <1>3, GroupsAreGood DEF n
  <2>2. \A c \in mine : "this" = IF Mine(c, current) THEN "this" ELSE "other"
    BY DEF mine
  <2> HIDE DEF groups
  <2>3. GoodList(Section("this", groups), mine)
    BY <2>1, SectionIsGood
  <2>4. GoodHeaders(Section("this", groups), current, {"this"})
    BY <2>1, <2>2, SectionHasTitle
  <2>5. QED
    BY <2>3, <2>4 DEF groups
<1>7. GoodList(b, other) /\ GoodHeaders(b, current, {"other"})
  <2> DEFINE groups == Groups(closes, other)
  <2>1. GoodGroups(groups, other)
    BY <1>2, <1>3, GroupsAreGood DEF n
  <2>2. \A c \in other : "other" = IF Mine(c, current) THEN "this" ELSE "other"
    BY DEF mine, other
  <2> HIDE DEF groups
  <2>3. GoodList(Section("other", groups), other)
    BY <2>1, SectionIsGood
  <2>4. GoodHeaders(Section("other", groups), current, {"other"})
    BY <2>1, <2>2, SectionHasTitle
  <2>5. QED
    BY <2>3, <2>4 DEF groups
<1> HIDE DEF a, b, listed
<1>8. GoodList(a \o b, mine \cup other)
  BY <1>4, <1>6, <1>7, SectionsAreGood
<1>9. GoodHeaders(a \o b, current, {"this", "other"})
  BY <1>6, <1>7, SectionsHaveTitles
<1>10. QED
  BY <1>3, <1>5, <1>8, <1>9 DEF listed
=============================================================================
