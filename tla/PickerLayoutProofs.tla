-------------------------- MODULE PickerLayoutProofs --------------------------
(***************************************************************************)
(* What the arithmetic of the picker's layout keeps, for every size of     *)
(* terminal and every length of list.                                      *)
(***************************************************************************)
EXTENDS PickerLayout, FiniteSetTheorems, TLAPS

\* A window of a list shows the cursor, only rows that exist, and no more of
\* them than there is room for (view.go, scrollWindow).
LEMMA ScrollWindowShows ==
  ASSUME NEW total \in Nat, NEW cursor \in 1 .. total, NEW rows \in Nat \ {0}
  PROVE  LET w == ScrollWindow(cursor, total, rows)
         IN  /\ w.first \in 1 .. cursor /\ w.last \in cursor .. total
             /\ w.last - w.first + 1 <= rows
<1> DEFINE half == rows \div 2
<1>1. half \in Nat /\ half < rows
  OBVIOUS
<1> HIDE DEF half
<1>2. CASE total <= rows
  BY <1>2 DEF ScrollWindow
<1>3. CASE total > rows
  <2> DEFINE first == Larger(1, cursor - half)
  <2>1. first \in 1 .. cursor /\ cursor <= first + half
    BY <1>1 DEF Larger
  <2>2. ScrollWindow(cursor, total, rows)
          = IF first + rows - 1 > total THEN [first |-> total - rows + 1, last |-> total]
            ELSE [first |-> first, last |-> first + rows - 1]
    BY <1>3 DEF ScrollWindow, half
  <2> HIDE DEF first
  <2>3. QED
    BY <1>1, <1>3, <2>1, <2>2
<1>4. QED
  BY <1>2, <1>3

\* Fewer rows never show an earlier one: with the header pinned, the window
\* begins no higher than it did without (view.go: "shrinking the window can
\* only push start further down").
LEMMA ShrinkingPushesDown ==
  ASSUME NEW total \in Nat, NEW cursor \in 1 .. total, NEW rows \in Nat, rows >= 2
  PROVE  ScrollWindow(cursor, total, rows).first <= ScrollWindow(cursor, total, rows - 1).first
<1> DEFINE half == rows \div 2
           less == (rows - 1) \div 2
<1>1. half \in Nat /\ less \in Nat /\ less <= half /\ half <= less + 1 /\ half < rows /\ less < rows - 1 + 1
  OBVIOUS
<1> HIDE DEF half, less
<1> DEFINE a == Larger(1, cursor - half)
           b == Larger(1, cursor - less)
<1>2. a \in Nat /\ b \in Nat /\ 1 <= a /\ a <= b /\ b <= a + 1
  BY <1>1 DEF Larger
<1>3. CASE total <= rows - 1
  BY <1>3 DEF ScrollWindow
<1>4. CASE total = rows
  <2>1. ScrollWindow(cursor, total, rows).first = 1
    BY <1>4 DEF ScrollWindow
  <2>2. ScrollWindow(cursor, total, rows - 1).first >= 1
    BY ScrollWindowShows, rows - 1 \in Nat \ {0}
  <2>3. QED
    BY <2>1, <2>2
<1>5. CASE total > rows
  <2>1. ScrollWindow(cursor, total, rows)
          = IF a + rows - 1 > total THEN [first |-> total - rows + 1, last |-> total]
            ELSE [first |-> a, last |-> a + rows - 1]
    BY <1>5 DEF ScrollWindow, half
  <2>2. ScrollWindow(cursor, total, rows - 1)
          = IF b + (rows - 1) - 1 > total THEN [first |-> total - (rows - 1) + 1, last |-> total]
            ELSE [first |-> b, last |-> b + (rows - 1) - 1]
    BY <1>5 DEF ScrollWindow, less
  <2> HIDE DEF a, b
  <2>3. QED
    BY <1>2, <1>5, <2>1, <2>2
<1>6. QED
  BY <1>3, <1>4, <1>5

\* The close list, with the header of the cursor's section above it where
\* that has scrolled off: the header is shown once, the cursor always.
THEOREM HeaderStaysInView ==
  ASSUME NEW total \in Nat, NEW cursor \in 1 .. total, NEW budget \in Nat \ {0},
         NEW header \in 0 .. cursor
  PROVE  LET shown == CloseListWindow(cursor, total, header, budget)
             first == shown.window.first
             last  == shown.window.last
         IN  /\ first \in 1 .. cursor /\ last \in cursor .. total
             /\ last - first + 1 <= budget - (IF shown.pin = 0 THEN 0 ELSE 1)
             /\ budget > 1 /\ header # 0 =>
                  IF shown.pin = 0 THEN header \in first .. last
                  ELSE shown.pin = header /\ header < first
<1> DEFINE w == ScrollWindow(cursor, total, budget)
<1>1. /\ w.first \in 1 .. cursor /\ w.last \in cursor .. total
      /\ w.last - w.first + 1 <= budget
  BY ScrollWindowShows
<1>2. CASE header >= w.first \/ budget < 2
  <2>1. CloseListWindow(cursor, total, header, budget) = [pin |-> 0, window |-> w]
    BY <1>2 DEF CloseListWindow
  <2> HIDE DEF w
  <2>2. QED
    BY <1>1, <1>2, <2>1
<1>3. CASE header < w.first /\ budget >= 2
  <2> DEFINE v == ScrollWindow(cursor, total, budget - 1)
  <2>1. CloseListWindow(cursor, total, header, budget) = [pin |-> header, window |-> v]
    BY <1>1, <1>3 DEF CloseListWindow
  <2>2. /\ v.first \in 1 .. cursor /\ v.last \in cursor .. total
        /\ v.last - v.first + 1 <= budget - 1
    BY <1>3, ScrollWindowShows, budget - 1 \in Nat \ {0}
  <2>3. w.first <= v.first
    BY <1>3, ShrinkingPushesDown
  <2> HIDE DEF w, v
  <2>4. QED
    BY <1>1, <1>3, <2>1, <2>2, <2>3
<1>4. QED
  BY <1>1, <1>2, <1>3

\* The columns of every width fill the terminal, and the preview beside a list
\* is as wide as the code promises: a whole pane's line in close mode, 50
\* columns in snapshot mode, with the minimal list and tree (view.go: "the
\* proportions guarantee previewW >= 50 and both min-clamps").
THEOREM ColumnsFit ==
  ASSUME NEW mode \in {"close", "snapshot"}, NEW width \in Nat
  PROVE  LET c == PaneWidths(mode, width)
         IN  /\ c.list + c.tree + c.preview = width
             /\ c.list \in Nat /\ c.tree \in Nat /\ c.preview \in Nat
             /\ c.preview # 0 /\ mode = "close" =>
                  c.preview >= ClosePreviewMin /\ c.list \in CloseListMin .. CloseListMax
             /\ c.preview # 0 /\ mode = "snapshot" => c.preview >= 50 /\ c.list >= 28 /\ c.tree >= 32
             /\ width >= 80 => (c.preview = 0 <=> StacksPanel(mode, [width |-> width, height |-> 0]))
<1> DEFINE third   == width \div 3
           quarter == width \div 4
           share   == (width * 2) \div 5
<1>1. /\ third \in Nat /\ 3 * third <= width /\ width < 3 * third + 3
      /\ quarter \in Nat /\ 4 * quarter <= width /\ width < 4 * quarter + 4
      /\ share \in Nat /\ 5 * share <= 2 * width /\ 2 * width < 5 * share + 5
  OBVIOUS
<1>2. CloseListWidth(width) = Smaller(100, Larger(78, share))
  BY DEF CloseListWidth, CloseListMin, CloseListMax
<1> HIDE DEF third, quarter, share
<1>3. CASE mode = "close"
  <2>1. SideBySideMin(mode) = 163
    BY <1>3 DEF SideBySideMin, CloseSideBySideMin, CloseListMin, ClosePreviewMin
  <2>2. CASE width < 163
    <3>1. PaneWidths(mode, width) = [list |-> width, tree |-> 0, preview |-> 0]
      BY <1>3, <2>1, <2>2 DEF PaneWidths
    <3>2. QED
      BY <2>1, <2>2, <3>1 DEF StacksPanel
  <2>3. CASE width >= 163
    <3>1. CloseListWidth(width) \in 78 .. 100 /\ width - CloseListWidth(width) >= 85
      BY <1>1, <1>2, <2>3 DEF Smaller, Larger
    <3>2. PaneWidths(mode, width) = [list |-> CloseListWidth(width), tree |-> 0,
                                     preview |-> width - CloseListWidth(width)]
      BY <1>3, <2>1, <2>3, <3>1 DEF PaneWidths
    <3>3. QED
      BY <1>3, <2>1, <2>3, <3>1, <3>2 DEF StacksPanel, CloseListMin, CloseListMax, ClosePreviewMin
  <2>4. QED
    BY <2>2, <2>3
<1>4. CASE mode = "snapshot"
  <2>1. SideBySideMin(mode) = 120
    BY <1>4 DEF SideBySideMin
  <2>2. CASE width < 80
    <3>1. PaneWidths(mode, width) = [list |-> width, tree |-> 0, preview |-> 0]
      BY <1>4, <2>1, <2>2 DEF PaneWidths
    <3>2. QED
      BY <2>2, <3>1
  <2>3. CASE width >= 80 /\ width < 120
    <3>1. PaneWidths(mode, width) = [list |-> Larger(28, third), tree |-> width - Larger(28, third), preview |-> 0]
      BY <1>4, <2>1, <2>3 DEF PaneWidths, third
    <3>2. QED
      BY <1>1, <1>4, <2>1, <2>3, <3>1 DEF Larger, StacksPanel
  <2>4. CASE width >= 120
    <3>1. PaneWidths(mode, width) = [list |-> quarter, tree |-> third, preview |-> width - quarter - third]
      BY <1>4, <2>1, <2>4 DEF PaneWidths, third, quarter
    <3>2. QED
      BY <1>1, <1>4, <2>1, <2>4, <3>1 DEF StacksPanel
  <2>5. QED
    BY <2>2, <2>3, <2>4
<1>5. QED
  BY <1>3, <1>4

\* Division as far as the blocks need it.
LEMMA EvenShare ==
  ASSUME NEW q \in Nat \ {0}, NEW left \in Nat, left >= 2 * q
  PROVE  /\ left \div q \in Nat /\ left \div q >= 2 /\ left % q \in 0 .. q - 1
         /\ left = q * (left \div q) + (left % q)
<1> DEFINE base == left \div q
           extra == left % q
<1>1. base \in Nat /\ extra \in 0 .. q - 1
  OBVIOUS
<1>2. left = q * base + extra
  OBVIOUS
<1> HIDE DEF base, extra
<1>3. base # 0 /\ base # 1
  BY <1>1, <1>2
<1>4. base >= 2
  BY <1>1, <1>3
<1>5. QED
  BY <1>1, <1>2, <1>4 DEF base, extra

\* Fewer than extra members of S come before no more than extra of them.
LEMMA FirstFew ==
  ASSUME NEW S \in SUBSET Nat, IsFiniteSet(S), NEW extra \in Nat
  PROVE  LET E == {i \in S : Cardinality({j \in S : j < i}) < extra}
         IN  IsFiniteSet(E) /\ Cardinality(E) <= extra
<1> DEFINE below(i) == {j \in S : j < i}
           E == {i \in S : Cardinality(below(i)) < extra}
           f == [i \in E |-> Cardinality(below(i))]
<1>1. ASSUME NEW i \in S PROVE IsFiniteSet(below(i)) /\ Cardinality(below(i)) \in Nat
  <2>1. below(i) \in SUBSET S
    OBVIOUS
  <2>2. QED
    BY <2>1, FS_Subset, FS_CardinalityType
<1>2. ASSUME NEW i \in S, NEW j \in S, i < j PROVE Cardinality(below(i)) < Cardinality(below(j))
  <2>1. below(i) \in SUBSET below(j) /\ i \in below(j) /\ i \notin below(i)
    <3>1. \A x \in S : x < i => x < j
      BY <1>2
    <3>2. i \in Nat /\ ~(i < i)
      OBVIOUS
    <3>3. QED
      BY <1>2, <3>1, <3>2
  <2>2. IsFiniteSet(below(j))
    BY <1>1
  <2> HIDE DEF below
  <2>3. Cardinality(below(i)) <= Cardinality(below(j)) /\ Cardinality(below(i)) # Cardinality(below(j))
    BY <2>1, <2>2, FS_Subset
  <2>4. QED
    BY <1>1, <2>3
<1> HIDE DEF below
<1>3. \A i, j \in S : i # j => Cardinality(below(i)) # Cardinality(below(j))
  <2> TAKE i, j \in S
  <2>1. i # j => i < j \/ j < i
    OBVIOUS
  <2>2. QED
    BY <1>1, <1>2, <2>1
<1>4. f \in Injection(E, 0 .. extra - 1)
  <2>1. \A i \in E : f[i] \in 0 .. extra - 1
    BY <1>1
  <2>2. \A i, j \in E : f[i] = f[j] => i = j
    BY <1>3
  <2>3. QED
    BY <2>1, <2>2 DEF Injection, IsInjective
<1>5. IsFiniteSet(0 .. extra - 1) /\ Cardinality(0 .. extra - 1) = extra
  BY FS_Interval
<1> HIDE DEF f, E
<1>6. IsFiniteSet(E) /\ Cardinality(E) <= extra
  BY <1>4, <1>5, FS_Injection
<1>7. QED
  BY <1>6 DEF E, below

LEMMA TwoRows == IsFiniteSet(1 .. 2) /\ Cardinality(1 .. 2) = 2
<1>1. IsFiniteSet(1 .. 2) /\ Cardinality(1 .. 2) = IF 1 > 2 THEN 0 ELSE 2 - 1 + 1
  BY 1 \in Int, 2 \in Int, FS_Interval
<1>2. QED
  BY <1>1

\* The blocks of a close's preview fit below its header, however many panes
\* there are and however few rows, and each has a row for its label and one at
\* least below it (preview.go, closeBlockHeights).
THEOREM BlocksFit ==
  ASSUME NEW fixed, NEW n \in Nat, DOMAIN fixed = 1 .. n, NEW body \in Int
  PROVE  LET blocks == CloseBlockHeights(fixed, body)
         IN  /\ \A i \in DOMAIN blocks : blocks[i] \in Nat /\ blocks[i] >= 2
             /\ Cardinality(BlockRows(blocks)) <= Larger(0, body)
<1> DEFINE k         == Smaller(Cardinality(DOMAIN fixed), body \div 2)
           flexible  == {i \in 1 .. k : ~fixed[i]}
           rigid     == (1 .. k) \ flexible
           left      == body - 2 * Cardinality(rigid)
           q         == Cardinality(flexible)
           base      == left \div q
           extra     == left % q
           before(i) == Cardinality({j \in flexible : j < i})
           blocks    == CloseBlockHeights(fixed, body)
<1>1. k \in Int /\ 2 * k <= body
  <2>1. Cardinality(DOMAIN fixed) = n
    BY FS_Interval
  <2>2. body \div 2 \in Int /\ 2 * (body \div 2) <= body
    OBVIOUS
  <2>3. QED
    BY <2>1, <2>2 DEF Smaller
<1>2. blocks = [i \in 1 .. k |-> IF fixed[i] THEN 2 ELSE IF before(i) < extra THEN base + 1 ELSE base]
  BY DEF CloseBlockHeights
<1> HIDE DEF k, blocks
<1>3. IsFiniteSet(1 .. k) /\ Cardinality(1 .. k) = IF 1 > k THEN 0 ELSE k
  BY <1>1, FS_Interval
<1>4. /\ IsFiniteSet(flexible) /\ IsFiniteSet(rigid)
      /\ q \in Nat /\ Cardinality(rigid) \in Nat
      /\ q + Cardinality(rigid) = Cardinality(1 .. k)
  <2>1. flexible \in SUBSET (1 .. k)
    OBVIOUS
  <2>2. (1 .. k) \cap flexible = flexible
    OBVIOUS
  <2> HIDE DEF flexible
  <2>3. IsFiniteSet(flexible) /\ q \in Nat
    BY <1>3, <2>1, FS_Subset, FS_CardinalityType
  <2>4. IsFiniteSet(rigid) /\ Cardinality(rigid) = Cardinality(1 .. k) - q
    BY <1>3, <2>2, FS_Difference
  <2>5. Cardinality(rigid) \in Nat /\ Cardinality(1 .. k) \in Nat
    BY <1>3, <2>4, FS_CardinalityType
  <2> HIDE DEF rigid, q
  <2>6. QED
    BY <2>3, <2>4, <2>5
<1>5. \A i \in flexible : i \in 1 .. k /\ ~fixed[i]
  OBVIOUS
<1>6. \A i \in rigid : i \in 1 .. k /\ fixed[i]
  OBVIOUS
<1>7. 1 .. k = flexible \cup rigid /\ flexible \in SUBSET Nat
  OBVIOUS
<1> DEFINE E == {i \in flexible : before(i) < extra}
<1>8. CASE k < 1
  <2>1. DOMAIN blocks = {}
    BY <1>1, <1>2, <1>8
  <2>2. BlockRows(blocks) = {}
    BY <2>1 DEF BlockRows
  <2>3. QED
    BY <2>1, <2>2, FS_EmptySet DEF Larger, blocks
<1>9. CASE k >= 1 /\ q = 0
  <2>1. flexible = {} /\ rigid = 1 .. k
    BY <1>4, <1>7, <1>9, FS_EmptySet
  <2>2. \A i \in 1 .. k : blocks[i] = 2
    BY <1>2, <1>6, <2>1
  <2>3. DOMAIN blocks = 1 .. k
    BY <1>2
  <2>4. BlockRows(blocks) = (1 .. k) \X (1 .. 2)
    BY <2>2, <2>3 DEF BlockRows
  <2>5. Cardinality((1 .. k) \X (1 .. 2)) = Cardinality(1 .. k) * 2
    <3>1. IsFiniteSet(1 .. 2) /\ Cardinality(1 .. 2) = 2
      BY TwoRows
    <3>2. Cardinality((1 .. k) \X (1 .. 2)) = Cardinality(1 .. k) * Cardinality(1 .. 2)
      BY <1>3, <3>1, FS_Product
    <3>3. QED
      BY <3>1, <3>2
  <2>6. Cardinality(BlockRows(blocks)) = k * 2
    BY <1>1, <1>3, <1>9, <2>4, <2>5
  <2>7. k * 2 <= Larger(0, body)
    BY <1>1 DEF Larger
  <2>8. QED
    BY <2>2, <2>3, <2>6, <2>7 DEF blocks
<1>10. CASE k >= 1 /\ q >= 1
  <2>1. left \in Nat /\ left >= 2 * q
    <3>1. Cardinality(1 .. k) = k
      BY <1>1, <1>3, <1>10
    <3> HIDE DEF q, rigid
    <3>2. QED
      BY <1>1, <1>4, <1>10, <3>1
  <2> HIDE DEF left, q, rigid
  <2>2. base \in Nat /\ base >= 2 /\ extra \in 0 .. q - 1 /\ left = q * base + extra
    <3>1. q \in Nat \ {0}
      BY <1>4, <1>10
    <3>2. QED
      BY <2>1, <3>1, EvenShare
  <2> HIDE DEF base, extra
  <2>3. IsFiniteSet(E) /\ Cardinality(E) <= extra /\ Cardinality(E) \in Nat
    <3> HIDE DEF flexible
    <3>1. extra \in Nat
      BY <1>4, <2>2
    <3>2. IsFiniteSet(E) /\ Cardinality(E) <= extra
      BY <1>4, <1>7, <3>1, FirstFew
    <3>3. QED
      BY <3>2, FS_CardinalityType
  <2> DEFINE A == rigid \X (1 .. 2)
             B == flexible \X (1 .. base)
             C == E \X {base + 1}
  <2>4. DOMAIN blocks = 1 .. k
    BY <1>2
  <2>5. \A i \in rigid : blocks[i] = 2
    BY <1>2, <1>6
  <2>6. \A i \in E : blocks[i] = base + 1
    BY <1>2, <1>5
  <2>7. \A i \in flexible \ E : blocks[i] = base
    BY <1>2, <1>5
  <2>8. \A i \in DOMAIN blocks : blocks[i] \in Nat /\ blocks[i] >= 2
    <3> HIDE DEF E, flexible
    <3> QED
      BY <1>7, <2>2, <2>4, <2>5, <2>6, <2>7
  <2>9. BlockRows(blocks) \in SUBSET (A \cup B \cup C)
    <3> HIDE DEF A, B, C
    <3> SUFFICES ASSUME NEW i \in DOMAIN blocks, NEW r \in 1 .. blocks[i]
                 PROVE  <<i, r>> \in A \cup B \cup C
      <4>1. \A x \in BlockRows(blocks) : \E i \in DOMAIN blocks : \E r \in 1 .. blocks[i] : x = <<i, r>>
        BY DEF BlockRows
      <4>2. QED
        BY <4>1
    <3> USE DEF A, B, C
    <3>1. i \in rigid \/ i \in E \/ i \in flexible \ E
      BY <1>7, <2>4
    <3> HIDE DEF E, flexible
    <3>2. CASE i \in rigid
      BY <2>5, <3>2
    <3>3. CASE i \in E
      <4>1. i \in flexible
        BY <3>3 DEF E
      <4>2. r \in 1 .. base \/ r = base + 1
        BY <2>2, <2>6, <3>3
      <4>3. QED
        BY <3>3, <4>1, <4>2
    <3>4. CASE i \in flexible \ E
      BY <2>7, <3>4
    <3>5. QED
      BY <3>1, <3>2, <3>3, <3>4
  <2>10. IsFiniteSet(A) /\ Cardinality(A) = Cardinality(rigid) * 2
    <3>1. IsFiniteSet(1 .. 2) /\ Cardinality(1 .. 2) = 2
      BY TwoRows
    <3>2. IsFiniteSet(rigid \X (1 .. 2)) /\ Cardinality(rigid \X (1 .. 2)) = Cardinality(rigid) * Cardinality(1 .. 2)
      BY <1>4, <3>1, FS_Product
    <3>3. QED
      BY <3>1, <3>2
  <2>11. IsFiniteSet(B) /\ Cardinality(B) = q * base
    <3>1. IsFiniteSet(1 .. base) /\ Cardinality(1 .. base) = base
      BY <2>2, FS_Interval
    <3> HIDE DEF flexible
    <3>2. IsFiniteSet(B) /\ Cardinality(B) = Cardinality(flexible) * Cardinality(1 .. base)
      BY <1>4, <3>1, FS_Product
    <3>3. QED
      BY <3>1, <3>2 DEF q
  <2>12. IsFiniteSet(C) /\ Cardinality(C) = Cardinality(E)
    <3> HIDE DEF E
    <3>1. IsFiniteSet({base + 1}) /\ Cardinality({base + 1}) = 1
      BY FS_Singleton
    <3>2. IsFiniteSet(C) /\ Cardinality(C) = Cardinality(E) * 1
      BY <2>3, <3>1, FS_Product
    <3>3. QED
      BY <2>3, <3>2
  <2> HIDE DEF A, B, C, E, flexible
  <2>13. /\ IsFiniteSet(A \cup B \cup C)
         /\ Cardinality(A \cup B \cup C) <= Cardinality(A) + Cardinality(B) + Cardinality(C)
    <3>1. IsFiniteSet(A \cup B) /\ Cardinality(A \cup B) = Cardinality(A) + Cardinality(B) - Cardinality(A \cap B)
      BY <2>10, <2>11, FS_Union
    <3>2. /\ IsFiniteSet((A \cup B) \cup C)
          /\ Cardinality((A \cup B) \cup C) = Cardinality(A \cup B) + Cardinality(C) - Cardinality((A \cup B) \cap C)
      BY <2>12, <3>1, FS_Union
    <3>3. IsFiniteSet(A \cap B) /\ IsFiniteSet((A \cup B) \cap C)
      BY <2>10, <3>1, FS_Intersection
    <3>4. /\ Cardinality(A) \in Nat /\ Cardinality(B) \in Nat /\ Cardinality(C) \in Nat
          /\ Cardinality(A \cap B) \in Nat /\ Cardinality((A \cup B) \cap C) \in Nat
      BY <2>10, <2>11, <2>12, <3>3, FS_CardinalityType
    <3>5. QED
      BY <3>1, <3>2, <3>4
  <2>14. Cardinality(BlockRows(blocks)) <= Cardinality(A \cup B \cup C) /\ Cardinality(BlockRows(blocks)) \in Nat
    BY <2>9, <2>13, FS_Subset, FS_CardinalityType
  <2>15. Cardinality(A \cup B \cup C) \in Nat
    BY <2>13, FS_CardinalityType
  <2>16. Cardinality(A) + Cardinality(B) + Cardinality(C) <= body
    <3>1. body = left + 2 * Cardinality(rigid)
      BY <1>4 DEF left
    <3> DEFINE share == q * base
    <3>2. share \in Nat /\ left = share + extra /\ Cardinality(B) = share
      BY <1>4, <2>2, <2>11
    <3> HIDE DEF share
    <3>3. QED
      BY <1>4, <2>2, <2>3, <2>10, <2>12, <3>1, <3>2
  <2>17. Cardinality(BlockRows(blocks)) <= Larger(0, body)
    <3>1. body <= Larger(0, body) /\ Larger(0, body) \in Int
      BY DEF Larger
    <3>2. Cardinality(A) + Cardinality(B) + Cardinality(C) \in Int
      BY <2>10, <2>11, <2>12, FS_CardinalityType
    <3>3. QED
      BY <2>13, <2>14, <2>15, <2>16, <3>1, <3>2
  <2>18. QED
    BY <2>8, <2>17 DEF blocks
<1>11. QED
  BY <1>1, <1>4, <1>8, <1>9, <1>10
=============================================================================
