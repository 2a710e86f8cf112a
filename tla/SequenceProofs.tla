---------------------------- MODULE SequenceProofs ----------------------------
(***************************************************************************)
(* Induction over numbers and sequences, and with it what the recursive    *)
(* operators on sequences that the models use compute.  A predicate is the *)
(* set of what it holds of: the provers instantiate a set, not an operator.*)
(***************************************************************************)
EXTENDS Integers, FiniteSets, FiniteSetTheorems, SequencesExt, TLAPS

\* Induction over the naturals: from a number outside S, the numbers up to it
\* that are outside S map one to one into themselves but for the largest.
LEMMA NatInduct ==
  ASSUME NEW S, 0 \in S, \A n \in Nat : n \in S => n + 1 \in S
  PROVE  Nat \subseteq S
<1> SUFFICES ASSUME NEW k \in Nat, k \notin S PROVE FALSE
  OBVIOUS
<1> DEFINE B == {n \in 0 .. k : n \notin S}
           f == [n \in B |-> n - 1]
<1>1. IsFiniteSet(B) /\ k \in B
  <2>1. IsFiniteSet(0 .. k)
    BY FS_Interval
  <2>2. B \in SUBSET (0 .. k) /\ k \in B
    OBVIOUS
  <2> HIDE DEF B
  <2>3. QED
    BY <2>1, <2>2, FS_Subset
<1>2. \A n \in B : n - 1 \in B \ {k}
  <2> TAKE n \in B
  <2>1. n # 0 /\ n \in Nat
    OBVIOUS
  <2>2. n - 1 \in Nat /\ n - 1 \notin S /\ (n - 1) + 1 = n
    BY <2>1
  <2>3. QED
    BY <2>1, <2>2
<1>3. f \in [B -> B \ {k}]
  BY <1>2
<1>4. \A x, y \in B : f[x] = f[y] => x = y
  OBVIOUS
<1> HIDE DEF B, f
<1>5. IsFiniteSet(B \ {k}) /\ Cardinality(B \ {k}) = Cardinality(B) - 1 /\ Cardinality(B) \in Nat
  BY <1>1, FS_RemoveElement, FS_CardinalityType
<1>6. Cardinality(B \ {k}) < Cardinality(B)
  BY <1>5
<1>7. \E x, y \in B : x # y /\ f[x] = f[y]
  BY <1>1, <1>3, <1>5, <1>6, FS_PigeonHole
<1>8. QED
  BY <1>4, <1>7

\* The first n values of the function with g[0] = v and g[i + 1] = F[i][g[i]].
Iterates(F, v, V, n) ==
  {g \in [0 .. n -> V] : g[0] = v /\ \A i \in 0 .. n - 1 : g[i + 1] = F[i][g[i]]}

\* Primitive recursion, up to any number.
LEMMA Recursion ==
  ASSUME NEW V, NEW v \in V, NEW F \in [Nat -> [V -> V]], NEW n \in Nat
  PROVE  Iterates(F, v, V, n) # {}
<1> DEFINE Upto(k) == {g \in [0 .. k -> V] : g[0] = v /\ \A i \in 0 .. k - 1 : g[i + 1] = F[i][g[i]]}
           S == {k \in Nat : Upto(k) # {}}
<1>1. 0 \in S
  <2>1. [i \in 0 .. 0 |-> v] \in Upto(0)
    OBVIOUS
  <2>2. QED
    BY <2>1
<1>2. ASSUME NEW k \in Nat, k \in S PROVE k + 1 \in S
  <2>1. PICK g \in Upto(k) : TRUE
    BY <1>2
  <2> DEFINE h == [i \in 0 .. k + 1 |-> IF i = k + 1 THEN F[k][g[k]] ELSE g[i]]
  <2>2. F[k][g[k]] \in V
    BY <2>1
  <2>3. h \in [0 .. k + 1 -> V]
    BY <2>1, <2>2
  <2>4. \A i \in 0 .. k : h[i] = g[i]
    OBVIOUS
  <2>5. h[k + 1] = F[k][g[k]]
    OBVIOUS
  <2>6. h[0] = v
    BY <2>1, <2>4
  <2>7. \A i \in 0 .. (k + 1) - 1 : h[i + 1] = F[i][h[i]]
    <3> TAKE i \in 0 .. (k + 1) - 1
    <3>1. CASE i = k
      BY <3>1, <2>4, <2>5
    <3>2. CASE i # k
      <4>1. i \in 0 .. k - 1 /\ i + 1 \in 0 .. k
        BY <3>2
      <4> HIDE DEF h
      <4>2. QED
        BY <4>1, <2>1, <2>4
    <3>3. QED
      BY <3>1, <3>2
  <2> HIDE DEF h
  <2>8. h \in Upto(k + 1)
    BY <2>3, <2>6, <2>7
  <2>9. QED
    BY <2>8
<1> HIDE DEF S
<1>3. n \in S
  BY <1>1, <1>2, NatInduct
<1>4. QED
  BY <1>3 DEF S, Iterates

\* What FlattenSeq computes, one sequence at a time.
LEMMA FlattenSeqSteps ==
  ASSUME NEW A, NEW seqs \in Seq(Seq(A)), Len(seqs) # 0
  PROVE  \E g \in [1 .. Len(seqs) -> Seq(A)] :
           /\ g[1] = seqs[1]
           /\ \A i \in 2 .. Len(seqs) : g[i] = g[i - 1] \o seqs[i]
           /\ FlattenSeq(seqs) = g[Len(seqs)]
<1> DEFINE n == Len(seqs)
           Step(g, i) == IF i = 1 THEN seqs[i] ELSE g[i - 1] \o seqs[i]
           flatten == CHOOSE g : g = [i \in 1 .. n |-> Step(g, i)]
           F == [i \in Nat |-> [s \in Seq(A) |-> IF i + 2 \in 1 .. n THEN s \o seqs[i + 2] ELSE s]]
<1>1. n \in Nat \ {0} /\ \A i \in 1 .. n : seqs[i] \in Seq(A)
  OBVIOUS
<1> HIDE DEF n
<1>2. F \in [Nat -> [Seq(A) -> Seq(A)]]
  BY <1>1
<1>3. PICK h \in [0 .. n - 1 -> Seq(A)] : h[0] = seqs[1] /\ \A i \in 0 .. (n - 1) - 1 : h[i + 1] = F[i][h[i]]
  <2> DEFINE m == n - 1
             V == Seq(A)
             v == seqs[1]
  <2>1. m \in Nat /\ v \in V /\ F \in [Nat -> [V -> V]]
    BY <1>1, <1>2
  <2> HIDE DEF F, m, V, v
  <2>2. Iterates(F, v, V, m) # {}
    BY <2>1, Recursion
  <2>3. QED
    BY <2>2 DEF Iterates, m, V, v
<1>4. \A i \in 0 .. n - 2 : h[i + 1] = h[i] \o seqs[i + 2]
  <2> TAKE i \in 0 .. n - 2
  <2>1. i \in 0 .. (n - 1) - 1 /\ i \in Nat /\ i + 2 \in 1 .. n /\ h[i] \in Seq(A)
    BY <1>1
  <2>2. F[i][h[i]] = h[i] \o seqs[i + 2]
    BY <2>1
  <2>3. QED
    BY <1>3, <2>1, <2>2
<1> DEFINE g == [i \in 1 .. n |-> h[i - 1]]
<1>5. g \in [1 .. n -> Seq(A)]
  BY <1>1
<1>6. \A i \in 1 .. n : g[i] = Step(g, i)
  <2> TAKE i \in 1 .. n
  <2>1. CASE i = 1
    BY <1>1, <1>3, <2>1
  <2>2. CASE i # 1
    <3>1. i - 2 \in 0 .. n - 2 /\ (i - 2) + 1 = i - 1 /\ (i - 2) + 2 = i /\ i - 1 \in 1 .. n /\ (i - 1) - 1 = i - 2
      BY <1>1, <2>2
    <3>2. h[i - 1] = h[i - 2] \o seqs[i]
      BY <1>4, <3>1
    <3>3. g[i] = h[i - 1] /\ g[i - 1] = h[i - 2]
      BY <3>1
    <3>4. QED
      BY <2>2, <3>2, <3>3
  <2>3. QED
    BY <2>1, <2>2
<1> HIDE DEF g
<1>7. g = [i \in 1 .. n |-> Step(g, i)]
  BY <1>5, <1>6
<1>8. flatten = [i \in 1 .. n |-> Step(flatten, i)]
  BY <1>7
<1>9. FlattenSeq(seqs) = flatten[n]
  BY <1>1 DEF FlattenSeq, n
<1> HIDE DEF flatten
<1>10. \A i \in 1 .. n : flatten[i] = Step(flatten, i)
  BY <1>8
<1>11. flatten \in [1 .. n -> Seq(A)]
  <2> DEFINE T == {k \in Nat : k \in 1 .. n => flatten[k] \in Seq(A)}
  <2>1. 0 \in T
    OBVIOUS
  <2>2. ASSUME NEW k \in Nat, k \in T PROVE k + 1 \in T
    <3> SUFFICES ASSUME k + 1 \in 1 .. n PROVE flatten[k + 1] \in Seq(A)
      OBVIOUS
    <3>1. flatten[k + 1] = Step(flatten, k + 1)
      BY <1>10
    <3>2. CASE k = 0
      BY <1>1, <3>1, <3>2
    <3>3. CASE k # 0
      <4>1. k + 1 # 1 /\ (k + 1) - 1 = k /\ flatten[k] \in Seq(A) /\ seqs[k + 1] \in Seq(A)
        BY <1>1, <2>2, <3>3
      <4>2. QED
        BY <3>1, <4>1
    <3>4. QED
      BY <3>2, <3>3
  <2> HIDE DEF T
  <2>3. Nat \subseteq T
    BY <2>1, <2>2, NatInduct
  <2>4. \A i \in 1 .. n : flatten[i] \in Seq(A)
    BY <2>3 DEF T
  <2>5. QED
    BY <1>8, <2>4
<1>12. flatten[1] = seqs[1]
  <2>1. flatten[1] = Step(flatten, 1)
    BY <1>1, <1>10
  <2>2. QED
    BY <2>1
<1>13. \A i \in 2 .. n : flatten[i] = flatten[i - 1] \o seqs[i]
  <2> TAKE i \in 2 .. n
  <2>1. i \in 1 .. n /\ i # 1
    BY <1>1
  <2>2. QED
    BY <1>10, <2>1
<1>14. QED
  BY <1>9, <1>11, <1>12, <1>13 DEF n

\* What holds of each sequence, and of two in a row if it does of both, holds
\* of all of them in a row.
LEMMA FlattenSeqClosed ==
  ASSUME NEW A, NEW seqs \in Seq(Seq(A)), NEW P \in SUBSET Seq(A), <<>> \in P,
         \A s, t \in P : s \o t \in P,
         \A i \in 1 .. Len(seqs) : seqs[i] \in P
  PROVE  FlattenSeq(seqs) \in P
<1>1. CASE Len(seqs) = 0
  BY <1>1 DEF FlattenSeq
<1>2. CASE Len(seqs) # 0
  <2>1. PICK g \in [1 .. Len(seqs) -> Seq(A)] :
          /\ g[1] = seqs[1]
          /\ \A i \in 2 .. Len(seqs) : g[i] = g[i - 1] \o seqs[i]
          /\ FlattenSeq(seqs) = g[Len(seqs)]
    BY <1>2, FlattenSeqSteps
  <2> DEFINE n == Len(seqs)
             S == {k \in Nat : k \in 1 .. n => g[k] \in P}
  <2>2. n \in Nat \ {0}
    BY <1>2
  <2>3. /\ g[1] = seqs[1] /\ FlattenSeq(seqs) = g[n]
        /\ \A i \in 2 .. n : g[i] = g[i - 1] \o seqs[i]
        /\ \A i \in 1 .. n : seqs[i] \in P
    BY <2>1
  <2> HIDE DEF n
  <2>4. 0 \in S
    OBVIOUS
  <2>5. ASSUME NEW k \in Nat, k \in S PROVE k + 1 \in S
    <3> SUFFICES ASSUME k + 1 \in 1 .. n PROVE g[k + 1] \in P
      OBVIOUS
    <3>1. CASE k = 0
      BY <2>2, <2>3, <3>1
    <3>2. CASE k # 0
      <4>1. k + 1 \in 2 .. n /\ (k + 1) - 1 = k /\ g[k] \in P /\ seqs[k + 1] \in P
        BY <2>2, <2>3, <2>5, <3>2
      <4>2. g[k + 1] = g[k] \o seqs[k + 1]
        BY <2>3, <4>1
      <4>3. QED
        BY <4>1, <4>2
    <3>3. QED
      BY <3>1, <3>2
  <2> HIDE DEF S
  <2>6. n \in S
    BY <2>2, <2>4, <2>5, NatInduct
  <2>7. QED
    BY <2>2, <2>3, <2>6 DEF S
<1>3. QED
  BY <1>1, <1>2

\* The type of a flattening.
LEMMA FlattenSeqType ==
  ASSUME NEW A, NEW n \in Nat, NEW seqs, seqs = [i \in 1 .. n |-> seqs[i]],
         \A i \in 1 .. n : seqs[i] \in Seq(A)
  PROVE  FlattenSeq(seqs) \in Seq(A)
<1> DEFINE P == Seq(A)
<1>1. seqs \in [1 .. n -> Seq(A)]
  OBVIOUS
<1>2. seqs \in Seq(Seq(A)) /\ Len(seqs) = n
  BY <1>1
<1>3. <<>> \in P /\ \A s, t \in P : s \o t \in P
  OBVIOUS
<1>4. P \in SUBSET Seq(A) /\ \A i \in 1 .. Len(seqs) : seqs[i] \in P
  BY <1>2
<1> HIDE DEF P
<1>5. FlattenSeq(seqs) \in P
  BY <1>2, <1>3, <1>4, FlattenSeqClosed
<1>6. QED
  BY <1>5 DEF P

-----------------------------------------------------------------------------
(* Finite sets *)

LEMMA FiniteImage ==
  ASSUME NEW S, IsFiniteSet(S), NEW f, f = [x \in S |-> f[x]]
  PROVE  IsFiniteSet({f[x] : x \in S})
<1>1. f \in Surjection(S, {f[x] : x \in S})
  BY DEF Surjection
<1> QED
  BY <1>1, FS_Surjection

\* A finite set of numbers has a bound.
LEMMA FiniteBound ==
  ASSUME NEW S \in SUBSET Nat, IsFiniteSet(S)
  PROVE  \E b \in Nat : \A x \in S : x <= b
<1> DEFINE n == Cardinality(S)
           Bounded(f, k) == \E b \in Nat : \A i \in 1 .. k : f[i] <= b
           T == {k \in Nat : \A f \in [1 .. k -> Nat] : Bounded(f, k)}
<1>1. 0 \in T
  OBVIOUS
<1>2. ASSUME NEW k \in Nat, k \in T PROVE k + 1 \in T
  <2> SUFFICES ASSUME NEW f \in [1 .. k + 1 -> Nat]
               PROVE  Bounded(f, k + 1)
    <3> HIDE DEF Bounded
    <3> QED
      OBVIOUS
  <2> DEFINE g == [i \in 1 .. k |-> f[i]]
             y == f[k + 1]
  <2>1. g \in [1 .. k -> Nat] /\ y \in Nat
    OBVIOUS
  <2>2. \A i \in 1 .. k : g[i] = f[i]
    OBVIOUS
  <2> HIDE DEF g
  <2>3. PICK b \in Nat : \A i \in 1 .. k : g[i] <= b
    BY <1>2, <2>1
  <2>4. \A i \in 1 .. k + 1 : i \in 1 .. k \/ i = k + 1
    OBVIOUS
  <2> HIDE DEF y
  <2>5. CASE y <= b
    BY <2>2, <2>3, <2>4, <2>5 DEF y
  <2>6. CASE ~(y <= b)
    <3>1. b <= y
      BY <2>1, <2>6
    <3>2. \A i \in 1 .. k + 1 : f[i] <= y
      BY <2>1, <2>2, <2>3, <2>4, <3>1 DEF y
    <3>3. QED
      BY <2>1, <3>2
  <2>7. QED
    BY <2>5, <2>6
<1> HIDE DEF T
<1>3. n \in T
  BY <1>1, <1>2, FS_CardinalityType, NatInduct
<1>4. PICK f \in Bijection(1 .. n, S) : TRUE
  BY FS_CardinalityType DEF ExistsBijection
<1>5. f \in [1 .. n -> Nat] /\ \A x \in S : \E i \in 1 .. n : f[i] = x
  BY DEF Bijection, Surjection, Injection
<1>6. PICK b \in Nat : \A i \in 1 .. n : f[i] <= b
  BY <1>3, <1>5 DEF T
<1>7. QED
  BY <1>5, <1>6

\* And, unless it is empty, a least and a largest element.
LEMMA MinMax ==
  ASSUME NEW S \in SUBSET Nat, IsFiniteSet(S), S # {}
  PROVE  /\ Min(S) \in S /\ \A x \in S : Min(S) <= x
         /\ Max(S) \in S /\ \A x \in S : Max(S) >= x
<1> DEFINE Least(R) == \E x \in R : \A y \in R : x <= y
           Largest(R) == \E x \in R : \A y \in R : x >= y
           T == {k \in Nat : \A R \in SUBSET (0 .. k) : R # {} => Least(R) /\ Largest(R)}
<1>1. 0 \in T
  <2>1. \A R \in SUBSET (0 .. 0) : R # {} => R = {0}
    <3>1. 0 .. 0 = {0}
      OBVIOUS
    <3>2. QED
      BY <3>1, Zenon
  <2>2. Least({0}) /\ Largest({0})
    OBVIOUS
  <2> HIDE DEF Least, Largest
  <2>3. \A R \in SUBSET (0 .. 0) : R # {} => Least(R) /\ Largest(R)
    BY <2>1, <2>2
  <2>4. QED
    BY <2>3
<1>2. ASSUME NEW k \in Nat, k \in T PROVE k + 1 \in T
  <2> SUFFICES ASSUME NEW R \in SUBSET (0 .. k + 1), R # {} PROVE Least(R) /\ Largest(R)
    OBVIOUS
  <2> DEFINE Q == R \ {k + 1}
  <2>1. Q \in SUBSET (0 .. k)
    OBVIOUS
  <2>2. CASE Q = {}
    <3>1. R = {k + 1}
      BY <2>2
    <3>2. QED
      BY <3>1
  <2>3. CASE Q # {}
    <3>1. Least(Q) /\ Largest(Q)
      BY <1>2, <2>1, <2>3
    <3>2. Least(R)
      <4>1. PICK x \in Q : \A y \in Q : x <= y
        BY <3>1
      <4>2. x \in R /\ x <= k + 1
        BY <2>1, <4>1
      <4>3. \A y \in R : x <= y
        BY <4>1, <4>2
      <4>4. QED
        BY <4>2, <4>3
    <3>3. Largest(R)
      <4>1. CASE k + 1 \in R
        BY <4>1
      <4>2. CASE k + 1 \notin R
        <5>1. Q = R
          BY <4>2
        <5>2. QED
          BY <3>1, <5>1
      <4>3. QED
        BY <4>1, <4>2
    <3>4. QED
      BY <3>2, <3>3
  <2>4. QED
    BY <2>2, <2>3
<1>3. PICK b \in Nat : \A x \in S : x <= b
  BY FiniteBound
<1>4. S \in SUBSET (0 .. b)
  BY <1>3
<1>5. b \in T
  <2> HIDE DEF T
  <2>1. QED
    BY <1>1, <1>2, NatInduct
<1>6. Least(S) /\ Largest(S)
  BY <1>4, <1>5
<1>7. QED
  BY <1>6 DEF Min, Max

\* A sequence, whatever its elements.
IsSeq(s) == s \in Seq({s[i] : i \in DOMAIN s})

LEMMA IsSeqOfAnything ==
  ASSUME NEW A, NEW s \in Seq(A)
  PROVE  IsSeq(s)
  BY DEF IsSeq

LEMMA IsSeqDomain ==
  ASSUME NEW s, IsSeq(s)
  PROVE  Len(s) \in Nat /\ DOMAIN s = 1 .. Len(s)
  BY DEF IsSeq

LEMMA IsSeqFunction ==
  ASSUME NEW s, NEW n \in Nat, DOMAIN s = 1 .. n, s = [i \in 1 .. n |-> s[i]]
  PROVE  IsSeq(s) /\ Len(s) = n
  BY DEF IsSeq

\* The elements of a finite set in some order.
LEMMA SetToSeqIsSeq ==
  ASSUME NEW S, IsFiniteSet(S)
  PROVE  SetToSeq(S) \in Seq(S)
<1> DEFINE n == Cardinality(S)
<1>1. n \in Nat /\ ExistsBijection(1 .. n, S)
  BY FS_CardinalityType
<1>2. PICK f \in [1 .. n -> S] : IsInjective(f)
  BY <1>1 DEF ExistsBijection, Bijection, Injection, IsInjective
<1>3. SetToSeq(S) \in [1 .. n -> S]
  BY <1>2 DEF SetToSeq
<1>4. QED
  BY <1>1, <1>3

LEMMA SetToSeqIsApart ==
  ASSUME NEW S, IsFiniteSet(S)
  PROVE  \A i, j \in 1 .. Len(SetToSeq(S)) : SetToSeq(S)[i] = SetToSeq(S)[j] => i = j
<1> DEFINE n == Cardinality(S)
           s == SetToSeq(S)
<1>1. n \in Nat /\ ExistsBijection(1 .. n, S)
  BY FS_CardinalityType
<1>2. PICK f \in [1 .. n -> S] : IsInjective(f)
  BY <1>1 DEF ExistsBijection, Bijection, Injection, IsInjective
<1>3. s \in [1 .. n -> S] /\ IsInjective(s)
  BY <1>2 DEF SetToSeq
<1> HIDE DEF n, s
<1>4. DOMAIN s = 1 .. n /\ Len(s) = n
  BY <1>1, <1>3
<1>5. QED
  BY <1>3, <1>4 DEF IsInjective, s

-----------------------------------------------------------------------------
(* Maps and filters of sequences *)

\* Induction over sequences.
LEMMA SeqInduct ==
  ASSUME NEW A, NEW P, <<>> \in P, \A s \in Seq(A) : s \in P => \A x \in A : Append(s, x) \in P
  PROVE  Seq(A) \subseteq P
<1> DEFINE S == {n \in Nat : \A s \in Seq(A) : Len(s) = n => s \in P}
<1>1. 0 \in S
  <2>1. \A s \in Seq(A) : Len(s) = 0 => s = <<>>
    OBVIOUS
  <2>2. QED
    BY <2>1
<1>2. ASSUME NEW n \in Nat, n \in S PROVE n + 1 \in S
  <2> SUFFICES ASSUME NEW s \in Seq(A), Len(s) = n + 1 PROVE s \in P
    OBVIOUS
  <2> DEFINE t == [i \in 1 .. n |-> s[i]]
             x == s[n + 1]
  <2>1. t \in Seq(A) /\ Len(t) = n /\ x \in A
    OBVIOUS
  <2>2. s = Append(t, x)
    OBVIOUS
  <2> HIDE DEF t, x
  <2>3. t \in P
    BY <1>2, <2>1
  <2>4. QED
    BY <2>1, <2>2, <2>3
<1> HIDE DEF S
<1>3. Nat \subseteq S
  BY <1>1, <1>2, NatInduct
<1>4. QED
  BY <1>3 DEF S

\* One sequence more.
LEMMA FlattenAppend ==
  ASSUME NEW B, NEW ss \in Seq(Seq(B)), NEW x \in Seq(B)
  PROVE  FlattenSeq(Append(ss, x)) = FlattenSeq(ss) \o x
<1> DEFINE tt == Append(ss, x)
           n == Len(ss)
<1>1. /\ tt \in Seq(Seq(B)) /\ n \in Nat /\ Len(tt) = n + 1 /\ tt[n + 1] = x
      /\ \A i \in 1 .. n : tt[i] = ss[i]
  OBVIOUS
<1> HIDE DEF tt, n
<1>2. PICK h \in [1 .. Len(tt) -> Seq(B)] :
        /\ h[1] = tt[1]
        /\ \A i \in 2 .. Len(tt) : h[i] = h[i - 1] \o tt[i]
        /\ FlattenSeq(tt) = h[Len(tt)]
  <2>1. Len(tt) # 0
    BY <1>1
  <2>2. QED
    BY <1>1, <2>1, FlattenSeqSteps
<1>3. CASE n = 0
  <2>1. FlattenSeq(ss) = <<>>
    BY <1>3 DEF FlattenSeq, n
  <2>2. FlattenSeq(tt) = x
    BY <1>1, <1>2, <1>3
  <2>3. QED
    BY <2>1, <2>2 DEF tt
<1>4. CASE n # 0
  <2>1. PICK g \in [1 .. n -> Seq(B)] :
          /\ g[1] = ss[1]
          /\ \A i \in 2 .. n : g[i] = g[i - 1] \o ss[i]
          /\ FlattenSeq(ss) = g[n]
    BY <1>4, FlattenSeqSteps DEF n
  <2>2. n # 0 => g[1] = h[1]
    <3>1. 1 \in 1 .. n
      BY <1>1, <1>4
    <3>2. QED
      BY <1>1, <1>2, <2>1, <3>1
  <2>3. \A i \in 2 .. n : g[i] = g[i - 1] \o ss[i] /\ h[i] = h[i - 1] \o ss[i]
    <3> TAKE i \in 2 .. n
    <3>1. i \in 1 .. n /\ i \in 2 .. n + 1
      BY <1>1
    <3>2. QED
      BY <1>1, <1>2, <2>1, <3>1
  <2>4. \A i \in 1 .. n : g[i] = h[i]
    <3> DEFINE S == {k \in Nat : k \in 1 .. n => g[k] = h[k]}
    <3>1. 0 \in S
      OBVIOUS
    <3>2. ASSUME NEW k \in Nat, k \in S PROVE k + 1 \in S
      <4> SUFFICES ASSUME k + 1 \in 1 .. n PROVE g[k + 1] = h[k + 1]
        OBVIOUS
      <4>1. CASE k = 0
        BY <1>4, <2>2, <4>1
      <4>2. CASE k # 0
        <5>1. k + 1 \in 2 .. n /\ (k + 1) - 1 = k /\ g[k] = h[k]
          BY <1>1, <3>2, <4>2
        <5>2. QED
          BY <2>3, <5>1
      <4>3. QED
        BY <4>1, <4>2
    <3> HIDE DEF S
    <3>3. Nat \subseteq S
      BY <3>1, <3>2, NatInduct
    <3>4. QED
      BY <1>1, <3>3 DEF S
  <2>5. h[n + 1] = h[n] \o x
    <3>1. n + 1 \in 2 .. n + 1 /\ (n + 1) - 1 = n
      BY <1>1, <1>4
    <3>2. QED
      BY <1>1, <1>2, <3>1
  <2>6. g[n] = h[n]
    BY <1>1, <1>4, <2>4
  <2>7. QED
    BY <1>1, <1>2, <2>1, <2>5, <2>6 DEF tt
<1>5. QED
  BY <1>3, <1>4

\* What F makes of each element, in a row; R, which makes one of each.
FlatMap(F, s) == FlattenSeq([i \in DOMAIN s |-> F[s[i]]])
Mapped(s, R)  == [i \in DOMAIN s |-> R[s[i]]]

Maps(F, A, B)        == F \in [A -> Seq(B)]
MapsOne(F, A, R)     == \A x \in A : F[x] = <<R[x]>>
Composed(H, A, G, F) == \A x \in A : H[x] = FlatMap(G, F[x])

LEMMA FlatMapSteps ==
  ASSUME NEW A, NEW B, NEW F, Maps(F, A, B)
  PROVE  /\ FlatMap(F, <<>>) = <<>>
         /\ \A s \in Seq(A) : FlatMap(F, s) \in Seq(B)
         /\ \A s \in Seq(A), x \in A : FlatMap(F, Append(s, x)) = FlatMap(F, s) \o F[x]
<1> DEFINE seqs(s) == [i \in DOMAIN s |-> F[s[i]]]
<1> USE DEF Maps
<1>1. ASSUME NEW s \in Seq(A) PROVE seqs(s) \in Seq(Seq(B))
  <2> DEFINE n == Len(s)
             V == Seq(B)
  <2>1. n \in Nat /\ DOMAIN s = 1 .. n /\ \A i \in 1 .. n : F[s[i]] \in V
    OBVIOUS
  <2> HIDE DEF n, V
  <2>2. seqs(s) \in [1 .. n -> V]
    BY <2>1
  <2> HIDE DEF seqs
  <2>3. seqs(s) \in Seq(V)
    BY <2>1, <2>2
  <2>4. QED
    BY <2>3 DEF V
<1>2. ASSUME NEW s \in Seq(A) PROVE FlatMap(F, s) \in Seq(B)
  <2> DEFINE t == seqs(s)
             n == Len(s)
  <2>1. n \in Nat /\ t = [i \in 1 .. n |-> t[i]] /\ \A i \in 1 .. n : t[i] \in Seq(B)
    OBVIOUS
  <2>2. FlatMap(F, s) = FlattenSeq(t)
    BY DEF FlatMap
  <2> HIDE DEF t, n
  <2>3. QED
    BY <2>1, <2>2, FlattenSeqType
<1>3. ASSUME NEW s \in Seq(A), NEW x \in A PROVE FlatMap(F, Append(s, x)) = FlatMap(F, s) \o F[x]
  <2> DEFINE t == seqs(s)
             u == seqs(Append(s, x))
             y == F[x]
  <2>1. u = Append(t, y)
    OBVIOUS
  <2>2. t \in Seq(Seq(B)) /\ y \in Seq(B)
    BY <1>1
  <2>3. FlatMap(F, s) = FlattenSeq(t) /\ FlatMap(F, Append(s, x)) = FlattenSeq(u)
    BY DEF FlatMap
  <2> HIDE DEF t, u, y
  <2>4. FlattenSeq(Append(t, y)) = FlattenSeq(t) \o y
    BY <2>2, FlattenAppend
  <2>5. QED
    BY <2>1, <2>3, <2>4 DEF y
<1>4. FlatMap(F, <<>>) = <<>>
  <2>1. seqs(<<>>) = <<>>
    OBVIOUS
  <2>2. QED
    BY <2>1 DEF FlatMap, FlattenSeq
<1>5. QED
  BY <1>2, <1>3, <1>4

\* In two parts of a row as in the row.
InParts(F, A) == \A s, t \in Seq(A) : FlatMap(F, s \o t) = FlatMap(F, s) \o FlatMap(F, t)

LEMMA FlatMapConcat ==
  ASSUME NEW A, NEW B, NEW F, Maps(F, A, B)
  PROVE  InParts(F, A)
<1> SUFFICES ASSUME NEW s \in Seq(A), NEW t \in Seq(A)
             PROVE  FlatMap(F, s \o t) = FlatMap(F, s) \o FlatMap(F, t)
  BY DEF InParts
<1> DEFINE f(u) == FlatMap(F, u)
           P == {u \in Seq(A) : f(s \o u) = f(s) \o f(u)}
<1>1. /\ f(<<>>) = <<>>
      /\ \A u \in Seq(A) : f(u) \in Seq(B)
      /\ \A u \in Seq(A), x \in A : f(Append(u, x)) = f(u) \o F[x]
  BY FlatMapSteps
<1>2. \A x \in A : F[x] \in Seq(B)
  BY DEF Maps
<1> HIDE DEF f
<1>3. <<>> \in P
  <2>1. s \o <<>> = s /\ f(s) \o <<>> = f(s)
    BY <1>1
  <2>2. QED
    BY <1>1, <2>1
<1>4. ASSUME NEW u \in Seq(A), u \in P, NEW x \in A PROVE Append(u, x) \in P
  <2> DEFINE su == s \o u
  <2>1. s \o Append(u, x) = Append(su, x) /\ su \in Seq(A) /\ Append(u, x) \in Seq(A)
    OBVIOUS
  <2>2. f(su) = f(s) \o f(u)
    BY <1>4
  <2> HIDE DEF su
  <2>3. f(Append(su, x)) = (f(s) \o f(u)) \o F[x] /\ f(Append(u, x)) = f(u) \o F[x]
    BY <1>1, <2>1, <2>2
  <2> DEFINE a == f(s)
             b == f(u)
             c == F[x]
  <2>4. a \in Seq(B) /\ b \in Seq(B) /\ c \in Seq(B)
    BY <1>1, <1>2
  <2> HIDE DEF a, b, c
  <2>5. (a \o b) \o c = a \o (b \o c)
    BY <2>4
  <2>6. QED
    BY <2>1, <2>3, <2>5 DEF a, b, c
<1> HIDE DEF P
<1>5. Seq(A) \subseteq P
  BY <1>3, <1>4, SeqInduct
<1>6. QED
  BY <1>5 DEF P, f

\* What is made of the elements of sequences in a row is made of each of them.
LEMMA FlatMapFlatten ==
  ASSUME NEW A, NEW B, NEW F, Maps(F, A, B), NEW ss \in Seq(Seq(A))
  PROVE  FlatMap(F, FlattenSeq(ss)) = FlattenSeq([i \in DOMAIN ss |-> FlatMap(F, ss[i])])
<1> DEFINE f == [u \in Seq(A) |-> FlatMap(F, u)]
           id == [u \in Seq(A) |-> u]
           flat(tt) == FlatMap(id, tt)
           each(tt) == FlatMap(f, tt)
           P == {tt \in Seq(Seq(A)) : f[flat(tt)] = each(tt)}
<1>1. Maps(f, Seq(A), B) /\ \A u \in Seq(A) : f[u] = FlatMap(F, u)
  BY FlatMapSteps DEF Maps
<1>2. /\ f[<<>>] = <<>>
      /\ \A u, v \in Seq(A) : f[u \o v] = f[u] \o f[v]
  <2>1. f[<<>>] = <<>>
    BY <1>1, FlatMapSteps
  <2>2. ASSUME NEW u \in Seq(A), NEW v \in Seq(A) PROVE f[u \o v] = f[u] \o f[v]
    <3>0. InParts(F, A)
      BY FlatMapConcat
    <3>1. u \o v \in Seq(A)
      OBVIOUS
    <3>2. FlatMap(F, u \o v) = FlatMap(F, u) \o FlatMap(F, v)
      BY <3>0 DEF InParts
    <3>3. f[u \o v] = FlatMap(F, u \o v) /\ f[u] = FlatMap(F, u) /\ f[v] = FlatMap(F, v)
      BY <1>1, <3>1
    <3>4. QED
      BY <3>2, <3>3
  <2>3. QED
    BY <2>1, <2>2
<1>3. Maps(id, Seq(A), A) /\ \A u \in Seq(A) : id[u] = u
  BY DEF Maps
<1> HIDE DEF f, id
<1> DEFINE SA == Seq(A)
<1>4. /\ flat(<<>>) = <<>>
      /\ \A tt \in Seq(SA) : flat(tt) \in SA
      /\ \A tt \in Seq(SA), u \in SA : flat(Append(tt, u)) = flat(tt) \o u
  <2>1. Maps(id, SA, A) /\ \A u \in SA : id[u] = u
    BY <1>3
  <2> HIDE DEF SA
  <2>2. /\ flat(<<>>) = <<>>
        /\ \A tt \in Seq(SA) : flat(tt) \in Seq(A)
        /\ \A tt \in Seq(SA), u \in SA : flat(Append(tt, u)) = flat(tt) \o id[u]
    BY <2>1, FlatMapSteps
  <2> HIDE DEF flat
  <2>3. \A tt \in Seq(SA), u \in SA : flat(Append(tt, u)) = flat(tt) \o u
    BY <2>1, <2>2
  <2>4. \A tt \in Seq(SA) : flat(tt) \in SA
    BY <2>2 DEF SA
  <2>5. QED
    BY <2>2, <2>3, <2>4
<1>5. /\ each(<<>>) = <<>>
      /\ \A tt \in Seq(SA), u \in SA : each(Append(tt, u)) = each(tt) \o f[u]
  <2>1. Maps(f, SA, B)
    BY <1>1
  <2> HIDE DEF SA
  <2>2. QED
    BY <2>1, FlatMapSteps
<1> HIDE DEF flat, each
<1>6. Seq(SA) \subseteq P
  <2>1. <<>> \in P
    BY <1>2, <1>4, <1>5
  <2>2. ASSUME NEW tt \in Seq(SA), tt \in P, NEW u \in SA PROVE Append(tt, u) \in P
    <3>1. f[flat(tt)] = each(tt) /\ flat(tt) \in SA /\ Append(tt, u) \in Seq(SA)
      BY <1>4, <2>2
    <3>2. f[flat(tt) \o u] = each(tt) \o f[u]
      BY <1>2, <3>1
    <3>3. QED
      BY <1>4, <1>5, <3>1, <3>2
  <2> HIDE DEF P, SA
  <2>3. QED
    BY <2>1, <2>2, SeqInduct
<1>7. f[flat(ss)] = each(ss) /\ flat(ss) \in SA
  BY <1>4, <1>6
<1>8. flat(ss) = FlattenSeq(ss)
  <2>1. \A i \in DOMAIN ss : id[ss[i]] = ss[i]
    BY <1>3
  <2>3. [i \in DOMAIN ss |-> id[ss[i]]] = ss
    BY <2>1
  <2>2. QED
    BY <2>3 DEF flat, FlatMap
<1>9. each(ss) = FlattenSeq([i \in DOMAIN ss |-> FlatMap(F, ss[i])])
  <2>1. [i \in DOMAIN ss |-> f[ss[i]]] = [i \in DOMAIN ss |-> FlatMap(F, ss[i])]
    BY <1>1
  <2>2. QED
    BY <2>1 DEF each, FlatMap
<1>10. QED
  BY <1>1, <1>7, <1>8, <1>9

\* A map of a sequence.
LEMMA FlatMapIsMap ==
  ASSUME NEW A, NEW B, NEW s \in Seq(A), NEW R, NEW F, Maps(F, A, B), MapsOne(F, A, R)
  PROVE  FlatMap(F, s) = Mapped(s, R)
<1> DEFINE map(u) == Mapped(u, R)
           P == {u \in Seq(A) : FlatMap(F, u) = map(u)}
<1>1. \A x \in A : F[x] = <<R[x]>>
  BY DEF MapsOne
<1>2. <<>> \in P
  <2>1. map(<<>>) = <<>>
    BY DEF Mapped
  <2>2. FlatMap(F, <<>>) = <<>>
    BY FlatMapSteps
  <2> HIDE DEF map
  <2>3. QED
    BY <2>1, <2>2
<1>3. ASSUME NEW u \in Seq(A), u \in P, NEW x \in A PROVE Append(u, x) \in P
  <2>1. \A t \in Seq(A), y \in A : FlatMap(F, Append(t, y)) = FlatMap(F, t) \o F[y]
    BY FlatMapSteps
  <2>2. map(Append(u, x)) = map(u) \o <<R[x]>>
    BY DEF Mapped
  <2>3. Append(u, x) \in Seq(A) /\ FlatMap(F, u) = map(u)
    BY <1>3
  <2> HIDE DEF map
  <2>4. QED
    BY <1>1, <2>1, <2>2, <2>3
<1> HIDE DEF P
<1>4. Seq(A) \subseteq P
  BY <1>2, <1>3, SeqInduct
<1>5. QED
  BY <1>4 DEF P

\* A single element.
LEMMA FlatMapOne ==
  ASSUME NEW A, NEW B, NEW F, Maps(F, A, B), NEW x \in A
  PROVE  FlatMap(F, <<x>>) = F[x]
<1> DEFINE y == F[x]
<1>1. \A s \in Seq(A), a \in A : FlatMap(F, Append(s, a)) = FlatMap(F, s) \o F[a]
  BY FlatMapSteps
<1>2. FlatMap(F, <<>>) = <<>>
  BY FlatMapSteps
<1>3. <<x>> = Append(<<>>, x) /\ <<>> \in Seq(A)
  OBVIOUS
<1>4. y \in Seq(B)
  BY DEF Maps
<1>5. FlatMap(F, <<x>>) = <<>> \o y
  BY <1>1, <1>2, <1>3
<1> HIDE DEF y
<1>6. <<>> \o y = y
  BY <1>4
<1>7. QED
  BY <1>5, <1>6 DEF y

\* One after the other.
LEMMA FlatMapTwice ==
  ASSUME NEW A, NEW B, NEW C, NEW F, Maps(F, A, B), NEW G, Maps(G, B, C), NEW s \in Seq(A),
         NEW H, Composed(H, A, G, F)
  PROVE  FlatMap(G, FlatMap(F, s)) = FlatMap(H, s)
<1> DEFINE n == Len(s)
           ss == [i \in DOMAIN s |-> F[s[i]]]
           V == Seq(B)
<1>1. n \in Nat /\ DOMAIN s = 1 .. n /\ \A i \in 1 .. n : s[i] \in A /\ F[s[i]] \in V
  BY DEF Maps
<1>2. ss \in Seq(V)
  <2> HIDE DEF n, V
  <2>1. ss \in [1 .. n -> V]
    BY <1>1
  <2> HIDE DEF ss
  <2>2. QED
    BY <1>1, <2>1
<1>3. DOMAIN ss = DOMAIN s /\ \A i \in DOMAIN s : ss[i] = F[s[i]]
  OBVIOUS
<1>4. \A i \in DOMAIN s : H[s[i]] = FlatMap(G, F[s[i]])
  BY <1>1 DEF Composed
<1>5. FlatMap(F, s) = FlattenSeq(ss)
  BY DEF FlatMap
<1> HIDE DEF ss
<1>6. FlatMap(G, FlattenSeq(ss)) = FlattenSeq([i \in DOMAIN ss |-> FlatMap(G, ss[i])])
  BY <1>2, FlatMapFlatten DEF V
<1>7. [i \in DOMAIN ss |-> FlatMap(G, ss[i])] = [i \in DOMAIN s |-> H[s[i]]]
  BY <1>3, <1>4
<1>8. QED
  BY <1>5, <1>6, <1>7 DEF FlatMap

\* Nothing in a row is nothing.
LEMMA FlattenNothing ==
  ASSUME NEW n \in Nat, NEW seqs, seqs = [i \in 1 .. n |-> <<>>]
  PROVE  FlattenSeq(seqs) = <<>>
<1> DEFINE P == {<<>>}
<1>1. <<>> \in P /\ P \in SUBSET Seq({}) /\ \A s, t \in P : s \o t \in P
  OBVIOUS
<1>2. seqs \in Seq(Seq({})) /\ \A i \in 1 .. Len(seqs) : seqs[i] \in P
  OBVIOUS
<1> HIDE DEF P
<1>3. FlattenSeq(seqs) \in P
  BY <1>1, <1>2, FlattenSeqClosed
<1>4. QED
  BY <1>3 DEF P

\* A flattening grows by one part at a time.
PartsOf(seqs, n, A) == seqs \in [1 .. n -> Seq(A)]
Beginnings(h, seqs, n, A) ==
  /\ h \in [0 .. n -> Seq(A)]
  /\ h[0] = <<>> /\ FlattenSeq(seqs) = h[n]
  /\ \A i \in 0 .. n - 1 : h[i + 1] = h[i] \o seqs[i + 1]

LEMMA FlattenPrefixes ==
  ASSUME NEW A, NEW n \in Nat, NEW seqs, PartsOf(seqs, n, A)
  PROVE  \E h : Beginnings(h, seqs, n, A)
<1>1. seqs \in Seq(Seq(A)) /\ Len(seqs) = n
  BY DEF PartsOf
<1>2. CASE n = 0
  <2> DEFINE h == [i \in 0 .. n |-> <<>>]
  <2>1. seqs = [i \in 1 .. n |-> <<>>]
    BY <1>2 DEF PartsOf
  <2>2. FlattenSeq(seqs) = <<>>
    BY <2>1, FlattenNothing
  <2>3. h \in [0 .. n -> Seq(A)] /\ h[0] = <<>> /\ h[n] = <<>>
    OBVIOUS
  <2>4. \A i \in 0 .. n - 1 : FALSE
    BY <1>2
  <2> HIDE DEF h
  <2>5. QED
    BY <2>2, <2>3, <2>4 DEF Beginnings
<1>3. CASE n # 0
  <2>1. PICK g \in [1 .. Len(seqs) -> Seq(A)] :
          /\ g[1] = seqs[1]
          /\ \A i \in 2 .. Len(seqs) : g[i] = g[i - 1] \o seqs[i]
          /\ FlattenSeq(seqs) = g[Len(seqs)]
    BY <1>1, <1>3, FlattenSeqSteps
  <2> DEFINE h == [i \in 0 .. n |-> IF i = 0 THEN <<>> ELSE g[i]]
  <2>2. g \in [1 .. n -> Seq(A)] /\ FlattenSeq(seqs) = g[n] /\ \A i \in 2 .. n : g[i] = g[i - 1] \o seqs[i]
    BY <1>1, <2>1
  <2>3. h[0] = <<>> /\ \A i \in 1 .. n : h[i] = g[i]
    OBVIOUS
  <2>4. h \in [0 .. n -> Seq(A)]
    <3>1. <<>> \in Seq(A) /\ \A i \in 1 .. n : g[i] \in Seq(A)
      BY <2>2
    <3>2. QED
      BY <3>1
  <2> HIDE DEF h
  <2>5. ASSUME NEW i \in 0 .. n - 1 PROVE h[i + 1] = h[i] \o seqs[i + 1]
    <3>1. CASE i = 0
      <4>1. <<>> \o seqs[1] = seqs[1]
        BY <1>3
      <4>2. h[1] = seqs[1]
        BY <1>3, <2>1, <2>3
      <4>3. h[1] = h[0] \o seqs[1]
        BY <2>3, <4>1, <4>2
      <4>4. i + 1 = 1
        BY <3>1
      <4>5. QED
        BY <3>1, <4>3, <4>4
    <3>2. CASE i # 0
      <4>1. i + 1 \in 2 .. n /\ (i + 1) - 1 = i /\ i \in 1 .. n /\ i + 1 \in 1 .. n
        BY <3>2
      <4>2. QED
        BY <2>2, <2>3, <4>1
    <3>3. QED
      BY <3>1, <3>2
  <2>6. n \in 1 .. n
    BY <1>3
  <2>7. QED
    BY <2>2, <2>3, <2>4, <2>5, <2>6 DEF Beginnings
<1>4. QED
  BY <1>2, <1>3

\* One part among empty ones.
LEMMA FlattenOnlyOne ==
  ASSUME NEW A, NEW n \in Nat, NEW seqs, PartsOf(seqs, n, A), NEW k \in 1 .. n,
         \A i \in 1 .. n : i # k => seqs[i] = <<>>
  PROVE  FlattenSeq(seqs) = seqs[k]
<1>1. PICK h : Beginnings(h, seqs, n, A)
  BY FlattenPrefixes
<1>2. /\ h[0] = <<>> /\ FlattenSeq(seqs) = h[n] /\ seqs[k] \in Seq(A)
      /\ \A i \in 0 .. n - 1 : h[i + 1] = h[i] \o seqs[i + 1]
  BY <1>1 DEF Beginnings, PartsOf
<1> DEFINE want(i) == IF i < k THEN <<>> ELSE seqs[k]
           S == {i \in Nat : i \in 0 .. n => h[i] = want(i)}
<1>3. 0 \in S
  BY <1>2
<1>4. ASSUME NEW i \in Nat, i \in S PROVE i + 1 \in S
  <2> SUFFICES ASSUME i + 1 \in 0 .. n PROVE h[i + 1] = want(i + 1)
    OBVIOUS
  <2>1. i \in 0 .. n - 1 /\ i \in 0 .. n /\ i + 1 \in 1 .. n
    OBVIOUS
  <2>2. h[i + 1] = h[i] \o seqs[i + 1] /\ h[i] = want(i)
    BY <1>2, <1>4, <2>1
  <2> DEFINE x == seqs[k]
  <2>3. x \in Seq(A) /\ <<>> \o x = x /\ x \o <<>> = x /\ <<>> \o <<>> = <<>>
    <3>1. x \in Seq(A)
      BY <1>2
    <3> HIDE DEF x
    <3>2. QED
      BY <3>1
  <2>4. CASE i + 1 < k
    <3>1. seqs[i + 1] = <<>> /\ want(i) = <<>> /\ want(i + 1) = <<>>
      BY <2>1, <2>4
    <3>2. QED
      BY <2>2, <2>3, <3>1
  <2>5. CASE i + 1 = k
    <3>1. want(i) = <<>> /\ want(i + 1) = x
      <4>1. i < k /\ ~(i + 1 < k)
        BY <2>1, <2>5
      <4> HIDE DEF x
      <4>2. QED
        BY <4>1 DEF x
    <3>3. seqs[i + 1] = x
      BY <2>5
    <3> HIDE DEF x, want
    <3>2. QED
      BY <2>2, <2>3, <3>1, <3>3
  <2>6. CASE i + 1 > k
    <3>1. seqs[i + 1] = <<>> /\ want(i) = x /\ want(i + 1) = x
      BY <2>1, <2>6
    <3> HIDE DEF x, want
    <3>2. QED
      BY <2>2, <2>3, <3>1
  <2>7. QED
    BY <2>1, <2>4, <2>5, <2>6
<1> HIDE DEF S
<1>5. n \in S
  BY <1>3, <1>4, NatInduct
<1>6. n \in 0 .. n /\ ~(n < k)
  OBVIOUS
<1>7. QED
  BY <1>2, <1>5, <1>6 DEF S

\* The first element of all is that of the first part.
LEMMA FlattenFirst ==
  ASSUME NEW A, NEW n \in Nat \ {0}, NEW seqs, PartsOf(seqs, n, A), Len(seqs[1]) # 0
  PROVE  Len(FlattenSeq(seqs)) # 0 /\ FlattenSeq(seqs)[1] = seqs[1][1]
<1>1. PICK h : Beginnings(h, seqs, n, A)
  BY FlattenPrefixes
<1>2. /\ h \in [0 .. n -> Seq(A)] /\ h[0] = <<>> /\ FlattenSeq(seqs) = h[n] /\ seqs \in [1 .. n -> Seq(A)]
      /\ \A i \in 0 .. n - 1 : h[i + 1] = h[i] \o seqs[i + 1]
  BY <1>1 DEF Beginnings, PartsOf
<1> DEFINE Begun(u) == Len(u) # 0 /\ u[1] = seqs[1][1]
           S == {i \in Nat : i \in 1 .. n => Begun(h[i])}
<1>3. 0 \in S
  OBVIOUS
<1>4. ASSUME NEW i \in Nat, i \in S PROVE i + 1 \in S
  <2> DEFINE u == h[i]
             v == seqs[i + 1]
  <2> SUFFICES ASSUME i + 1 \in 1 .. n PROVE Begun(h[i + 1])
    <3> HIDE DEF Begun
    <3> QED
      OBVIOUS
  <2>1. h[i + 1] = u \o v /\ u \in Seq(A) /\ v \in Seq(A)
    <3>1. i \in 0 .. n - 1 /\ i \in 0 .. n /\ i + 1 \in 1 .. n
      OBVIOUS
    <3>2. QED
      BY <1>2, <3>1
  <2>2. CASE i = 0
    <3>1. u = <<>> /\ v = seqs[1]
      BY <1>2, <2>2
    <3>2. h[i + 1] = v
      <4> HIDE DEF u, v
      <4> QED
        BY <2>1, <3>1
    <3>3. QED
      BY <3>1, <3>2
  <2>3. CASE i # 0
    <3>1. Begun(u)
      BY <1>4, <2>3
    <3> HIDE DEF u, v
    <3>2. Len(u \o v) # 0 /\ (u \o v)[1] = u[1]
      BY <2>1, <3>1
    <3>3. QED
      BY <2>1, <3>1, <3>2
  <2>4. QED
    BY <2>2, <2>3
<1> HIDE DEF S
<1>5. n \in S
  BY <1>3, <1>4, NatInduct
<1>6. QED
  BY <1>2, <1>5 DEF S

\* What is chosen of a sequence keeps its order: each element is at its rank
\* among the chosen.
Position(K, i) == Cardinality({j \in K : j <= i})
Chosen(s, K) == FlattenSeq([i \in DOMAIN s |-> IF i \in K THEN <<s[i]>> ELSE <<>>])

LEMMA ChosenInOrder ==
  ASSUME NEW A, NEW s \in Seq(A), NEW K \in SUBSET DOMAIN s
  PROVE  /\ Chosen(s, K) \in Seq(A) /\ Len(Chosen(s, K)) = Cardinality(K)
         /\ \A i \in K : Position(K, i) \in 1 .. Cardinality(K) /\ Chosen(s, K)[Position(K, i)] = s[i]
<1> DEFINE n == Len(s)
           seqs == [i \in 1 .. n |-> IF i \in K THEN <<s[i]>> ELSE <<>>]
           upto(k) == {j \in K : j <= k}
<1>1. n \in Nat /\ DOMAIN s = 1 .. n /\ \A i \in 1 .. n : s[i] \in A
  OBVIOUS
<1>2. Chosen(s, K) = FlattenSeq(seqs)
  BY <1>1 DEF Chosen
<1>3. seqs \in [1 .. n -> Seq(A)]
  <2>1. ASSUME NEW i \in 1 .. n PROVE <<>> \in Seq(A) /\ <<s[i]>> \in Seq(A)
    <3> DEFINE x == s[i]
    <3>1. x \in A
      BY <1>1
    <3> HIDE DEF x
    <3>2. <<>> \in Seq(A) /\ <<x>> \in Seq(A)
      BY <3>1
    <3>3. QED
      BY <3>2 DEF x
  <2>2. QED
    BY <2>1
<1>4. \A i \in 1 .. n : /\ i \in K => seqs[i] = <<s[i]>>
                        /\ i \notin K => seqs[i] = <<>>
  OBVIOUS
<1> HIDE DEF n, seqs
<1>5. PICK h : Beginnings(h, seqs, n, A)
  BY <1>1, <1>3, FlattenPrefixes DEF PartsOf
<1>6. \A k \in Nat : IsFiniteSet(upto(k)) /\ Cardinality(upto(k)) \in Nat
  <2> TAKE k \in Nat
  <2>1. IsFiniteSet(1 .. n)
    BY <1>1, FS_Interval
  <2>2. upto(k) \in SUBSET (1 .. n)
    BY <1>1
  <2>3. QED
    BY <2>1, <2>2, FS_Subset, FS_CardinalityType
<1> DEFINE Right(k) == /\ Len(h[k]) = Cardinality(upto(k))
                       /\ \A i \in upto(k) : /\ Cardinality(upto(i)) \in 1 .. Cardinality(upto(k))
                                             /\ h[k][Cardinality(upto(i))] = s[i]
           S == {k \in Nat : k \in 0 .. n => Right(k)}
<1>7. 0 \in S
  <2>1. upto(0) = {}
    BY <1>1
  <2>2. Right(0)
    BY <1>5, <2>1, FS_EmptySet DEF Beginnings
  <2>3. QED
    BY <2>2
<1>8. ASSUME NEW k \in Nat, k \in S PROVE k + 1 \in S
  <2> SUFFICES ASSUME k + 1 \in 0 .. n PROVE Right(k + 1)
    <3> HIDE DEF Right
    <3> QED
      OBVIOUS
  <2>1. k \in 0 .. n - 1 /\ k \in 0 .. n /\ k + 1 \in 1 .. n
    BY <1>1
  <2>2. h[k + 1] = h[k] \o seqs[k + 1] /\ Right(k) /\ h[k] \in Seq(A)
    BY <1>5, <1>8, <2>1 DEF Beginnings
  <2> DEFINE c == Cardinality(upto(k))
             u == h[k]
  <2>3. c \in Nat /\ u \in Seq(A) /\ Len(u) = c
    BY <1>6, <2>2
  <2>4. CASE k + 1 \notin K
    <3>1. upto(k + 1) = upto(k)
      BY <1>1, <2>4
    <3>2. seqs[k + 1] = <<>>
      BY <1>4, <2>1, <2>4
    <3>3. u \o <<>> = u
      BY <2>3
    <3>4. h[k + 1] = h[k]
      BY <2>2, <3>2, <3>3
    <3> HIDE DEF upto
    <3>5. QED
      BY <2>2, <3>1, <3>4
  <2>5. CASE k + 1 \in K
    <3> DEFINE x == s[k + 1]
    <3>1. upto(k + 1) = upto(k) \cup {k + 1} /\ k + 1 \notin upto(k)
      BY <1>1, <2>5
    <3>2. \A i \in upto(k) : i \in Nat
      BY <1>1
    <3> HIDE DEF upto
    <3>3. Cardinality(upto(k + 1)) = c + 1
      BY <1>6, <3>1, FS_AddElement
    <3>4. seqs[k + 1] = <<x>> /\ x \in A
      BY <1>1, <1>4, <2>1, <2>5
    <3> HIDE DEF c, u, x
    <3>5. /\ Len(u \o <<x>>) = c + 1 /\ (u \o <<x>>)[c + 1] = x
          /\ \A j \in 1 .. c : (u \o <<x>>)[j] = u[j]
      BY <2>3, <3>4
    <3>6. h[k + 1] = u \o <<x>>
      BY <2>2, <3>4 DEF u
    <3>7. ASSUME NEW i \in upto(k + 1)
          PROVE  /\ Cardinality(upto(i)) \in 1 .. Cardinality(upto(k + 1))
                 /\ h[k + 1][Cardinality(upto(i))] = s[i]
      <4>1. CASE i \in upto(k)
        <5>1. Cardinality(upto(i)) \in 1 .. c /\ u[Cardinality(upto(i))] = s[i]
          BY <2>2, <4>1 DEF c, u
        <5>2. QED
          BY <2>3, <3>3, <3>5, <3>6, <5>1
      <4>2. CASE i = k + 1
        BY <2>3, <3>3, <3>5, <3>6, <4>2 DEF x
      <4>3. QED
        BY <3>1, <4>1, <4>2
    <3>8. QED
      BY <3>3, <3>5, <3>6, <3>7
  <2>6. QED
    BY <2>4, <2>5
<1> HIDE DEF S
<1>9. n \in S
  BY <1>1, <1>7, <1>8, NatInduct
<1>10. upto(n) = K
  BY <1>1
<1>11. n \in Nat /\ n \in 0 .. n /\ h[n] \in Seq(A)
  BY <1>1, <1>5 DEF Beginnings
<1>12. Right(n)
  BY <1>9, <1>11 DEF S
<1>13. QED
  BY <1>2, <1>5, <1>10, <1>11, <1>12 DEF Position, Beginnings

\* Every place of what is chosen is some chosen element's rank.
LEMMA ChosenRanks ==
  ASSUME NEW A, NEW s \in Seq(A), NEW K \in SUBSET DOMAIN s
  PROVE  /\ IsFiniteSet(K) /\ Cardinality(K) \in Nat
         /\ \A i, j \in K : Position(K, i) = Position(K, j) => i = j
         /\ \A r \in 1 .. Cardinality(K) : \E i \in K : Position(K, i) = r
<1> DEFINE n == Cardinality(K)
           upto(k) == {j \in K : j <= k}
           f == [i \in K |-> Cardinality(upto(i))]
<1>1. K \in SUBSET Nat /\ IsFiniteSet(K) /\ n \in Nat
  <2>1. DOMAIN s = 1 .. Len(s) /\ Len(s) \in Nat
    OBVIOUS
  <2>2. IsFiniteSet(DOMAIN s)
    BY <2>1, FS_Interval
  <2>3. QED
    BY <2>1, <2>2, FS_Subset, FS_CardinalityType
<1>2. ASSUME NEW i \in K PROVE IsFiniteSet(upto(i)) /\ Cardinality(upto(i)) \in 1 .. n
  <2>1. upto(i) \in SUBSET K /\ i \in upto(i)
    BY <1>1
  <2> HIDE DEF upto
  <2>2. IsFiniteSet(upto(i)) /\ Cardinality(upto(i)) <= n /\ Cardinality(upto(i)) \in Nat
    BY <1>1, <2>1, FS_Subset, FS_CardinalityType
  <2>3. Cardinality(upto(i)) # 0
    BY <2>1, <2>2, FS_EmptySet
  <2>4. QED
    BY <1>1, <2>2, <2>3
<1>3. ASSUME NEW i \in K, NEW j \in K, Cardinality(upto(i)) = Cardinality(upto(j)) PROVE i = j
  <2>1. upto(i) \subseteq upto(j) \/ upto(j) \subseteq upto(i)
    BY <1>1
  <2>2. i \in upto(i) /\ j \in upto(j)
    BY <1>1
  <2>3. upto(i) = upto(j)
    <3> HIDE DEF upto
    <3>1. QED
      BY <1>2, <1>3, <2>1, FS_Subset
  <2>4. i <= j /\ j <= i
    BY <2>2, <2>3
  <2>5. QED
    BY <1>1, <2>4
<1>4. IsFiniteSet(1 .. n) /\ Cardinality(1 .. n) = n
  BY <1>1, FS_Interval
<1>5. f \in Injection(K, 1 .. n)
  BY <1>2, <1>3 DEF Injection, IsInjective
<1>6. f \in Surjection(K, 1 .. n)
  <2> HIDE DEF f, n
  <2>1. QED
    BY <1>4, <1>5, FS_Injection DEF n
<1>7. \A r \in 1 .. n : \E i \in K : Cardinality(upto(i)) = r
  BY <1>6 DEF Surjection
<1>8. QED
  BY <1>1, <1>3, <1>7 DEF Position
=============================================================================
