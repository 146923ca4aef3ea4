--------------------------- MODULE Selections_proofs ---------------------------
(* What the lists of Selections contain, for sequences and sets of any size.  *)
(* Induction over numbers is stated for a set of them.                        *)
EXTENDS Selections, SequencesExt, FiniteSetTheorems, WellFoundedInduction, TLAPS

\* Induction: a set of numbers with 0 that is closed under successors holds all of them.
LEMMA SetInduction ==
    ASSUME NEW S \in SUBSET Nat, 0 \in S, \A n \in S : n + 1 \in S
    PROVE  S = Nat
<1> DEFINE T == Nat \ S
           R == OpToRel(<, Nat)
<1>1. SUFFICES ASSUME T # {} PROVE FALSE
  OBVIOUS
<1>2. IsWellFoundedOn(R, Nat)
  BY NatLessThanWellFounded
<1>3. PICK x \in T : \A y \in T : <<y, x>> \notin R
  <2> HIDE DEF R
  <2> QED BY <1>1, <1>2, WFMin
<1>4. \A y \in T : ~(y < x)
  BY <1>3 DEF OpToRel
<1>5. x # 0 /\ x - 1 \in Nat /\ x - 1 \notin T
  BY <1>4
<1>6. QED
  BY <1>5

\* The same up to a bound.
LEMMA IntervalInduction ==
    ASSUME NEW n \in Nat, NEW S, 0 \in S, \A i \in 0 .. n - 1 : i \in S => i + 1 \in S
    PROVE  \A i \in 0 .. n : i \in S
<1> DEFINE T == {i \in Nat : i <= n => i \in S}
<1>1. 0 \in T /\ \A i \in T : i + 1 \in T
  OBVIOUS
<1>2. T = Nat
  <2> T \in SUBSET Nat
    OBVIOUS
  <2> HIDE DEF T
  <2> QED BY <1>1, SetInduction
<1>3. QED
  BY <1>2

\* The functions on 0 .. n with a given first value and given steps: there is one.
Iterations(V, n, base, step) ==
    {f \in [0 .. n -> V] : f[0] = base /\ \A i \in 1 .. n : f[i] = step[i][f[i - 1]]}

LEMMA Recursion ==
    ASSUME NEW V, NEW n \in Nat, NEW base \in V, NEW step \in [1 .. n -> [V -> V]]
    PROVE  Iterations(V, n, base, step) # {}
<1> DEFINE Good(m, f) == f[0] = base /\ \A i \in 1 .. m : f[i] = step[i][f[i - 1]]
           S == {m \in 0 .. n : \E f \in [0 .. m -> V] : Good(m, f)}
<1>1. 0 \in S
  <2> DEFINE f == [i \in 0 .. 0 |-> base]
  <2>1. f \in [0 .. 0 -> V] /\ Good(0, f)
    OBVIOUS
  <2>2. \E h \in [0 .. 0 -> V] : Good(0, h)
    <3> HIDE DEF f, Good
    <3> QED BY <2>1
  <2> QED BY <2>2
<1>2. ASSUME NEW m \in 0 .. n - 1, m \in S
      PROVE  m + 1 \in S
  <2>1. PICK f \in [0 .. m -> V] : Good(m, f)
    BY <1>2
  <2> DEFINE g == [i \in 0 .. m + 1 |-> IF i = m + 1 THEN step[m + 1][f[m]] ELSE f[i]]
  <2>2. g \in [0 .. m + 1 -> V]
    OBVIOUS
  <2>3. g[0] = base /\ g[m + 1] = step[m + 1][g[m]]
    BY <2>1
  <2>4. ASSUME NEW i \in 1 .. m + 1
        PROVE  g[i] = step[i][g[i - 1]]
    <3>1. CASE i = m + 1
      BY <3>1, <2>3
    <3>2. CASE i # m + 1
      <4>1. i \in 1 .. m /\ i - 1 \in 0 .. m
        BY <3>2
      <4> QED BY <4>1, <2>1
    <3> QED BY <3>1, <3>2
  <2>5. Good(m + 1, g)
    BY <2>3, <2>4
  <2>6. \E h \in [0 .. m + 1 -> V] : Good(m + 1, h)
    <3> HIDE DEF g, Good
    <3> QED BY <2>2, <2>5
  <2>7. m + 1 \in 0 .. n
    OBVIOUS
  <2> QED BY <2>6, <2>7
<1>3. \A i \in 0 .. n : i \in S
  <2> HIDE DEF S
  <2> QED BY <1>1, <1>2, IntervalInduction
<1>4. PICK f \in [0 .. n -> V] : Good(n, f)
  BY <1>3
<1> QED BY <1>4 DEF Iterations

--------------------------------------------------------------------------------
(* Only *)

\* Only is built one element after the other, and holds none that is not good.
Filterings(A, s, good) ==
    {f \in [0 .. Len(s) -> Seq(A \cap good)] :
        /\ Only(s, good) = f[Len(s)]
        /\ f[0] = <<>>
        /\ \A i \in 1 .. Len(s) :
               f[i] = IF s[i] \in good THEN Append(f[i - 1], s[i]) ELSE f[i - 1]}

LEMMA OnlyRecursion ==
    ASSUME NEW A, NEW s \in Seq(A), NEW good
    PROVE  Filterings(A, s, good) # {}
<1> DEFINE V == Seq(A \cap good)
           n == Len(s)
           step == [i \in 1 .. n |->
                       [v \in V |-> IF s[i] \in good THEN Append(v, s[i]) ELSE v]]
           Body(g) == [i \in 0 .. n |->
                          IF i = 0 THEN <<>>
                          ELSE IF s[i] \in good THEN Append(g[i - 1], s[i]) ELSE g[i - 1]]
<1>1. step \in [1 .. n -> [V -> V]]
  <2> SUFFICES ASSUME NEW i \in 1 .. n, NEW v \in V
               PROVE  (IF s[i] \in good THEN Append(v, s[i]) ELSE v) \in V
    OBVIOUS
  <2> s[i] \in A
    OBVIOUS
  <2> QED OBVIOUS
<1>2. PICK f \in [0 .. n -> V] : f[0] = <<>> /\ \A i \in 1 .. n : f[i] = step[i][f[i - 1]]
  <2>1. n \in Nat
    OBVIOUS
  <2>2. <<>> \in V
    OBVIOUS
  <2>3. Iterations(V, n, <<>>, step) # {}
    <3> HIDE DEF step, V, n
    <3> QED BY <1>1, <2>1, <2>2, Recursion
  <2> QED BY <2>3 DEF Iterations
<1>3. \A i \in 1 .. n : f[i] = IF s[i] \in good THEN Append(f[i - 1], s[i]) ELSE f[i - 1]
  <2> TAKE i \in 1 .. n
  <2> f[i - 1] \in V
    OBVIOUS
  <2> QED BY <1>2
<1>4. f = Body(f)
  <2>1. \A i \in 1 .. n : f[i] = Body(f)[i]
    BY <1>3
  <2>2. f[0] = Body(f)[0]
    BY <1>2
  <2>3. \A i \in 0 .. n : f[i] = Body(f)[i]
    <3> HIDE DEF Body
    <3> TAKE i \in 0 .. n
    <3> QED BY <2>1, <2>2
  <2> QED BY <2>3
<1> DEFINE kept == CHOOSE g : g = Body(g)
<1>5. kept = Body(kept)
  <2> HIDE DEF Body
  <2> QED BY <1>4
<1>6. Only(s, good) = kept[n]
  BY DEF Only
<1>7. kept \in [0 .. n -> V] /\ kept[0] = <<>>
      /\ \A i \in 1 .. n : kept[i] = IF s[i] \in good THEN Append(kept[i - 1], s[i]) ELSE kept[i - 1]
  <2> DEFINE S == {i \in 0 .. n : kept[i] = f[i]}
  <2>1. kept[0] = <<>> /\ DOMAIN kept = 0 .. n
        /\ \A i \in 1 .. n : kept[i] = IF s[i] \in good THEN Append(kept[i - 1], s[i]) ELSE kept[i - 1]
    <3> HIDE DEF kept
    <3>1. \A g : DOMAIN Body(g) = 0 .. n /\ Body(g)[0] = <<>>
      OBVIOUS
    <3>2. \A g : \A i \in 1 .. n :
              Body(g)[i] = IF s[i] \in good THEN Append(g[i - 1], s[i]) ELSE g[i - 1]
      OBVIOUS
    <3> HIDE DEF Body
    <3>3. DOMAIN kept = 0 .. n /\ kept[0] = <<>>
      BY <3>1, <1>5
    <3>4. \A i \in 1 .. n : kept[i] = Body(kept)[i]
      BY <1>5
    <3> QED BY <3>2, <3>3, <3>4
  <2> HIDE DEF kept
  <2>2. 0 \in S /\ \A i \in 0 .. n - 1 : i \in S => i + 1 \in S
    BY <2>1, <1>2, <1>3
  <2>3. \A i \in 0 .. n : i \in S
    <3> HIDE DEF S, n
    <3> n \in Nat
      BY DEF n
    <3> QED BY <2>2, IntervalInduction
  <2>4. kept = f
    BY <2>1, <2>3, <1>5
  <2> QED BY <2>1, <2>4
<1> HIDE DEF kept
<1> QED BY <1>6, <1>7 DEF Filterings

LEMMA Interval ==
    ASSUME NEW n \in Nat
    PROVE  IsFiniteSet(1 .. n) /\ Cardinality(1 .. n) = n
<1>1. IsFiniteSet(1 .. n) /\ Cardinality(1 .. n) = IF 1 > n THEN 0 ELSE n - 1 + 1
  BY FS_Interval
<1> QED BY <1>1

\* h names the places of s from which the elements of kept come: those up to i that are good.
Selects(h, s, good, i, kept) ==
    /\ \A k \in 1 .. Len(kept) : h[k] \in 1 .. i /\ kept[k] = s[h[k]]
    /\ \A k, l \in 1 .. Len(kept) : k < l => h[k] < h[l]
    /\ \A j \in 1 .. i : s[j] \in good => \E k \in 1 .. Len(kept) : h[k] = j

\* Only keeps what is good, all of it, in its order.
LEMMA OnlySelects ==
    ASSUME NEW A, NEW s \in Seq(A), NEW good
    PROVE  /\ Only(s, good) \in Seq(A \cap good)
           /\ \E h \in [1 .. Len(Only(s, good)) -> 1 .. Len(s)] :
                  Selects(h, s, good, Len(s), Only(s, good))
<1> DEFINE n == Len(s)
<1>1. PICK f \in [0 .. n -> Seq(A \cap good)] :
          /\ Only(s, good) = f[n]
          /\ f[0] = <<>>
          /\ \A i \in 1 .. n :
                 f[i] = IF s[i] \in good THEN Append(f[i - 1], s[i]) ELSE f[i - 1]
  <2>1. Filterings(A, s, good) # {}
    BY OnlyRecursion
  <2> QED BY <2>1 DEF Filterings
<1> DEFINE S == {i \in 0 .. n : \E h \in [1 .. Len(f[i]) -> 1 .. i] : Selects(h, s, good, i, f[i])}
<1>2. 0 \in S
  <2> DEFINE h == [k \in 1 .. 0 |-> 0]
  <2>1. h \in [1 .. Len(f[0]) -> 1 .. 0] /\ Selects(h, s, good, 0, f[0])
    BY <1>1 DEF Selects
  <2> QED BY <2>1
<1>3. ASSUME NEW i \in 0 .. n - 1, i \in S
      PROVE  i + 1 \in S
  <2>1. PICK h \in [1 .. Len(f[i]) -> 1 .. i] : Selects(h, s, good, i, f[i])
    BY <1>3
  <2>2. i + 1 \in 1 .. n /\ f[i] \in Seq(A \cap good) /\ s[i + 1] \in A
    <3>1. n \in Nat /\ i \in Nat
      OBVIOUS
    <3>2. i + 1 \in 1 .. n
      BY <3>1
    <3>3. \A j \in 1 .. n : s[j] \in A
      OBVIOUS
    <3> HIDE DEF n
    <3> QED BY <3>1, <3>2, <3>3
  <2>3. f[i + 1] = IF s[i + 1] \in good THEN Append(f[i], s[i + 1]) ELSE f[i]
    BY <1>1, <2>2
  <2>4. CASE s[i + 1] \notin good
    <3>1. h \in [1 .. Len(f[i + 1]) -> 1 .. i + 1] /\ Selects(h, s, good, i + 1, f[i + 1])
      BY <2>1, <2>2, <2>3, <2>4 DEF Selects
    <3> QED BY <3>1, <2>2
  <2>5. CASE s[i + 1] \in good
    <3> DEFINE m == Len(f[i])
               g == [k \in 1 .. m + 1 |-> IF k = m + 1 THEN i + 1 ELSE h[k]]
    <3>1. /\ Len(f[i + 1]) = m + 1 /\ f[i + 1][m + 1] = s[i + 1]
          /\ \A k \in 1 .. m : f[i + 1][k] = f[i][k]
          /\ m \in Nat
      BY <2>2, <2>3, <2>5
    <3>2. g \in [1 .. m + 1 -> 1 .. i + 1]
      BY <2>1
    <3>3. \A k \in 1 .. m + 1 : g[k] \in 1 .. i + 1 /\ f[i + 1][k] = s[g[k]]
      BY <2>1, <3>1, <3>2 DEF Selects
    <3>4. \A k, l \in 1 .. m + 1 : k < l => g[k] < g[l]
      <4> SUFFICES ASSUME NEW k \in 1 .. m + 1, NEW l \in 1 .. m + 1, k < l
                   PROVE  g[k] < g[l]
        OBVIOUS
      <4>1. CASE l = m + 1
        BY <4>1, <2>1, <3>1
      <4>2. CASE l # m + 1
        BY <4>2, <2>1, <3>1 DEF Selects
      <4> QED BY <4>1, <4>2
    <3>5. \A j \in 1 .. i + 1 : s[j] \in good => \E k \in 1 .. m + 1 : g[k] = j
      <4> SUFFICES ASSUME NEW j \in 1 .. i + 1, s[j] \in good
                   PROVE  \E k \in 1 .. m + 1 : g[k] = j
        OBVIOUS
      <4>1. CASE j = i + 1
        <5>1. g[m + 1] = j /\ m + 1 \in 1 .. m + 1
          BY <3>1, <4>1
        <5> QED BY <5>1
      <4>2. CASE j # i + 1
        <5>1. PICK k \in 1 .. m : h[k] = j
          BY <4>2, <2>1 DEF Selects
        <5>2. g[k] = j /\ k \in 1 .. m + 1
          BY <5>1, <3>1
        <5> QED BY <5>2
      <4> QED BY <4>1, <4>2
    <3> HIDE DEF g
    <3>6. g \in [1 .. Len(f[i + 1]) -> 1 .. i + 1] /\ Selects(g, s, good, i + 1, f[i + 1])
      BY <3>1, <3>2, <3>3, <3>4, <3>5 DEF Selects
    <3> QED BY <3>6, <2>2
  <2> QED BY <2>4, <2>5
<1>4. n \in S
  <2>1. n \in Nat
    OBVIOUS
  <2> HIDE DEF S, n
  <2>2. \A i \in 0 .. n : i \in S
    BY <1>2, <1>3, <2>1, IntervalInduction
  <2> QED BY <2>1, <2>2
<1>5. n \in 0 .. n /\ Only(s, good) \in Seq(A \cap good)
  BY <1>1
<1> QED BY <1>1, <1>4, <1>5

\* What Only keeps, and that it keeps no more of it than there was.
LEMMA OnlyElements ==
    ASSUME NEW A, NEW s \in Seq(A), NEW good
    PROVE  /\ Only(s, good) \in Seq(A)
           /\ ToSet(Only(s, good)) = ToSet(s) \cap good
<1>1. PICK h \in [1 .. Len(Only(s, good)) -> 1 .. Len(s)] :
          Selects(h, s, good, Len(s), Only(s, good))
  BY OnlySelects
<1>2. Only(s, good) \in Seq(A \cap good)
  BY OnlySelects
<1> DEFINE kept == Only(s, good)
<1>3. kept \in Seq(A) /\ DOMAIN kept = 1 .. Len(kept) /\ DOMAIN s = 1 .. Len(s)
  <2> HIDE DEF kept
  <2> QED BY <1>2 DEF kept
<1>4. \A x \in ToSet(kept) : x \in ToSet(s) \cap good
  BY <1>1, <1>2, <1>3 DEF Selects, ToSet
<1>5. \A x \in ToSet(s) \cap good : x \in ToSet(kept)
  BY <1>1, <1>3 DEF Selects, ToSet
<1> QED BY <1>3, <1>4, <1>5

LEMMA OnlyLength ==
    ASSUME NEW A, NEW s \in Seq(A), NEW good
    PROVE  /\ Len(Only(s, good)) \in Nat /\ Len(Only(s, good)) <= Len(s)
           /\ (\E x \in ToSet(s) : x \notin good) => Len(Only(s, good)) < Len(s)
<1> DEFINE m == Len(Only(s, good))
           n == Len(s)
<1>1. PICK h \in [1 .. m -> 1 .. n] : Selects(h, s, good, n, Only(s, good))
  BY OnlySelects
<1>2. m \in Nat /\ n \in Nat /\ DOMAIN s = 1 .. n
  BY OnlySelects
<1>3. \A k, l \in 1 .. m : k # l => h[k] # h[l]
  <2> SUFFICES ASSUME NEW k \in 1 .. m, NEW l \in 1 .. m, k # l PROVE h[k] # h[l]
    OBVIOUS
  <2> h[k] \in 1 .. n /\ h[l] \in 1 .. n
    OBVIOUS
  <2> QED BY <1>1, <1>2 DEF Selects
<1>4. ASSUME NEW T \in SUBSET (1 .. n), \A k \in 1 .. m : h[k] \in T
      PROVE  m <= Cardinality(T)
  <2>1. h \in Injection(1 .. m, T)
    BY <1>3, <1>4 DEF Injection, IsInjective
  <2>2. IsFiniteSet(1 .. m) /\ Cardinality(1 .. m) = m
    BY <1>2, Interval
  <2>3. IsFiniteSet(T)
    BY <1>2, Interval, FS_Subset
  <2> QED BY <2>1, <2>2, <2>3, FS_Injection
<1>5. IsFiniteSet(1 .. n) /\ Cardinality(1 .. n) = n
  BY <1>2, Interval
<1>6. m <= n
  BY <1>4, <1>5
<1>7. ASSUME NEW x \in ToSet(s), x \notin good
      PROVE  m < n
  <2>1. PICK j \in 1 .. n : s[j] = x
    BY <1>2 DEF ToSet
  <2>2. Only(s, good) \in Seq(A \cap good)
    BY OnlySelects
  <2>3. \A k \in 1 .. m : h[k] \in (1 .. n) \ {j}
    <3> SUFFICES ASSUME NEW k \in 1 .. m PROVE h[k] # j
      OBVIOUS
    <3>1. Only(s, good)[k] \in good /\ Only(s, good)[k] = s[h[k]]
      <4> HIDE DEF m
      <4>1. Only(s, good)[k] \in A \cap good
        BY <2>2 DEF m
      <4> QED BY <4>1, <1>1 DEF Selects, m
    <3> QED BY <3>1, <2>1, <1>7
  <2>4. Cardinality((1 .. n) \ {j}) = n - 1
    BY <1>5, FS_RemoveElement
  <2> QED BY <2>3, <2>4, <1>2, <1>4
<1> QED BY <1>2, <1>6, <1>7

\* How much Only keeps.
LEMMA OnlyCount ==
    ASSUME NEW A, NEW s \in Seq(A), NEW good
    PROVE  Len(Only(s, good)) = Cardinality({i \in 1 .. Len(s) : s[i] \in good})
<1> DEFINE m == Len(Only(s, good))
           n == Len(s)
           T == {i \in 1 .. n : s[i] \in good}
<1>1. PICK h \in [1 .. m -> 1 .. n] : Selects(h, s, good, n, Only(s, good))
  BY OnlySelects
<1>2. m \in Nat /\ n \in Nat /\ Only(s, good) \in Seq(A \cap good)
  BY OnlySelects
<1>3. \A k \in 1 .. m : h[k] \in T
  <2> SUFFICES ASSUME NEW k \in 1 .. m PROVE s[h[k]] \in good
    OBVIOUS
  <2>1. Only(s, good)[k] \in A \cap good
    <3> HIDE DEF m
    <3> QED BY <1>2 DEF m
  <2> QED BY <2>1, <1>1 DEF Selects
<1>4. \A k, l \in 1 .. m : k # l => h[k] # h[l]
  <2> SUFFICES ASSUME NEW k \in 1 .. m, NEW l \in 1 .. m, k # l PROVE h[k] # h[l]
    OBVIOUS
  <2> h[k] \in 1 .. n /\ h[l] \in 1 .. n
    OBVIOUS
  <2> QED BY <1>1, <1>2 DEF Selects
<1>5. \A j \in T : \E k \in 1 .. m : h[k] = j
  BY <1>1 DEF Selects
<1>6. IsFiniteSet(1 .. m) /\ Cardinality(1 .. m) = m /\ IsFiniteSet(T)
  <2>1. T \in SUBSET (1 .. n)
    OBVIOUS
  <2> HIDE DEF T
  <2> QED BY <1>2, <2>1, Interval, FS_Subset
<1> HIDE DEF T, m
<1>7. h \in [1 .. m -> T]
  BY <1>3
<1>8. h \in Injection(1 .. m, T) /\ h \in Surjection(1 .. m, T)
  BY <1>4, <1>5, <1>7 DEF Injection, IsInjective, Surjection
<1>9. Cardinality(1 .. m) = Cardinality(T)
  BY <1>6, <1>8, FS_Injection
<1> QED BY <1>6, <1>9 DEF T, m

--------------------------------------------------------------------------------
(* Sorted *)

\* order puts the elements of S in a line.
Linear(S, order) ==
    /\ \A x \in S : <<x, x>> \notin order
    /\ \A x, y \in S : x # y => <<x, y>> \in order \/ <<y, x>> \in order
    /\ \A x, y, z \in S : <<x, y>> \in order /\ <<y, z>> \in order => <<x, z>> \in order

Below(x, S, order) == {y \in S : <<y, x>> \in order}
Rank(x, S, order) == Cardinality(Below(x, S, order))

\* The elements have ranks of their own, all below their number.
LEMMA Ranks ==
    ASSUME NEW S, IsFiniteSet(S), NEW order, Linear(S, order)
    PROVE  /\ \A x \in S : Rank(x, S, order) \in 0 .. Cardinality(S) - 1
           /\ \A x, y \in S : Rank(x, S, order) = Rank(y, S, order) => x = y
<1>1. Cardinality(S) \in Nat
  BY FS_CardinalityType
<1>2. ASSUME NEW x \in S
      PROVE  /\ IsFiniteSet(Below(x, S, order)) /\ Rank(x, S, order) \in Nat
             /\ Cardinality(Below(x, S, order) \cup {x}) = Rank(x, S, order) + 1
             /\ Rank(x, S, order) + 1 <= Cardinality(S)
  <2>1. Below(x, S, order) \in SUBSET S /\ x \notin Below(x, S, order)
    BY DEF Linear, Below
  <2>2. IsFiniteSet(Below(x, S, order)) /\ Rank(x, S, order) \in Nat
    BY <2>1, FS_Subset, FS_CardinalityType DEF Rank
  <2>3. Cardinality(Below(x, S, order) \cup {x}) = Rank(x, S, order) + 1
    BY <2>1, <2>2, FS_AddElement DEF Rank
  <2>4. Cardinality(Below(x, S, order) \cup {x}) <= Cardinality(S)
    <3> Below(x, S, order) \cup {x} \in SUBSET S
      BY <2>1
    <3> QED BY FS_Subset
  <2> QED BY <2>2, <2>3, <2>4
<1>3. ASSUME NEW x \in S, NEW y \in S, <<x, y>> \in order
      PROVE  Rank(x, S, order) < Rank(y, S, order)
  <2>1. Below(x, S, order) \cup {x} \in SUBSET Below(y, S, order)
    BY <1>3 DEF Linear, Below
  <2>2. Cardinality(Below(x, S, order) \cup {x}) <= Rank(y, S, order)
    <3> IsFiniteSet(Below(y, S, order))
      BY <1>2
    <3> QED BY <2>1, FS_Subset DEF Rank
  <2>3. Rank(x, S, order) \in Nat /\ Rank(y, S, order) \in Nat
        /\ Cardinality(Below(x, S, order) \cup {x}) = Rank(x, S, order) + 1
    BY <1>2
  <2> QED BY <2>2, <2>3
<1>4. \A x, y \in S : Rank(x, S, order) = Rank(y, S, order) => x = y
  <2> SUFFICES ASSUME NEW x \in S, NEW y \in S, x # y
               PROVE  Rank(x, S, order) # Rank(y, S, order)
    OBVIOUS
  <2>1. <<x, y>> \in order \/ <<y, x>> \in order
    BY DEF Linear
  <2>2. Rank(x, S, order) \in Nat /\ Rank(y, S, order) \in Nat
    BY <1>2
  <2>3. CASE <<x, y>> \in order
    <3> Rank(x, S, order) < Rank(y, S, order)
      BY <2>3, <1>3
    <3> QED BY <2>2
  <2>4. CASE <<y, x>> \in order
    <3> Rank(y, S, order) < Rank(x, S, order)
      BY <2>4, <1>3
    <3> QED BY <2>2
  <2> QED BY <2>1, <2>3, <2>4
<1>5. \A x \in S : Rank(x, S, order) \in 0 .. Cardinality(S) - 1
  <2> SUFFICES ASSUME NEW x \in S PROVE Rank(x, S, order) \in 0 .. Cardinality(S) - 1
    OBVIOUS
  <2> Rank(x, S, order) \in Nat /\ Rank(x, S, order) + 1 <= Cardinality(S)
    BY <1>2
  <2> QED BY <1>1
<1> QED BY <1>4, <1>5

\* A sorted set holds each of its elements at one place.
LEMMA SortedElements ==
    ASSUME NEW S, IsFiniteSet(S), NEW order, Linear(S, order)
    PROVE  /\ Sorted(S, order) \in Seq(S)
           /\ ToSet(Sorted(S, order)) = S
           /\ \A k, l \in DOMAIN Sorted(S, order) :
                  Sorted(S, order)[k] = Sorted(S, order)[l] => k = l
<1> DEFINE n == Cardinality(S)
           rank == [x \in S |-> Rank(x, S, order)]
           place == [x \in S |-> rank[x] + 1]
           list == Sorted(S, order)
<1>1. n \in Nat /\ IsFiniteSet(1 .. n) /\ Cardinality(1 .. n) = n
  BY FS_CardinalityType, Interval
<1>2. rank \in [S -> 0 .. n - 1] /\ \A x, y \in S : rank[x] = rank[y] => x = y
  BY Ranks
<1>3. list = [k \in 1 .. n |-> CHOOSE x \in S : Rank(x, S, order) = k - 1]
  BY DEF Sorted, Below, Rank
<1>4. \A x \in S : Rank(x, S, order) = rank[x]
  OBVIOUS
<1> HIDE DEF list, rank
<1>5. place \in Injection(S, 1 .. n)
  <2>1. place \in [S -> 1 .. n]
    <3> HIDE DEF n
    <3> QED BY <1>1, <1>2
  <2>2. \A x, y \in S : place[x] = place[y] => x = y
    <3> SUFFICES ASSUME NEW x \in S, NEW y \in S, place[x] = place[y] PROVE x = y
      OBVIOUS
    <3> HIDE DEF n
    <3> rank[x] \in Nat /\ rank[y] \in Nat
      BY <1>1, <1>2
    <3> QED BY <1>2
  <2> HIDE DEF place
  <2> QED BY <2>1, <2>2 DEF Injection, IsInjective
<1>6. place \in Surjection(S, 1 .. n)
  <2> HIDE DEF place
  <2> QED BY <1>1, <1>5, FS_Injection
<1>7. \A k \in 1 .. n : \E x \in S : rank[x] = k - 1
  <2> SUFFICES ASSUME NEW k \in 1 .. n PROVE \E x \in S : rank[x] = k - 1
    OBVIOUS
  <2>1. PICK x \in S : place[x] = k
    BY <1>6 DEF Surjection
  <2> HIDE DEF n
  <2> rank[x] \in Nat /\ rank[x] + 1 = k
    BY <2>1, <1>1, <1>2
  <2> QED OBVIOUS
<1> HIDE DEF n
<1>8. \A k \in 1 .. n : list[k] \in S /\ rank[list[k]] = k - 1
  <2> TAKE k \in 1 .. n
  <2>1. list[k] = CHOOSE x \in S : Rank(x, S, order) = k - 1
    BY <1>3
  <2>2. \E x \in S : Rank(x, S, order) = k - 1
    BY <1>4, <1>7
  <2>3. list[k] \in S /\ Rank(list[k], S, order) = k - 1
    BY <2>1, <2>2
  <2> QED BY <2>3, <1>4
<1>9. DOMAIN list = 1 .. n /\ list \in Seq(S)
  <2>1. list \in [1 .. n -> S]
    BY <1>3, <1>8
  <2> QED BY <2>1, <1>1
<1>10. ToSet(list) = S
  <2>1. \A x \in S : x \in ToSet(list)
    <3> SUFFICES ASSUME NEW x \in S PROVE x \in ToSet(list)
      OBVIOUS
    <3>1. rank[x] + 1 \in 1 .. n /\ (rank[x] + 1) - 1 = rank[x]
      BY <1>1, <1>2
    <3>2. list[rank[x] + 1] \in S /\ rank[list[rank[x] + 1]] = rank[x]
      BY <3>1, <1>8
    <3>3. list[rank[x] + 1] = x
      BY <3>2, <1>2
    <3> QED BY <3>1, <3>3, <1>9 DEF ToSet
  <2> QED BY <2>1, <1>8, <1>9 DEF ToSet
<1>11. \A k, l \in DOMAIN list : list[k] = list[l] => k = l
  <2> SUFFICES ASSUME NEW k \in 1 .. n, NEW l \in 1 .. n, list[k] = list[l] PROVE k = l
    BY <1>9
  <2> k - 1 = l - 1
    BY <1>8
  <2> QED BY <1>1
<1> QED BY <1>9, <1>10, <1>11 DEF list

\* The first element of a sorted set comes before every other one.
LEMMA SortedFirst ==
    ASSUME NEW S, IsFiniteSet(S), NEW order, Linear(S, order), S # {}
    PROVE  /\ Sorted(S, order) # <<>> /\ Sorted(S, order)[1] \in S
           /\ \A y \in S : y # Sorted(S, order)[1] => <<Sorted(S, order)[1], y>> \in order
<1> DEFINE list == Sorted(S, order)
           n == Cardinality(S)
<1>1. n \in Nat /\ n # 0
  BY FS_CardinalityType, FS_EmptySet
<1>2. list = [k \in 1 .. n |-> CHOOSE x \in S : Rank(x, S, order) = k - 1]
  BY DEF Sorted, Rank, Below
<1>3. list \in Seq(S) /\ ToSet(list) = S
  BY SortedElements
<1>4. Len(list) = n /\ 1 \in DOMAIN list /\ list[1] = CHOOSE x \in S : Rank(x, S, order) = 1 - 1
  <2> HIDE DEF list
  <2>1. DOMAIN list = 1 .. n
    BY <1>2
  <2> QED BY <1>1, <1>2, <1>3, <2>1
<1>5. \E x \in S : Rank(x, S, order) = 0
  <2>1. \A x \in S : Rank(x, S, order) \in 0 .. n - 1
    BY Ranks
  <2>2. \A x, y \in S : Rank(x, S, order) = Rank(y, S, order) => x = y
    BY Ranks
  <2> DEFINE rank == [x \in S |-> Rank(x, S, order)]
  <2>3. rank \in [S -> 0 .. n - 1] /\ rank \in Injection(S, 0 .. n - 1)
    BY <2>1, <2>2 DEF Injection, IsInjective
  <2>4. IsFiniteSet(0 .. n - 1) /\ Cardinality(0 .. n - 1) = n
    BY <1>1, FS_Interval
  <2>5. rank \in Surjection(S, 0 .. n - 1)
    <3> HIDE DEF rank
    <3> QED BY <2>3, <2>4, FS_Injection
  <2>6. 0 \in 0 .. n - 1
    BY <1>1
  <2>7. \E x \in S : rank[x] = 0
    <3> HIDE DEF rank
    <3> QED BY <2>5, <2>6 DEF Surjection
  <2> QED BY <2>7
<1> HIDE DEF list
<1>6. list[1] \in S /\ Rank(list[1], S, order) = 0
  BY <1>4, <1>5
<1>7. Below(list[1], S, order) = {}
  <2>1. Below(list[1], S, order) \in SUBSET S
    BY DEF Below
  <2> QED BY <1>6, <2>1, FS_Subset, FS_EmptySet DEF Rank
<1>8. \A y \in S : y # list[1] => <<list[1], y>> \in order
  BY <1>6, <1>7 DEF Below, Linear
<1> QED BY <1>1, <1>4, <1>6, <1>8 DEF list

--------------------------------------------------------------------------------
(* SumOf *)

Summings(numbers) ==
    {f \in [0 .. Len(numbers) -> Int] :
        /\ SumOf(numbers) = f[Len(numbers)]
        /\ f[0] = 0
        /\ \A i \in 1 .. Len(numbers) : f[i] = f[i - 1] + numbers[i]}

LEMMA SumRecursion ==
    ASSUME NEW numbers \in Seq(Int)
    PROVE  Summings(numbers) # {}
<1> DEFINE n == Len(numbers)
           step == [i \in 1 .. n |-> [v \in Int |-> v + numbers[i]]]
           Body(g) == [i \in 0 .. n |-> IF i = 0 THEN 0 ELSE g[i - 1] + numbers[i]]
<1>1. step \in [1 .. n -> [Int -> Int]]
  OBVIOUS
<1>2. PICK f \in [0 .. n -> Int] : f[0] = 0 /\ \A i \in 1 .. n : f[i] = step[i][f[i - 1]]
  <2>1. n \in Nat /\ 0 \in Int
    OBVIOUS
  <2>2. Iterations(Int, n, 0, step) # {}
    <3> HIDE DEF step, n
    <3> QED BY <1>1, <2>1, Recursion
  <2> QED BY <2>2 DEF Iterations
<1>3. \A i \in 1 .. n : f[i] = f[i - 1] + numbers[i]
  <2> TAKE i \in 1 .. n
  <2> f[i - 1] \in Int
    OBVIOUS
  <2> QED BY <1>2
<1>4. f = Body(f)
  <2>1. \A i \in 1 .. n : f[i] = Body(f)[i]
    BY <1>3
  <2>2. f[0] = Body(f)[0]
    BY <1>2
  <2>3. \A i \in 0 .. n : f[i] = Body(f)[i]
    <3> HIDE DEF Body
    <3> TAKE i \in 0 .. n
    <3> QED BY <2>1, <2>2
  <2> QED BY <2>3
<1> DEFINE sum == CHOOSE g : g = Body(g)
<1>5. sum = Body(sum)
  <2> HIDE DEF Body
  <2> QED BY <1>4
<1>6. SumOf(numbers) = sum[n]
  BY DEF SumOf
<1> HIDE DEF sum
<1>7. DOMAIN sum = 0 .. n /\ sum[0] = 0 /\ \A i \in 1 .. n : sum[i] = sum[i - 1] + numbers[i]
  <2>1. \A g : DOMAIN Body(g) = 0 .. n /\ Body(g)[0] = 0
    OBVIOUS
  <2>2. \A g : \A i \in 1 .. n : Body(g)[i] = g[i - 1] + numbers[i]
    OBVIOUS
  <2> HIDE DEF Body
  <2>3. DOMAIN sum = 0 .. n /\ sum[0] = 0
    BY <2>1, <1>5
  <2>4. \A i \in 1 .. n : sum[i] = Body(sum)[i]
    BY <1>5
  <2> QED BY <2>2, <2>3, <2>4
<1>8. \A i \in 0 .. n : i \in {j \in 0 .. n : sum[j] \in Int}
  <2> DEFINE S == {j \in 0 .. n : sum[j] \in Int}
  <2>1. 0 \in S /\ \A i \in 0 .. n - 1 : i \in S => i + 1 \in S
    <3>1. \A i \in 1 .. n : numbers[i] \in Int
      OBVIOUS
    <3> QED BY <3>1, <1>7
  <2>2. n \in Nat
    OBVIOUS
  <2> HIDE DEF S, n
  <2>3. \A i \in 0 .. n : i \in S
    BY <2>1, <2>2, IntervalInduction
  <2> QED BY <2>3 DEF S
<1>9. sum = [i \in 0 .. n |-> sum[i]]
  <2> HIDE DEF Body
  <2>1. \E F : sum = [i \in 0 .. n |-> F[i]]
    <3>1. sum = [i \in 0 .. n |-> IF i = 0 THEN 0 ELSE sum[i - 1] + numbers[i]]
      BY <1>5 DEF Body
    <3>2. \A i \in 0 .. n : sum[i] = IF i = 0 THEN 0 ELSE sum[i - 1] + numbers[i]
      BY <3>1
    <3>3. sum = [i \in 0 .. n |-> sum[i]]
      BY <3>1, <3>2
    <3> QED BY <3>3
  <2> QED BY <2>1
<1>10. sum \in [0 .. n -> Int]
  BY <1>8, <1>9
<1> QED BY <1>6, <1>7, <1>10 DEF Summings

\* A sum grows by what is appended.
LEMMA SumOfAppend ==
    ASSUME NEW numbers \in Seq(Int), NEW x \in Int
    PROVE  /\ SumOf(numbers) \in Int /\ SumOf(<<>>) = 0
           /\ SumOf(Append(numbers, x)) = SumOf(numbers) + x
<1> DEFINE n == Len(numbers)
           more == Append(numbers, x)
<1>1. n \in Nat /\ more \in Seq(Int) /\ Len(more) = n + 1 /\ more[n + 1] = x
      /\ \A i \in 1 .. n : more[i] = numbers[i]
  OBVIOUS
<1>2. PICK f \in [0 .. n -> Int] :
          SumOf(numbers) = f[n] /\ f[0] = 0 /\ \A i \in 1 .. n : f[i] = f[i - 1] + numbers[i]
  <2>1. Summings(numbers) # {}
    BY SumRecursion
  <2> QED BY <2>1 DEF Summings
<1> HIDE DEF more
<1>3. PICK g \in [0 .. n + 1 -> Int] :
          SumOf(more) = g[n + 1] /\ g[0] = 0 /\ \A i \in 1 .. n + 1 : g[i] = g[i - 1] + more[i]
  <2>1. Summings(more) # {}
    BY <1>1, SumRecursion
  <2> QED BY <2>1, <1>1 DEF Summings
<1>4. f[n] = g[n]
  <2> DEFINE S == {i \in 0 .. n : f[i] = g[i]}
  <2>1. 0 \in S /\ \A i \in 0 .. n - 1 : i \in S => i + 1 \in S
    <3>1. 0 \in S
      BY <1>2, <1>3
    <3>2. ASSUME NEW i \in 0 .. n - 1, f[i] = g[i]
          PROVE  f[i + 1] = g[i + 1]
      <4> i + 1 \in 1 .. n /\ i + 1 \in 1 .. n + 1 /\ (i + 1) - 1 = i
        BY <1>1
      <4> HIDE DEF n
      <4>1. f[i + 1] = f[i] + numbers[i + 1]
        BY <1>2
      <4>2. g[i + 1] = g[i] + more[i + 1]
        BY <1>3
      <4> QED BY <4>1, <4>2, <3>2, <1>1
    <3>3. ASSUME NEW i \in 0 .. n - 1, i \in S
          PROVE  i + 1 \in S
      <4>1. i + 1 \in 0 .. n /\ f[i] = g[i]
        BY <1>1, <3>3
      <4>2. f[i + 1] = g[i + 1]
        BY <3>2, <4>1
      <4> QED BY <4>1, <4>2
    <3> QED BY <3>1, <3>3
  <2> HIDE DEF S, n
  <2>2. \A i \in 0 .. n : i \in S
    BY <2>1, <1>1, IntervalInduction
  <2> QED BY <2>2, <1>1 DEF S
<1>5. SumOf(<<>>) = 0
  <2>1. Summings(<<>>) # {}
    BY SumRecursion
  <2> QED BY <2>1 DEF Summings
<1>6. SumOf(more) = SumOf(numbers) + x
  <2>1. g[n + 1] = g[n] + more[n + 1]
    <3> n + 1 \in 1 .. n + 1 /\ (n + 1) - 1 = n
      BY <1>1
    <3> HIDE DEF n
    <3> QED BY <1>3
  <2> QED BY <2>1, <1>1, <1>2, <1>3, <1>4
<1> QED BY <1>1, <1>2, <1>5, <1>6 DEF more

\* A sum is no less for terms that are no less.
LEMMA SumOfMonotone ==
    ASSUME NEW low \in Seq(Int), NEW high \in Seq(Int), Len(low) = Len(high),
           \A i \in 1 .. Len(low) : low[i] <= high[i]
    PROVE  SumOf(low) \in Int /\ SumOf(high) \in Int /\ SumOf(low) <= SumOf(high)
<1> DEFINE n == Len(low)
<1>1. n \in Nat
  OBVIOUS
<1>2. PICK f \in [0 .. n -> Int] :
          SumOf(low) = f[n] /\ f[0] = 0 /\ \A i \in 1 .. n : f[i] = f[i - 1] + low[i]
  <2>1. Summings(low) # {}
    BY SumRecursion
  <2> QED BY <2>1 DEF Summings
<1>3. PICK g \in [0 .. n -> Int] :
          SumOf(high) = g[n] /\ g[0] = 0 /\ \A i \in 1 .. n : g[i] = g[i - 1] + high[i]
  <2>1. Summings(high) # {}
    BY SumRecursion
  <2> QED BY <2>1 DEF Summings
<1> DEFINE S == {i \in 0 .. n : f[i] <= g[i]}
<1>4. 0 \in S
  BY <1>1, <1>2, <1>3
<1>5. ASSUME NEW i \in 0 .. n - 1, i \in S
      PROVE  i + 1 \in S
  <2>1. /\ i + 1 \in 1 .. n /\ i + 1 \in 0 .. n /\ (i + 1) - 1 = i /\ i \in 0 .. n
        /\ f[i] <= g[i] /\ low[i + 1] <= high[i + 1]
        /\ low[i + 1] \in Int /\ high[i + 1] \in Int
    BY <1>1, <1>5
  <2> HIDE DEF n
  <2>2. f[i + 1] = f[i] + low[i + 1] /\ g[i + 1] = g[i] + high[i + 1]
    BY <1>2, <1>3, <2>1
  <2>3. f[i] \in Int /\ g[i] \in Int
    BY <2>1
  <2>4. f[i + 1] <= g[i + 1]
    BY <2>1, <2>2, <2>3
  <2> QED BY <2>1, <2>4
<1> HIDE DEF S, n
<1>6. \A i \in 0 .. n : i \in S
  BY <1>1, <1>4, <1>5, IntervalInduction
<1>7. f[n] <= g[n] /\ f[n] \in Int /\ g[n] \in Int
  BY <1>1, <1>6 DEF S
<1> QED BY <1>2, <1>3, <1>7

--------------------------------------------------------------------------------
(* Append and \o *)

LEMMA Elements ==
    ASSUME NEW A, NEW s \in Seq(A)
    PROVE  ToSet(s) \subseteq A
  BY DEF ToSet

LEMMA AppendElements ==
    ASSUME NEW A, NEW s \in Seq(A), NEW x \in A
    PROVE  /\ Append(s, x) \in Seq(A) /\ Len(Append(s, x)) = Len(s) + 1 /\ Len(s) \in Nat
           /\ Append(s, x)[Len(s) + 1] = x /\ \A i \in 1 .. Len(s) : Append(s, x)[i] = s[i]
           /\ ToSet(Append(s, x)) = ToSet(s) \cup {x}
<1> DEFINE more == Append(s, x)
<1>1. more \in Seq(A) /\ Len(more) = Len(s) + 1 /\ Len(s) \in Nat
      /\ more[Len(s) + 1] = x /\ \A i \in 1 .. Len(s) : more[i] = s[i]
  OBVIOUS
<1>2. DOMAIN more = 1 .. Len(s) + 1 /\ DOMAIN s = 1 .. Len(s)
  OBVIOUS
<1> HIDE DEF more
<1>3. ToSet(more) = ToSet(s) \cup {x}
  BY <1>1, <1>2 DEF ToSet
<1> QED BY <1>1, <1>3 DEF more

LEMMA ConcatElements ==
    ASSUME NEW A, NEW s \in Seq(A), NEW t \in Seq(A)
    PROVE  /\ s \o t \in Seq(A) /\ Len(s \o t) = Len(s) + Len(t)
           /\ \A i \in 1 .. Len(s) : (s \o t)[i] = s[i]
           /\ \A i \in 1 .. Len(t) : (s \o t)[Len(s) + i] = t[i]
           /\ ToSet(s \o t) = ToSet(s) \cup ToSet(t)
<1> DEFINE both == s \o t
           m == Len(s)
           n == Len(t)
<1>1. /\ both \in Seq(A) /\ Len(both) = m + n /\ m \in Nat /\ n \in Nat
      /\ DOMAIN s = 1 .. m /\ DOMAIN t = 1 .. n
  OBVIOUS
<1>2. DOMAIN both = 1 .. m + n
  BY <1>1
<1>3. /\ \A i \in 1 .. m : both[i] = s[i]
      /\ \A i \in 1 .. n : both[m + i] = t[i]
  OBVIOUS
<1> HIDE DEF both, m, n
<1>4. ToSet(both) = ToSet(s) \cup ToSet(t)
  <2>1. ASSUME NEW i \in 1 .. m + n PROVE both[i] \in ToSet(s) \cup ToSet(t)
    <3>1. CASE i <= m
      <4>1. i \in 1 .. m
        BY <1>1, <3>1
      <4> QED BY <4>1, <1>1, <1>3 DEF ToSet
    <3>2. CASE ~(i <= m)
      <4>1. i - m \in 1 .. n /\ i = m + (i - m)
        BY <1>1, <3>2
      <4>2. both[i] = t[i - m]
        BY <4>1, <1>3
      <4> QED BY <4>1, <4>2, <1>1 DEF ToSet
    <3> QED BY <3>1, <3>2
  <2>2. ToSet(both) \subseteq ToSet(s) \cup ToSet(t)
    BY <2>1, <1>2 DEF ToSet
  <2>3. ASSUME NEW i \in 1 .. m PROVE s[i] \in ToSet(both)
    <3>1. i \in 1 .. m + n /\ s[i] = both[i]
      BY <1>1, <1>3
    <3> QED BY <3>1, <1>2 DEF ToSet
  <2>4. ASSUME NEW i \in 1 .. n PROVE t[i] \in ToSet(both)
    <3>1. m + i \in 1 .. m + n /\ t[i] = both[m + i]
      BY <1>1, <1>3
    <3> QED BY <3>1, <1>2 DEF ToSet
  <2>5. ToSet(s) \subseteq ToSet(both) /\ ToSet(t) \subseteq ToSet(both)
    BY <1>1, <2>3, <2>4 DEF ToSet
  <2> QED BY <2>2, <2>5
<1> QED BY <1>1, <1>3, <1>4 DEF both, m, n

\* The elements of a list without repetitions are as many as it is long.
LEMMA FiniteElements ==
  ASSUME NEW A, NEW s \in Seq(A)
  PROVE  /\ IsFiniteSet(ToSet(s))
         /\ IsInjective(s) => Cardinality(ToSet(s)) = Len(s)
<1> DEFINE n == Len(s)
           T == ToSet(s)
<1>1. n \in Nat /\ IsFiniteSet(1 .. n) /\ Cardinality(1 .. n) = n /\ DOMAIN s = 1 .. n
  BY Interval
<1>2. s \in [1 .. n -> T] /\ \A t \in T : \E i \in 1 .. n : s[i] = t
  BY <1>1 DEF ToSet
<1>3. s \in Surjection(1 .. n, T)
  BY <1>2 DEF Surjection
<1>4. IsFiniteSet(T) /\ (Cardinality(T) = Cardinality(1 .. n) <=> s \in Injection(1 .. n, T))
  BY <1>1, <1>3, FS_Surjection
<1>5. IsInjective(s) => s \in Injection(1 .. n, T)
  BY <1>2 DEF Injection
<1> QED BY <1>1, <1>4, <1>5

\* The places of a list that are kept, in their order.
LEMMA Positions ==
  ASSUME NEW n \in Nat, NEW good
  PROVE  LET kept == Only([i \in 1 .. n |-> i], good)
         IN /\ ToSet(kept) = (1 .. n) \cap good
            /\ DOMAIN kept = 1 .. Len(kept) /\ Len(kept) \in Nat
            /\ \A k \in 1 .. Len(kept) : kept[k] \in 1 .. n /\ kept[k] \in good
            /\ \A k, l \in 1 .. Len(kept) : k < l => kept[k] < kept[l]
            /\ \A k, l \in 1 .. Len(kept) : kept[k] = kept[l] => k = l
<1> DEFINE s == [i \in 1 .. n |-> i]
           kept == Only(s, good)
<1>1. s \in Seq(1 .. n) /\ Len(s) = n /\ \A i \in 1 .. n : s[i] = i
  OBVIOUS
<1>2. ToSet(s) = 1 .. n
  BY DEF ToSet
<1> HIDE DEF s
<1>3. /\ kept \in Seq((1 .. n) \cap good)
      /\ \E h \in [1 .. Len(kept) -> 1 .. Len(s)] : Selects(h, s, good, Len(s), kept)
  BY <1>1, OnlySelects
<1>4. ToSet(kept) = (1 .. n) \cap good
  BY <1>1, <1>2, OnlyElements
<1>5. PICK h \in [1 .. Len(kept) -> 1 .. n] : Selects(h, s, good, n, kept)
  BY <1>1, <1>3
<1> HIDE DEF kept
<1>6. /\ DOMAIN kept = 1 .. Len(kept) /\ Len(kept) \in Nat
      /\ \A k \in 1 .. Len(kept) : kept[k] \in 1 .. n /\ kept[k] \in good
  BY <1>3
<1>7. \A k \in 1 .. Len(kept) : kept[k] = h[k] /\ h[k] \in Nat
  BY <1>1, <1>5 DEF Selects
<1>8. \A k, l \in 1 .. Len(kept) : k < l => kept[k] < kept[l]
  BY <1>5, <1>7 DEF Selects
<1>9. \A k, l \in 1 .. Len(kept) : kept[k] = kept[l] => k = l
  <2> SUFFICES ASSUME NEW k \in 1 .. Len(kept), NEW l \in 1 .. Len(kept), kept[k] = kept[l], k # l
               PROVE  FALSE
    OBVIOUS
  <2>1. k < l \/ l < k
    BY <1>6
  <2>2. kept[k] \in Nat /\ kept[l] \in Nat
    BY <1>7
  <2> QED BY <2>1, <2>2, <1>8
<1> QED BY <1>4, <1>6, <1>8, <1>9 DEF kept, s
================================================================================
