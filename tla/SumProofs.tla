------------------------------ MODULE SumProofs ------------------------------
(***************************************************************************)
(* What the other proof modules need to know of loops and sums.  The       *)
(* theorems of the library on induction and on recursive definitions take  *)
(* an operator as a parameter; here a set, the set of what is good, takes  *)
(* its place (UpInduction, SubsetInduction), so that every instance is a   *)
(* first-order fact.  FoldExists shows that the equation behind            *)
(* MapThenFoldSet has a solution; from it follow the laws of FoldLeft and  *)
(* of SumOver, the sum that MapThenSumSet takes.                           *)
(***************************************************************************)
EXTENDS Sorting, FiniteSetsExt, FiniteSetTheorems, WellFoundedInduction, TLAPS

\* A nonempty set of naturals has a least element: a proof by induction shows
\* that the set of counterexamples' ranks has none.
LEMMA LeastNatural ==
  ASSUME NEW T \in SUBSET Nat, T # {}
  PROVE  \E m \in T : \A n \in T : m <= n
<1> DEFINE R == {ss \in Nat \X Nat : ss[1] < ss[2]}
<1>1. IsWellFoundedOn(R, Nat)
  BY NatLessThanWellFounded DEF OpToRel
<1>2. PICK m \in T : \A n \in T : ~ (<<n, m>> \in R)
  <2> HIDE DEF R
  <2> QED BY <1>1, WFMin
<1>3. \A n \in T : ~ (n < m)
  BY <1>2
<1> QED BY <1>3

\* Of the members of a nonempty set that have natural ranks one has the least.
LEMMA LeastRank ==
  ASSUME NEW S, S # {}, NEW rank, \A x \in S : rank[x] \in Nat
  PROVE  \E x \in S : \A y \in S : rank[x] <= rank[y]
<1> DEFINE T == {rank[x] : x \in S}
<1>1. T \in SUBSET Nat /\ T # {}
  OBVIOUS
<1>2. PICK m \in T : \A n \in T : m <= n
  <2> HIDE DEF T
  <2> QED BY <1>1, LeastNatural
<1> QED BY <1>2

\* The largest member of a set of naturals with a bound.
LEMMA MaxBounded ==
  ASSUME NEW n \in Nat, NEW S \in SUBSET (0 .. n), S # {}
  PROVE  Max(S) \in S /\ \A x \in S : x <= Max(S)
<1> DEFINE T == {n - x : x \in S}
<1>0. \A x \in S : n - x \in Nat
  OBVIOUS
<1>1. T \in SUBSET Nat /\ T # {}
  BY <1>0
<1>2. PICK m \in T : \A k \in T : m <= k
  BY <1>1, LeastNatural
<1>3. PICK x \in S : m = n - x
  BY <1>2
<1>4. \A y \in S : y <= x
  <2> SUFFICES ASSUME NEW y \in S PROVE y <= x
    OBVIOUS
  <2>1. n - x <= n - y
    BY <1>2, <1>3
  <2> QED BY <2>1
<1> QED BY <1>4 DEF Max

\* The smaller and the larger of two numbers.
LEMMA MinTwo ==
  ASSUME NEW a \in Int, NEW b \in Int
  PROVE  Min({a, b}) = IF a <= b THEN a ELSE b
<1> DEFINE m == IF a <= b THEN a ELSE b
<1>1. \A x : x \in {a, b} /\ (\A y \in {a, b} : x <= y) <=> x = m
  OBVIOUS
<1> QED BY <1>1 DEF Min

LEMMA MaxTwo ==
  ASSUME NEW a \in Int, NEW b \in Int
  PROVE  Max({a, b}) = IF a >= b THEN a ELSE b
<1> DEFINE m == IF a >= b THEN a ELSE b
<1>1. \A x : x \in {a, b} /\ (\A y \in {a, b} : x >= y) <=> x = m
  OBVIOUS
<1> QED BY <1>1 DEF Max

\* What passes from every number to the next holds up to a bound.
LEMMA UpInduction ==
  ASSUME NEW n \in Nat, NEW Good \in SUBSET (0 .. n), 0 \in Good,
         \A i \in 1 .. n : i - 1 \in Good => i \in Good
  PROVE  Good = 0 .. n
<1> DEFINE Bad == (0 .. n) \ Good
<1>1. CASE Bad # {}
  <2>1. Bad \in SUBSET Nat
    OBVIOUS
  <2>2. PICK m \in Bad : \A k \in Bad : m <= k
    BY <1>1, <2>1, LeastNatural
  <2>3. m \in 1 .. n /\ m - 1 \in 0 .. n
    BY <2>2
  <2>4. m - 1 \in Good
    BY <2>2, <2>3
  <2> QED BY <2>2, <2>3, <2>4
<1> QED BY <1>1

-----------------------------------------------------------------------------
(* Folds.  MapThenFoldSet is a recursive function on the subsets of a set: *)
(* it takes out one member after the other, the one that pick gives.       *)

Picks(D, pick) == \A s \in SUBSET D : s # {} => pick[s] \in s

IsFold(D, pick, base, step, f) ==
    \A s \in SUBSET D :
        f[s] = IF s = {} THEN base ELSE step[pick[s]][f[s \ {pick[s]}]]

\* The equation of a fold with the values V has a solution on a finite set.
LEMMA FoldExists ==
  ASSUME NEW D, IsFiniteSet(D), NEW pick, Picks(D, pick),
         NEW V, NEW base \in V, NEW step \in [D -> [V -> V]]
  PROVE  \E f \in [SUBSET D -> V] : IsFold(D, pick, base, step, f)
<1> DEFINE Upto(n) == {s \in SUBSET D : Cardinality(s) <= n}
           Solves(f, n) == \A s \in Upto(n) :
                f[s] = IF s = {} THEN base ELSE step[pick[s]][f[s \ {pick[s]}]]
           Solved == {n \in Nat : \E f \in [Upto(n) -> V] : Solves(f, n)}
<1>1. ASSUME NEW s \in SUBSET D
      PROVE  /\ IsFiniteSet(s) /\ Cardinality(s) \in Nat /\ Cardinality(s) <= Cardinality(D)
             /\ Cardinality(D) \in Nat
             /\ s = {} <=> Cardinality(s) = 0
             /\ s # {} => Cardinality(s \ {pick[s]}) = Cardinality(s) - 1
  BY FS_Subset, FS_CardinalityType, FS_EmptySet, FS_RemoveElement DEF Picks
<1>2. 0 \in Solved
  <2>1. Upto(0) = {{}}
    <3>1. Cardinality({}) = 0
      BY FS_EmptySet
    <3>2. \A s \in SUBSET D : Cardinality(s) <= 0 => s = {}
      <4> SUFFICES ASSUME NEW s \in SUBSET D, Cardinality(s) <= 0 PROVE s = {}
        OBVIOUS
      <4>1. Cardinality(s) \in Nat /\ (s = {} <=> Cardinality(s) = 0)
        BY <1>1
      <4> QED BY <4>1
    <3> QED BY <3>1, <3>2
  <2>2. [s \in Upto(0) |-> base] \in [Upto(0) -> V] /\ Solves([s \in Upto(0) |-> base], 0)
    BY <2>1
  <2> QED BY <2>2
<1>3. ASSUME NEW n \in Nat, n \in Solved PROVE n + 1 \in Solved
  <2>1. PICK f \in [Upto(n) -> V] : Solves(f, n)
    BY <1>3
  <2> DEFINE g == [s \in Upto(n + 1) |->
                     IF s = {} THEN base ELSE step[pick[s]][f[s \ {pick[s]}]]]
  <2>2. ASSUME NEW s \in Upto(n + 1), s # {}
        PROVE  /\ pick[s] \in D /\ s \ {pick[s]} \in Upto(n) /\ s \ {pick[s]} \in Upto(n + 1)
    <3>1. s \in SUBSET D /\ Cardinality(s) <= n + 1 /\ pick[s] \in s /\ pick[s] \in D
      BY <2>2 DEF Picks
    <3>2. Cardinality(s) \in Nat /\ Cardinality(s \ {pick[s]}) = Cardinality(s) - 1
      BY <1>1, <2>2, <3>1
    <3>3. s \ {pick[s]} \in SUBSET D /\ Cardinality(s \ {pick[s]}) <= n
      BY <3>1, <3>2
    <3>4. Cardinality(s \ {pick[s]}) <= n + 1
      BY <3>1, <3>2
    <3> QED BY <3>1, <3>3, <3>4
  <2>3. g \in [Upto(n + 1) -> V]
    <3>1. ASSUME NEW s \in Upto(n + 1), s # {} PROVE step[pick[s]][f[s \ {pick[s]}]] \in V
      BY <2>1, <2>2, <3>1
    <3> HIDE DEF Upto
    <3> QED BY <3>1
  <2>4. \A s \in Upto(n) : s \in Upto(n + 1) /\ g[s] = f[s]
    <3>1. \A s \in Upto(n) : s \in Upto(n + 1)
      <4> SUFFICES ASSUME NEW s \in SUBSET D, Cardinality(s) <= n PROVE Cardinality(s) <= n + 1
        OBVIOUS
      <4>1. Cardinality(s) \in Nat
        BY <1>1
      <4> QED BY <4>1
    <3>2. \A s \in Upto(n) : f[s] = IF s = {} THEN base ELSE step[pick[s]][f[s \ {pick[s]}]]
      BY <2>1
    <3> HIDE DEF Upto
    <3> QED BY <3>1, <3>2
  <2>5. Solves(g, n + 1)
    <3> SUFFICES ASSUME NEW s \in Upto(n + 1)
                 PROVE  g[s] = IF s = {} THEN base ELSE step[pick[s]][g[s \ {pick[s]}]]
      OBVIOUS
    <3>1. CASE s = {}
      BY <3>1
    <3>2. CASE s # {}
      <4>1. g[s \ {pick[s]}] = f[s \ {pick[s]}]
        BY <2>2, <2>4, <3>2
      <4>2. g[s] = step[pick[s]][f[s \ {pick[s]}]]
        BY <3>2
      <4> QED BY <3>2, <4>1, <4>2
    <3> QED BY <3>1, <3>2
  <2> HIDE DEF g, Upto, Solves
  <2>6. n + 1 \in Nat
    OBVIOUS
  <2> QED BY <2>3, <2>5, <2>6
<1>4. Cardinality(D) \in Solved
  <2> DEFINE T == Nat \ Solved
  <2>1. CASE T # {}
    <3>1. PICK m \in T : \A n \in T : m <= n
      <4>1. T \in SUBSET Nat
        OBVIOUS
      <4> HIDE DEF T
      <4> QED BY <2>1, <4>1, LeastNatural
    <3>2. m # 0
      BY <1>2
    <3>3. m - 1 \in Nat /\ m - 1 \in Solved
      <4>1. m \in Nat /\ m - 1 \in Nat
        BY <3>2
      <4> HIDE DEF Solved
      <4> QED BY <3>1, <4>1
    <3>4. (m - 1) + 1 \in Solved
      <4> HIDE DEF Solved
      <4> QED BY <1>3, <3>3
    <3>5. (m - 1) + 1 = m
      BY <3>1
    <3> QED BY <3>1, <3>4, <3>5
  <2>2. CASE T = {}
    BY <1>1, <2>2
  <2> QED BY <2>1, <2>2
<1>5. Upto(Cardinality(D)) = SUBSET D
  BY <1>1
<1>6. PICK f \in [Upto(Cardinality(D)) -> V] : Solves(f, Cardinality(D))
  BY <1>4
<1> QED BY <1>5, <1>6 DEF IsFold

\* What passes from a set without one of its members to the set itself holds
\* of every finite set.
LEMMA SubsetInduction ==
  ASSUME NEW D, IsFiniteSet(D), NEW Good \in SUBSET (SUBSET D), {} \in Good,
         \A s \in SUBSET D : (s # {} /\ \A x \in s : s \ {x} \in Good) => s \in Good
  PROVE  Good = SUBSET D
<1> DEFINE rank == [s \in SUBSET D |-> Cardinality(s)]
           Bad == (SUBSET D) \ Good
<1>1. \A s \in SUBSET D : rank[s] \in Nat
  BY FS_Subset, FS_CardinalityType
<1>2. \A s \in SUBSET D : \A x \in s : s \ {x} \in SUBSET D /\ rank[s \ {x}] < rank[s]
  <2> SUFFICES ASSUME NEW s \in SUBSET D, NEW x \in s PROVE rank[s \ {x}] < rank[s]
    OBVIOUS
  <2>1. IsFiniteSet(s) /\ Cardinality(s) \in Nat /\ Cardinality(s \ {x}) = Cardinality(s) - 1
    BY FS_Subset, FS_CardinalityType, FS_RemoveElement
  <2> QED BY <2>1
<1> HIDE DEF rank
<1>3. CASE Bad # {}
  <2>1. PICK s \in Bad : \A t \in Bad : rank[s] <= rank[t]
    <3>1. \A t \in Bad : rank[t] \in Nat
      BY <1>1
    <3> HIDE DEF Bad
    <3> QED BY <1>3, <3>1, LeastRank
  <2>2. PICK x \in s : s \ {x} \in Bad
    <3>1. s \in SUBSET D /\ s # {}
      OBVIOUS
    <3> QED BY <1>2, <3>1
  <2>3. rank[s \ {x}] < rank[s] /\ rank[s] <= rank[s \ {x}]
    BY <1>2, <2>1, <2>2
  <2>4. rank[s] \in Nat /\ rank[s \ {x}] \in Nat
    BY <1>1, <2>2
  <2> QED BY <2>3, <2>4
<1> QED BY <1>3

-----------------------------------------------------------------------------
(* Loops over a sequence.                                                  *)

\* FoldLeft takes the last member of a set of positions first.
IsLoop(n, base, step, f) ==
    \A t \in SUBSET (1 .. n) : f[t] = IF t = {} THEN base ELSE step[Max(t)][f[t \ {Max(t)}]]

LEMMA LoopExists ==
  ASSUME NEW n \in Nat, NEW V, NEW base \in V, NEW step \in [1 .. n -> [V -> V]]
  PROVE  \E f \in [SUBSET (1 .. n) -> V] : IsLoop(n, base, step, f)
<1> DEFINE D == 1 .. n
           pick == [t \in SUBSET D |-> Max(t)]
<1>1. IsFiniteSet(D)
  <2>1. 1 \in Int /\ n \in Int
    OBVIOUS
  <2> QED BY <2>1, FS_Interval
<1>2. \A t \in SUBSET D : t # {} => Max(t) \in t
  <2> SUFFICES ASSUME NEW t \in SUBSET D, t # {} PROVE Max(t) \in t
    OBVIOUS
  <2>1. t \in SUBSET (0 .. n)
    OBVIOUS
  <2> QED BY <2>1, MaxBounded
<1>3. Picks(D, pick)
  BY <1>2 DEF Picks
<1>4. \A t \in SUBSET D : pick[t] = Max(t)
  OBVIOUS
<1> HIDE DEF D, pick
<1>5. step \in [D -> [V -> V]]
  BY DEF D
<1>6. PICK f \in [SUBSET D -> V] : IsFold(D, pick, base, step, f)
  BY <1>1, <1>3, <1>5, FoldExists
<1>7. \A t \in SUBSET D : f[t] = IF t = {} THEN base ELSE step[Max(t)][f[t \ {Max(t)}]]
  BY <1>4, <1>6 DEF IsFold
<1> QED BY <1>6, <1>7 DEF D, IsLoop

\* The last member of an interval.
LEMMA MaxInterval ==
  ASSUME NEW i \in Nat, i > 0
  PROVE  Max(1 .. i) = i /\ (1 .. i) \ {i} = 1 .. (i - 1) /\ 1 .. i # {}
<1>1. 1 .. i \in SUBSET (0 .. i) /\ 1 .. i # {} /\ i \in 1 .. i
  OBVIOUS
<1>2. Max(1 .. i) \in 1 .. i /\ i <= Max(1 .. i)
  BY <1>1, MaxBounded
<1>3. \A m \in 1 .. i : i <= m => m = i
  OBVIOUS
<1>4. Max(1 .. i) = i
  BY <1>2, <1>3
<1> QED BY <1>1, <1>4

\* Every round takes the value of the round before it from V to V.
IsRounds(n, V, base, step, p) ==
    /\ n \in Nat /\ base \in V /\ step \in [1 .. n -> [V -> V]]
    /\ p[{}] = base
    /\ \A t \in SUBSET (1 .. n) :
          t # {} /\ p[t \ {Max(t)}] \in V => p[t] = step[Max(t)][p[t \ {Max(t)}]]

\* The values of such a loop after each round.
LEMMA LoopPrefixes ==
  ASSUME NEW n, NEW V, NEW base, NEW step, NEW p, IsRounds(n, V, base, step, p)
  PROVE  /\ p[1 .. 0] = base
         /\ \A i \in 0 .. n : p[1 .. i] \in V
         /\ \A i \in 1 .. n : p[1 .. i] = step[i][p[1 .. (i - 1)]]
<1>0. n \in Nat /\ base \in V /\ step \in [1 .. n -> [V -> V]] /\ p[{}] = base
  BY DEF IsRounds
<1>1. ASSUME NEW i \in 1 .. n, p[1 .. (i - 1)] \in V
      PROVE  p[1 .. i] = step[i][p[1 .. (i - 1)]] /\ p[1 .. i] \in V
  <2>1. 1 .. i \in SUBSET (1 .. n) /\ i \in Nat /\ i > 0
    BY <1>0
  <2>2. Max(1 .. i) = i /\ (1 .. i) \ {i} = 1 .. (i - 1) /\ 1 .. i # {}
    BY <2>1, MaxInterval
  <2>3. p[1 .. i] = step[i][p[1 .. (i - 1)]]
    BY <1>1, <2>1, <2>2 DEF IsRounds
  <2> QED BY <1>0, <1>1, <2>3
<1>2. 1 .. 0 = {}
  OBVIOUS
<1> DEFINE Good == {i \in 0 .. n : p[1 .. i] \in V}
<1>3. 0 \in Good
  BY <1>0, <1>2
<1>4. \A i \in 1 .. n : i - 1 \in Good => i \in Good
  BY <1>1
<1>5. Good = 0 .. n
  <2>1. Good \in SUBSET (0 .. n)
    OBVIOUS
  <2> HIDE DEF Good
  <2> QED BY <1>0, <1>3, <1>4, <2>1, UpInduction
<1>6. \A i \in 0 .. n : p[1 .. i] \in V
  BY <1>5
<1>7. \A i \in 1 .. n : i - 1 \in 0 .. n
  BY <1>0
<1> QED BY <1>0, <1>1, <1>2, <1>6, <1>7

\* The members of a sequence that are in W, in their order.
SelectIn(s, W) == FoldLeft(LAMBDA acc, x : IF x \in W THEN Append(acc, x) ELSE acc, <<>>, s)

SelectFcn(s, W) ==
    CHOOSE f : f = [t \in SUBSET DOMAIN s |-> IF t = {} THEN <<>> ELSE
        IF s[Max(t)] \in W THEN Append(f[t \ {Max(t)}], s[Max(t)]) ELSE f[t \ {Max(t)}]]

LEMMA SelectInDef ==
  ASSUME NEW s, NEW W
  PROVE  SelectIn(s, W) = SelectFcn(s, W)[DOMAIN s]
  BY DEF SelectIn, FoldLeft, MapThenFoldSet, SelectFcn

LEMMA SelectFcnStep ==
  ASSUME NEW X, NEW s \in Seq(X), NEW W
  PROVE  /\ SelectFcn(s, W)[{}] = <<>>
         /\ \A i \in 1 .. Len(s) :
                SelectFcn(s, W)[1 .. i] = IF s[i] \in W THEN Append(SelectFcn(s, W)[1 .. (i - 1)], s[i])
                                          ELSE SelectFcn(s, W)[1 .. (i - 1)]
<1> DEFINE n == Len(s)
           step == [i \in 1 .. n |-> [v \in Seq(X) |-> IF s[i] \in W THEN Append(v, s[i]) ELSE v]]
           Eq(f) == f = [t \in SUBSET (1 .. n) |-> IF t = {} THEN <<>> ELSE
              IF s[Max(t)] \in W THEN Append(f[t \ {Max(t)}], s[Max(t)]) ELSE f[t \ {Max(t)}]]
<1>1. n \in Nat /\ DOMAIN s = 1 .. n /\ \A i \in 1 .. n : s[i] \in X
  OBVIOUS
<1> HIDE DEF n
<1>2. step \in [1 .. n -> [Seq(X) -> Seq(X)]] /\ <<>> \in Seq(X)
  BY <1>1
<1> HIDE DEF step
<1>3. PICK f \in [SUBSET (1 .. n) -> Seq(X)] : IsLoop(n, <<>>, step, f)
  <2> DEFINE V == Seq(X)
             base == <<>>
  <2>1. n \in Nat /\ base \in V /\ step \in [1 .. n -> [V -> V]]
    BY <1>1, <1>2
  <2> HIDE DEF V, base
  <2>2. \E f \in [SUBSET (1 .. n) -> V] : IsLoop(n, base, step, f)
    BY <2>1, LoopExists
  <2> QED BY <2>2 DEF V, base
<1>4. Eq(f)
  <2>1. ASSUME NEW t \in SUBSET (1 .. n)
        PROVE  f[t] = IF t = {} THEN <<>> ELSE
              IF s[Max(t)] \in W THEN Append(f[t \ {Max(t)}], s[Max(t)]) ELSE f[t \ {Max(t)}]
    <3>1. CASE t # {}
      <4>1. t \in SUBSET (0 .. n)
        BY <1>1
      <4>2. Max(t) \in 1 .. n
        BY <1>1, <3>1, <4>1, MaxBounded
      <4>3. f[t \ {Max(t)}] \in Seq(X)
        BY <1>3
      <4>4. f[t] = step[Max(t)][f[t \ {Max(t)}]]
        BY <1>3, <3>1 DEF IsLoop
      <4> QED BY <3>1, <4>2, <4>3, <4>4 DEF step
    <3> QED BY <1>3, <3>1 DEF IsLoop
  <2> QED BY <1>3, <2>1
<1>5. Eq(SelectFcn(s, W))
  BY <1>1, <1>4 DEF SelectFcn
<1>6. \A t \in SUBSET (1 .. n) : SelectFcn(s, W)[t] = IF t = {} THEN <<>> ELSE
              IF s[Max(t)] \in W THEN Append(SelectFcn(s, W)[t \ {Max(t)}], s[Max(t)])
              ELSE SelectFcn(s, W)[t \ {Max(t)}]
  BY <1>5
<1>7. ASSUME NEW i \in 1 .. n
      PROVE  SelectFcn(s, W)[1 .. i] = IF s[i] \in W THEN Append(SelectFcn(s, W)[1 .. (i - 1)], s[i])
                                       ELSE SelectFcn(s, W)[1 .. (i - 1)]
  <2>1. 1 .. i \in SUBSET (1 .. n) /\ i \in Nat /\ i > 0
    BY <1>1
  <2>2. Max(1 .. i) = i /\ (1 .. i) \ {i} = 1 .. (i - 1) /\ 1 .. i # {}
    BY <2>1, MaxInterval
  <2> QED BY <1>6, <2>1, <2>2
<1> QED BY <1>6, <1>7 DEF n

\* h gives the positions of the members of q among the first n of s.
Selects(q, s, n, W, h) ==
    /\ h \in [1 .. Len(q) -> 1 .. n]
    /\ \A j, k \in 1 .. Len(q) : h[j] = h[k] => j = k
    /\ {h[j] : j \in 1 .. Len(q)} = {j \in 1 .. n : s[j] \in W}
    /\ \A j \in 1 .. Len(q) : q[j] = s[h[j]]

\* What is selected comes from the members in W, each once.
LEMMA SelectIndex ==
  ASSUME NEW X, NEW s \in Seq(X), NEW W
  PROVE  SelectIn(s, W) \in Seq(X) /\ \E h : Selects(SelectIn(s, W), s, Len(s), W, h)
<1> DEFINE n == Len(s)
           F(i) == SelectFcn(s, W)[1 .. i]
           Indexes(q, i, h) == Selects(q, s, i, W, h)
           Good == {i \in 0 .. n : F(i) \in Seq(X) /\ \E h : Indexes(F(i), i, h)}
<1>1. n \in Nat /\ DOMAIN s = 1 .. n /\ \A i \in 1 .. n : s[i] \in X
  OBVIOUS
<1>2. F(0) = <<>> /\ \A i \in 1 .. n : F(i) = IF s[i] \in W THEN Append(F(i - 1), s[i]) ELSE F(i - 1)
  <2>1. 1 .. 0 = {}
    OBVIOUS
  <2> QED BY <2>1, SelectFcnStep
<1> HIDE DEF n, F
<1> USE DEF Selects
<1>3. 0 \in Good
  <2>1. 1 .. 0 = {} /\ Len(<<>>) = 0 /\ <<>> \in Seq(X)
    OBVIOUS
  <2>2. Indexes(<<>>, 0, [j \in {} |-> j])
    BY <2>1
  <2>3. 0 \in 0 .. n /\ F(0) \in Seq(X)
    <3>1. 0 \in 0 .. n
      BY <1>1
    <3>2. F(0) = <<>>
      BY <1>2
    <3> QED BY <3>1, <3>2, <2>1
  <2>4. \E h : Indexes(F(0), 0, h)
    BY <1>2, <2>2
  <2> QED BY <2>3, <2>4
<1>4. ASSUME NEW i \in 1 .. n, i - 1 \in Good PROVE i \in Good
  <2>1. i \in 0 .. n /\ i - 1 \in 0 .. n /\ i \in Nat /\ i - 1 \in Nat
        /\ 1 .. i = (1 .. (i - 1)) \cup {i} /\ i \notin 1 .. (i - 1)
    BY <1>1
  <2>2. F(i - 1) \in Seq(X) /\ \E h : Indexes(F(i - 1), i - 1, h)
    BY <1>4
  <2>3. PICK h : Indexes(F(i - 1), i - 1, h)
    BY <2>2
  <2>4. CASE s[i] \notin W
    <3>1. F(i) = F(i - 1)
      BY <1>2, <2>4
    <3>2. Indexes(F(i), i, h)
      BY <2>1, <2>3, <2>4, <3>1
    <3> QED BY <2>1, <2>2, <3>1, <3>2
  <2>5. CASE s[i] \in W
    <3> DEFINE q == F(i - 1)
               m == Len(q)
               h2 == [j \in 1 .. (m + 1) |-> IF j = m + 1 THEN i ELSE h[j]]
    <3>1. F(i) = Append(q, s[i])
      BY <1>2, <2>5
    <3>2. /\ m \in Nat /\ F(i) \in Seq(X) /\ Len(F(i)) = m + 1 /\ F(i)[m + 1] = s[i]
          /\ \A j \in 1 .. m : F(i)[j] = q[j]
      BY <1>1, <2>2, <3>1
    <3>3. /\ h \in [1 .. m -> 1 .. (i - 1)]
          /\ \A j, k \in 1 .. m : h[j] = h[k] => j = k
          /\ {h[j] : j \in 1 .. m} = {j \in 1 .. (i - 1) : s[j] \in W}
          /\ \A j \in 1 .. m : q[j] = s[h[j]]
      BY <2>3
    <3> HIDE DEF q, m
    <3>4. 1 .. (m + 1) = (1 .. m) \cup {m + 1} /\ m + 1 \notin 1 .. m
      BY <3>2
    <3>5. h2[m + 1] = i /\ \A j \in 1 .. m : h2[j] = h[j] /\ h2[j] \in 1 .. (i - 1)
      BY <3>3, <3>4
    <3>6. h2 \in [1 .. (m + 1) -> 1 .. i]
      BY <2>1, <3>3, <3>4
    <3> HIDE DEF h2
    <3>7. \A j, k \in 1 .. (m + 1) : h2[j] = h2[k] => j = k
      BY <2>1, <3>3, <3>4, <3>5
    <3>8. {h2[j] : j \in 1 .. (m + 1)} = {h[j] : j \in 1 .. m} \cup {i}
      BY <3>4, <3>5
    <3>9. {h2[j] : j \in 1 .. (m + 1)} = {j \in 1 .. i : s[j] \in W}
      BY <2>1, <2>5, <3>3, <3>8
    <3>10. \A j \in 1 .. (m + 1) : F(i)[j] = s[h2[j]]
      BY <3>2, <3>3, <3>4, <3>5
    <3>11. Indexes(F(i), i, h2)
      BY <3>2, <3>6, <3>7, <3>9, <3>10
    <3> QED BY <2>1, <3>2, <3>11
  <2> QED BY <2>4, <2>5
<1>5. Good \in SUBSET (0 .. n)
  OBVIOUS
<1> HIDE DEF Good, Selects
<1>6. n \in Good
  <2>1. Good = 0 .. n
    BY <1>1, <1>3, <1>4, <1>5, UpInduction
  <2> QED BY <1>1, <2>1
<1>7. SelectIn(s, W) = F(n)
  BY <1>1, SelectInDef DEF F
<1>8. F(n) \in Seq(X) /\ \E h : Indexes(F(n), n, h)
  BY <1>6 DEF Good
<1> QED BY <1>7, <1>8 DEF n

-----------------------------------------------------------------------------
(* Sums.                                                                   *)

SumOver(g, S) == MapThenSumSet(LAMBDA x : g[x], S)

Pick(s) == CHOOSE x \in s : TRUE

IsSum(g, S, f) ==
    f = [s \in SUBSET S |-> IF s = {} THEN 0 ELSE g[Pick(s)] + f[s \ {Pick(s)}]]

SumFcn(g, S) == CHOOSE f : IsSum(g, S, f)

LEMMA SumOverDef ==
  ASSUME NEW g, NEW S
  PROVE  SumOver(g, S) = SumFcn(g, S)[S]
  BY DEF SumOver, MapThenSumSet, MapThenFoldSet, SumFcn, IsSum, Pick

\* The equation of the sum has a solution, and the sum is one.
LEMMA SumFcnStep ==
  ASSUME NEW S, IsFiniteSet(S), NEW g, \A x \in S : g[x] \in Int, NEW s \in SUBSET S
  PROVE  SumFcn(g, S)[s] = IF s = {} THEN 0 ELSE g[Pick(s)] + SumFcn(g, S)[s \ {Pick(s)}]
<1> DEFINE pick == [t \in SUBSET S |-> Pick(t)]
           step == [x \in S |-> [v \in Int |-> g[x] + v]]
<1>1. \A t \in SUBSET S : t # {} => pick[t] = Pick(t) /\ Pick(t) \in t
  <2>1. \A t \in SUBSET S : t # {} => Pick(t) \in t
    BY DEF Pick
  <2> QED BY <2>1
<1>2. step \in [S -> [Int -> Int]] /\ 0 \in Int
  OBVIOUS
<1>3. PICK f \in [SUBSET S -> Int] : IsFold(S, pick, 0, step, f)
  <2> HIDE DEF pick, step
  <2>1. Picks(S, pick)
    BY <1>1 DEF Picks
  <2> QED BY <1>2, <2>1, FoldExists
<1>4. ASSUME NEW t \in SUBSET S
      PROVE  f[t] = IF t = {} THEN 0 ELSE g[Pick(t)] + f[t \ {Pick(t)}]
  <2>1. CASE t # {}
    <3>1. Pick(t) \in S /\ pick[t] = Pick(t) /\ t \ {Pick(t)} \in SUBSET S
      BY <1>1, <2>1
    <3>2. f[t \ {Pick(t)}] \in Int
      BY <3>1
    <3>3. f[t] = step[pick[t]][f[t \ {pick[t]}]]
      BY <1>3, <2>1 DEF IsFold
    <3> QED BY <2>1, <3>1, <3>2, <3>3
  <2>2. CASE t = {}
    BY <1>3, <2>2 DEF IsFold
  <2> QED BY <2>1, <2>2
<1>5. IsSum(g, S, f)
  BY <1>4 DEF IsSum
<1>6. IsSum(g, S, SumFcn(g, S))
  BY <1>5 DEF SumFcn
<1> QED BY <1>6 DEF IsSum

LEMMA SumFcnType ==
  ASSUME NEW S, IsFiniteSet(S), NEW g, \A x \in S : g[x] \in Int, NEW s \in SUBSET S
  PROVE  SumFcn(g, S)[s] \in Int
<1> DEFINE Good == {t \in SUBSET S : SumFcn(g, S)[t] \in Int}
<1>1. {} \in Good
  BY SumFcnStep
<1>2. ASSUME NEW t \in SUBSET S, t # {}, \A x \in t : t \ {x} \in Good PROVE t \in Good
  <2>1. Pick(t) \in t
    BY <1>2 DEF Pick
  <2>2. SumFcn(g, S)[t] = g[Pick(t)] + SumFcn(g, S)[t \ {Pick(t)}]
    BY <1>2, SumFcnStep
  <2>3. g[Pick(t)] \in Int /\ SumFcn(g, S)[t \ {Pick(t)}] \in Int
    BY <1>2, <2>1
  <2> QED BY <2>2, <2>3
<1>3. Good = SUBSET S
  <2>1. Good \in SUBSET (SUBSET S)
    OBVIOUS
  <2> HIDE DEF Good
  <2> QED BY <1>1, <1>2, <2>1, SubsetInduction
<1> QED BY <1>3

\* The sum over a part does not depend on the whole, nor on what the function
\* is elsewhere.
LEMMA SumFcnLocal ==
  ASSUME NEW S, IsFiniteSet(S), NEW T, IsFiniteSet(T),
         NEW g, \A x \in S : g[x] \in Int, NEW h, \A x \in T : h[x] \in Int,
         NEW s \in SUBSET (S \cap T), \A x \in s : g[x] = h[x]
  PROVE  SumFcn(g, S)[s] = SumFcn(h, T)[s]
<1> DEFINE Good == {t \in SUBSET s : SumFcn(g, S)[t] = SumFcn(h, T)[t]}
<1>1. {} \in Good
  <2>1. {} \in SUBSET S /\ {} \in SUBSET T
    OBVIOUS
  <2> QED BY <2>1, SumFcnStep
<1>2. ASSUME NEW t \in SUBSET s, t # {}, \A x \in t : t \ {x} \in Good PROVE t \in Good
  <2>1. Pick(t) \in t /\ t \in SUBSET S /\ t \in SUBSET T
    BY <1>2 DEF Pick
  <2>2. /\ SumFcn(g, S)[t] = g[Pick(t)] + SumFcn(g, S)[t \ {Pick(t)}]
        /\ SumFcn(h, T)[t] = h[Pick(t)] + SumFcn(h, T)[t \ {Pick(t)}]
    BY <1>2, <2>1, SumFcnStep
  <2> QED BY <1>2, <2>1, <2>2
<1>3. Good = SUBSET s
  <2>1. Good \in SUBSET (SUBSET s) /\ IsFiniteSet(s)
    BY FS_Subset
  <2> HIDE DEF Good
  <2> QED BY <1>1, <1>2, <2>1, SubsetInduction
<1> QED BY <1>3

LEMMA SumOverType ==
  ASSUME NEW S, IsFiniteSet(S), NEW g, \A x \in S : g[x] \in Int
  PROVE  SumOver(g, S) \in Int
  BY SumOverDef, SumFcnType

LEMMA SumOverEmpty == \A g : SumOver(g, {}) = 0
<1> SUFFICES ASSUME NEW g PROVE SumOver(g, {}) = 0
  OBVIOUS
<1>1. IsFiniteSet({}) /\ {} \in SUBSET {} /\ \A x \in {} : g[x] \in Int
  BY FS_EmptySet
<1> QED BY <1>1, SumOverDef, SumFcnStep

LEMMA SumOverSame ==
  ASSUME NEW S, IsFiniteSet(S), NEW g, \A x \in S : g[x] \in Int,
         NEW h, \A x \in S : h[x] = g[x]
  PROVE  SumOver(h, S) = SumOver(g, S)
<1>1. S \in SUBSET (S \cap S) /\ \A x \in S : h[x] \in Int
  OBVIOUS
<1> QED BY <1>1, SumOverDef, SumFcnLocal

\* Any member may be taken out of a sum.
LEMMA SumOverStep ==
  ASSUME NEW S, IsFiniteSet(S), NEW g, \A x \in S : g[x] \in Int, NEW x \in S
  PROVE  SumOver(g, S) = g[x] + SumOver(g, S \ {x})
<1> DEFINE F == SumFcn(g, S)
           Good == {t \in SUBSET S : \A y \in t : F[t] = g[y] + F[t \ {y}]}
<1>1. {} \in Good
  OBVIOUS
<1>2. ASSUME NEW t \in SUBSET S, t # {}, \A y \in t : t \ {y} \in Good PROVE t \in Good
  <2> SUFFICES ASSUME NEW y \in t PROVE F[t] = g[y] + F[t \ {y}]
    OBVIOUS
  <2> DEFINE c == Pick(t)
  <2>1. c \in t /\ F[t] = g[c] + F[t \ {c}]
    <3>1. Pick(t) \in t
      BY DEF Pick
    <3> QED BY <3>1, SumFcnStep
  <2> HIDE DEF c
  <2>2. CASE c # y
    <3>1. F[t \ {c}] = g[y] + F[(t \ {c}) \ {y}]
      BY <1>2, <2>1, <2>2
    <3>2. F[t \ {y}] = g[c] + F[(t \ {y}) \ {c}]
      BY <1>2, <2>1, <2>2
    <3>3. (t \ {c}) \ {y} = (t \ {y}) \ {c} /\ (t \ {y}) \ {c} \in SUBSET S
      OBVIOUS
    <3>4. F[(t \ {y}) \ {c}] \in Int /\ g[y] \in Int /\ g[c] \in Int
      BY <2>1, <3>3, SumFcnType
    <3> DEFINE r == F[(t \ {y}) \ {c}]
    <3>5. F[t \ {c}] = g[y] + r /\ F[t \ {y}] = g[c] + r
      BY <3>1, <3>2, <3>3
    <3>6. F[t] = g[c] + (g[y] + r)
      BY <2>1, <3>5
    <3>7. r \in Int
      BY <3>4
    <3> HIDE DEF r, F
    <3>8. g[c] + (g[y] + r) = g[y] + (g[c] + r)
      BY <3>4, <3>7
    <3> QED BY <3>5, <3>6, <3>8
  <2> QED BY <2>1, <2>2
<1>3. Good = SUBSET S
  <2>1. Good \in SUBSET (SUBSET S)
    OBVIOUS
  <2> HIDE DEF Good
  <2> QED BY <1>1, <1>2, <2>1, SubsetInduction
<1>4. F[S] = g[x] + F[S \ {x}]
  BY <1>3
<1>5. F[S \ {x}] = SumFcn(g, S \ {x})[S \ {x}]
  <2>1. /\ IsFiniteSet(S \ {x}) /\ S \ {x} \in SUBSET (S \cap (S \ {x}))
        /\ \A y \in S \ {x} : g[y] \in Int
    BY FS_Subset
  <2> QED BY <2>1, SumFcnLocal
<1> QED BY <1>4, <1>5, SumOverDef

\* A sum of naturals is a natural.
LEMMA SumOverNat ==
  ASSUME NEW S, IsFiniteSet(S), NEW g, \A x \in S : g[x] \in Nat
  PROVE  SumOver(g, S) \in Nat
<1> DEFINE Good == {s \in SUBSET S : SumOver(g, s) \in Nat}
<1>1. {} \in Good
  BY SumOverEmpty
<1>2. ASSUME NEW s \in SUBSET S, s # {}, \A x \in s : s \ {x} \in Good PROVE s \in Good
  <2>1. PICK x \in s : TRUE
    BY <1>2
  <2>2. IsFiniteSet(s) /\ \A y \in s : g[y] \in Int
    BY FS_Subset
  <2>3. SumOver(g, s) = g[x] + SumOver(g, s \ {x})
    BY <2>2, SumOverStep
  <2>4. SumOver(g, s \ {x}) \in Nat /\ g[x] \in Nat
    BY <1>2
  <2> QED BY <2>3, <2>4
<1>3. Good = SUBSET S
  <2>1. Good \in SUBSET (SUBSET S)
    OBVIOUS
  <2> HIDE DEF Good
  <2> QED BY <1>1, <1>2, <2>1, SubsetInduction
<1> QED BY <1>3

\* A sum of naturals is no less than the sum of two of them.
LEMMA SumOverTwo ==
  ASSUME NEW S, IsFiniteSet(S), NEW g, \A x \in S : g[x] \in Nat,
         NEW x \in S, NEW y \in S, x # y
  PROVE  g[x] + g[y] <= SumOver(g, S)
<1>1. IsFiniteSet(S \ {x}) /\ IsFiniteSet((S \ {x}) \ {y}) /\ y \in S \ {x}
  BY FS_RemoveElement
<1>2. (\A z \in S : g[z] \in Int) /\ (\A z \in S \ {x} : g[z] \in Int)
  OBVIOUS
<1>3. SumOver(g, S) = g[x] + SumOver(g, S \ {x})
  BY <1>2, SumOverStep
<1>4. SumOver(g, S \ {x}) = g[y] + SumOver(g, (S \ {x}) \ {y})
  BY <1>1, <1>2, SumOverStep
<1>5. \A z \in (S \ {x}) \ {y} : g[z] \in Nat
  OBVIOUS
<1>6. SumOver(g, (S \ {x}) \ {y}) \in Nat
  BY <1>1, <1>5, SumOverNat
<1>7. g[x] \in Nat /\ g[y] \in Nat
  OBVIOUS
<1> QED BY <1>3, <1>4, <1>6, <1>7

\* A change of one value changes the sum by as much.
LEMMA SumOverChange ==
  ASSUME NEW S, IsFiniteSet(S), NEW g, \A x \in S : g[x] \in Int,
         NEW h, NEW x \in S, h[x] \in Int, \A y \in S \ {x} : h[y] = g[y]
  PROVE  SumOver(h, S) = SumOver(g, S) + (h[x] - g[x])
<1>1. IsFiniteSet(S \ {x}) /\ (\A y \in S \ {x} : g[y] \in Int) /\ (\A y \in S : h[y] \in Int)
  BY FS_RemoveElement
<1>2. SumOver(g, S) = g[x] + SumOver(g, S \ {x})
  BY SumOverStep
<1>3. SumOver(h, S) = h[x] + SumOver(h, S \ {x})
  BY <1>1, SumOverStep
<1>4. SumOver(h, S \ {x}) = SumOver(g, S \ {x})
  BY <1>1, SumOverSame
<1>5. SumOver(g, S \ {x}) \in Int /\ g[x] \in Int
  BY <1>1, SumOverType
<1> QED BY <1>2, <1>3, <1>4, <1>5

\* A sum of zeros is zero.
LEMMA SumOverZero ==
  ASSUME NEW S, IsFiniteSet(S), NEW g, \A x \in S : g[x] = 0
  PROVE  SumOver(g, S) = 0
<1> DEFINE Good == {s \in SUBSET S : SumOver(g, s) = 0}
<1>1. {} \in Good
  BY SumOverEmpty
<1>2. ASSUME NEW s \in SUBSET S, s # {}, \A x \in s : s \ {x} \in Good PROVE s \in Good
  <2>1. PICK x \in s : TRUE
    BY <1>2
  <2>2. IsFiniteSet(s) /\ \A y \in s : g[y] \in Int
    BY FS_Subset
  <2>3. SumOver(g, s) = g[x] + SumOver(g, s \ {x})
    BY <2>2, SumOverStep
  <2> QED BY <1>2, <2>3
<1>3. Good = SUBSET S
  <2>1. Good \in SUBSET (SUBSET S)
    OBVIOUS
  <2> HIDE DEF Good
  <2> QED BY <1>1, <1>2, <2>1, SubsetInduction
<1> QED BY <1>3

-----------------------------------------------------------------------------
(* Sums of sums, and members that add nothing.                             *)

LEMMA SumOverPlus ==
  ASSUME NEW S, IsFiniteSet(S), NEW g, NEW h, NEW k,
         \A x \in S : g[x] \in Int /\ h[x] \in Int /\ k[x] = g[x] + h[x]
  PROVE  SumOver(k, S) = SumOver(g, S) + SumOver(h, S)
<1> DEFINE Good == {s \in SUBSET S : SumOver(k, s) = SumOver(g, s) + SumOver(h, s)}
<1>1. {} \in Good
  BY SumOverEmpty
<1>2. ASSUME NEW s \in SUBSET S, s # {}, \A x \in s : s \ {x} \in Good PROVE s \in Good
  <2>1. PICK x \in s : TRUE
    BY <1>2
  <2>2. /\ IsFiniteSet(s) /\ IsFiniteSet(s \ {x})
        /\ \A y \in s : g[y] \in Int /\ h[y] \in Int /\ k[y] \in Int
    BY FS_Subset, FS_RemoveElement
  <2>3. /\ SumOver(k, s) = k[x] + SumOver(k, s \ {x})
        /\ SumOver(g, s) = g[x] + SumOver(g, s \ {x})
        /\ SumOver(h, s) = h[x] + SumOver(h, s \ {x})
    BY <2>2, SumOverStep
  <2>4. SumOver(k, s \ {x}) = SumOver(g, s \ {x}) + SumOver(h, s \ {x})
    BY <1>2
  <2>5. SumOver(g, s \ {x}) \in Int /\ SumOver(h, s \ {x}) \in Int
    BY <2>2, SumOverType
  <2>6. k[x] = g[x] + h[x] /\ g[x] \in Int /\ h[x] \in Int
    OBVIOUS
  <2>7. SumOver(k, s) = SumOver(g, s) + SumOver(h, s)
    BY <2>3, <2>4, <2>5, <2>6
  <2> QED BY <2>7
<1>3. Good = SUBSET S
  <2>1. Good \in SUBSET (SUBSET S)
    OBVIOUS
  <2> HIDE DEF Good
  <2> QED BY <1>1, <1>2, <2>1, SubsetInduction
<1> QED BY <1>3

LEMMA SumOverZeros ==
  ASSUME NEW S, IsFiniteSet(S), NEW T \in SUBSET S, NEW g, \A x \in S : g[x] \in Int,
         \A x \in S \ T : g[x] = 0
  PROVE  SumOver(g, S) = SumOver(g, T)
<1> DEFINE Z == S \ T
           Good == {s \in SUBSET Z : SumOver(g, T \cup s) = SumOver(g, T)}
<1>0. IsFiniteSet(Z)
  BY FS_Subset
<1>1. {} \in Good
  <2>1. T \cup {} = T
    OBVIOUS
  <2> QED BY <2>1
<1>2. ASSUME NEW s \in SUBSET Z, s # {}, \A x \in s : s \ {x} \in Good PROVE s \in Good
  <2>1. PICK x \in s : TRUE
    BY <1>2
  <2>2. /\ x \in T \cup s /\ (T \cup s) \ {x} = T \cup (s \ {x}) /\ g[x] = 0
        /\ T \cup s \in SUBSET S /\ \A y \in T \cup s : g[y] \in Int
    OBVIOUS
  <2>3. IsFiniteSet(T \cup s)
    BY <2>2, FS_Subset
  <2>4. SumOver(g, T \cup s) = g[x] + SumOver(g, (T \cup s) \ {x})
    BY <2>2, <2>3, SumOverStep
  <2>5. SumOver(g, T \cup (s \ {x})) = SumOver(g, T)
    BY <1>2
  <2>6. SumOver(g, T) \in Int
    BY FS_Subset, SumOverType
  <2>7. SumOver(g, (T \cup s) \ {x}) = SumOver(g, T)
    <3>1. (T \cup s) \ {x} = T \cup (s \ {x})
      BY <2>2
    <3> QED BY <2>5, <3>1, Zenon
  <2>8. SumOver(g, T \cup s) = 0 + SumOver(g, T)
    BY <2>2, <2>4, <2>7, Zenon
  <2> QED BY <2>6, <2>8
<1>3. Good = SUBSET Z
  <2>1. Good \in SUBSET (SUBSET Z)
    OBVIOUS
  <2> HIDE DEF Good, Z
  <2> QED BY <1>0, <1>1, <1>2, <2>1, SubsetInduction
<1>4. Z \in Good
  BY <1>3
<1>5. SumOver(g, T \cup Z) = SumOver(g, T)
  BY <1>4, Zenon
<1>6. T \cup Z = S
  OBVIOUS
<1> QED BY <1>5, <1>6, Zenon

\* A set may be summed over in two parts.
LEMMA SumOverSplit ==
  ASSUME NEW S, IsFiniteSet(S), NEW A \in SUBSET S, NEW g, \A x \in S : g[x] \in Int
  PROVE  SumOver(g, S) = SumOver(g, A) + SumOver(g, S \ A)
<1> DEFINE B == S \ A
           a == [x \in S |-> IF x \in A THEN g[x] ELSE 0]
           b == [x \in S |-> IF x \in B THEN g[x] ELSE 0]
<1>1. \A x \in S : a[x] \in Int /\ b[x] \in Int /\ g[x] = a[x] + b[x]
  OBVIOUS
<1>2. (\A x \in S \ A : a[x] = 0) /\ (\A x \in S \ B : b[x] = 0)
  OBVIOUS
<1>3. (\A x \in A : a[x] = g[x]) /\ (\A x \in B : b[x] = g[x])
  OBVIOUS
<1>4. B \in SUBSET S /\ IsFiniteSet(A) /\ IsFiniteSet(B)
  BY FS_Subset
<1> HIDE DEF a, b, B
<1>5. SumOver(g, S) = SumOver(a, S) + SumOver(b, S)
  BY <1>1, SumOverPlus
<1>6. SumOver(a, S) = SumOver(a, A)
  BY <1>1, <1>2, SumOverZeros
<1>7. SumOver(b, S) = SumOver(b, B)
  BY <1>1, <1>2, <1>4, SumOverZeros
<1>8. SumOver(a, A) = SumOver(g, A)
  BY <1>3, <1>4, SumOverSame
<1>9. SumOver(b, B) = SumOver(g, B)
  <2>1. \A x \in B : g[x] \in Int
    BY <1>4
  <2> QED BY <1>3, <1>4, <2>1, SumOverSame
<1> QED BY <1>5, <1>6, <1>7, <1>8, <1>9 DEF B

ImageOf(h, S) == {h[x] : x \in S}

\* A sum may be taken over other names of its members.
LEMMA SumOverImage ==
  ASSUME NEW S, IsFiniteSet(S), NEW U, IsFiniteSet(U), NEW h \in [S -> U],
         \A x, y \in S : h[x] = h[y] => x = y,
         NEW g, \A u \in U : g[u] \in Int, NEW k, \A x \in S : k[x] = g[h[x]]
  PROVE  SumOver(k, S) = SumOver(g, ImageOf(h, S))
<1> DEFINE Good == {s \in SUBSET S : SumOver(k, s) = SumOver(g, {h[x] : x \in s})}
<1>1. {} \in Good
  <2>1. {h[x] : x \in {}} = {}
    OBVIOUS
  <2> QED BY <2>1, SumOverEmpty
<1>2. ASSUME NEW s \in SUBSET S, s # {}, \A x \in s : s \ {x} \in Good PROVE s \in Good
  <2> DEFINE T == {h[x] : x \in s}
  <2>1. PICK x \in s : TRUE
    BY <1>2
  <2>2. IsFiniteSet(s) /\ \A y \in s : k[y] \in Int
    BY FS_Subset
  <2>3. T \in SUBSET U /\ h[x] \in T
    OBVIOUS
  <2>4. IsFiniteSet(T) /\ \A u \in T : g[u] \in Int
    BY <2>3, FS_Subset
  <2>5. T \ {h[x]} = {h[y] : y \in s \ {x}}
    OBVIOUS
  <2> HIDE DEF T
  <2>6. SumOver(k, s) = k[x] + SumOver(k, s \ {x})
    BY <2>2, SumOverStep
  <2>7. SumOver(g, T) = g[h[x]] + SumOver(g, T \ {h[x]})
    BY <2>3, <2>4, SumOverStep
  <2>8. SumOver(k, s \ {x}) = SumOver(g, {h[y] : y \in s \ {x}})
    BY <1>2
  <2>9. SumOver(k, s) = SumOver(g, T)
    BY <2>5, <2>6, <2>7, <2>8
  <2> QED BY <2>9 DEF T
<1>3. Good = SUBSET S
  <2>1. Good \in SUBSET (SUBSET S)
    OBVIOUS
  <2> HIDE DEF Good
  <2>2. \A s \in SUBSET S : (s # {} /\ \A x \in s : s \ {x} \in Good) => s \in Good
    BY <1>2
  <2> QED BY <1>1, <2>1, <2>2, SubsetInduction, Zenon
<1> QED BY <1>3 DEF ImageOf

\* A sum over the members is the sum, over the names h gives them, of what the
\* members with that name add.
LEMMA SumOverNames ==
  ASSUME NEW S, IsFiniteSet(S), NEW U, IsFiniteSet(U), NEW h \in [S -> U],
         NEW g, \A x \in S : g[x] \in Int,
         NEW cell, \A u \in U : \A x \in S : cell[u][x] = IF h[x] = u THEN g[x] ELSE 0,
         NEW k, \A u \in U : k[u] = SumOver(cell[u], S)
  PROVE  SumOver(g, S) = SumOver(k, U)
<1> DEFINE Part(s) == [u \in U |-> SumOver(cell[u], s)]
           Good == {s \in SUBSET S : SumOver(g, s) = SumOver(Part(s), U)}
<1>0. \A u \in U : \A x \in S : cell[u][x] \in Int
  OBVIOUS
<1>1. {} \in Good
  <2>1. \A u \in U : Part({})[u] = 0
    BY SumOverEmpty
  <2>2. SumOver(Part({}), U) = 0
    <3> HIDE DEF Part
    <3> QED BY <2>1, SumOverZero
  <2> QED BY <2>2, SumOverEmpty
<1>2. ASSUME NEW s \in SUBSET S, s # {}, \A x \in s : s \ {x} \in Good PROVE s \in Good
  <2>1. PICK x \in s : TRUE
    BY <1>2
  <2> DEFINE r == s \ {x}
             v == h[x]
  <2>2. /\ IsFiniteSet(s) /\ IsFiniteSet(r) /\ v \in U /\ x \in S
        /\ \A y \in s : g[y] \in Int
    BY FS_Subset, FS_RemoveElement
  <2>3. SumOver(g, s) = g[x] + SumOver(g, r)
    BY <2>2, SumOverStep
  <2>4. \A u \in U : SumOver(cell[u], r) \in Int /\ SumOver(cell[u], s) = cell[u][x] + SumOver(cell[u], r)
    <3> SUFFICES ASSUME NEW u \in U
                 PROVE  SumOver(cell[u], r) \in Int /\ SumOver(cell[u], s) = cell[u][x] + SumOver(cell[u], r)
      OBVIOUS
    <3> DEFINE c == cell[u]
    <3>1. (\A y \in s : c[y] \in Int) /\ (\A y \in r : c[y] \in Int)
      BY <1>0
    <3> HIDE DEF c
    <3>2. SumOver(c, r) \in Int /\ SumOver(c, s) = c[x] + SumOver(c, r)
      BY <2>2, <3>1, SumOverType, SumOverStep
    <3> QED BY <3>2 DEF c
  <2>5. (\A u \in U : cell[u][x] = IF v = u THEN g[x] ELSE 0) /\ g[x] \in Int
    BY <2>2
  <2>6. /\ \A u \in U : Part(r)[u] \in Int
        /\ Part(s)[v] \in Int /\ Part(s)[v] = g[x] + Part(r)[v]
        /\ \A u \in U \ {v} : Part(s)[u] = Part(r)[u]
    <3> HIDE DEF r, v
    <3>1. /\ \A u \in U : Part(r)[u] = SumOver(cell[u], r)
          /\ \A u \in U : Part(s)[u] = SumOver(cell[u], s)
      OBVIOUS
    <3> HIDE DEF Part
    <3> QED BY <2>2, <2>4, <2>5, <3>1
  <2>7. SumOver(g, r) = SumOver(Part(r), U)
    BY <1>2
  <2> HIDE DEF Part, r, v
  <2>8. SumOver(Part(s), U) = SumOver(Part(r), U) + (Part(s)[v] - Part(r)[v])
    BY <2>2, <2>6, SumOverChange
  <2>9. SumOver(Part(r), U) \in Int
    BY <2>6, SumOverType
  <2>10. Part(s)[v] - Part(r)[v] = g[x]
    BY <2>2, <2>5, <2>6
  <2>11. SumOver(g, s) = SumOver(Part(s), U)
    BY <2>3, <2>5, <2>7, <2>8, <2>9, <2>10
  <2> QED BY <2>11
<1>3. Good = SUBSET S
  <2>1. Good \in SUBSET (SUBSET S)
    OBVIOUS
  <2> HIDE DEF Good
  <2>2. \A s \in SUBSET S : (s # {} /\ \A x \in s : s \ {x} \in Good) => s \in Good
    BY <1>2
  <2> QED BY <1>1, <2>1, <2>2, SubsetInduction, Zenon
<1>4. SumOver(g, S) = SumOver(Part(S), U)
  BY <1>3
<1>5. SumOver(Part(S), U) = SumOver(k, U)
  <2>1. \A u \in U : SumOver(cell[u], S) \in Int
    <3> SUFFICES ASSUME NEW u \in U PROVE SumOver(cell[u], S) \in Int
      OBVIOUS
    <3> DEFINE c == cell[u]
    <3>1. \A y \in S : c[y] \in Int
      BY <1>0
    <3> HIDE DEF c
    <3>2. SumOver(c, S) \in Int
      BY <3>1, SumOverType
    <3> QED BY <3>2 DEF c
  <2>2. \A u \in U : k[u] \in Int /\ Part(S)[u] = k[u]
    BY <2>1
  <2> HIDE DEF Part
  <2> QED BY <2>2, SumOverSame
<1> QED BY <1>4, <1>5

\* Sums compare like their terms, and a factor may be taken out.
LEMMA SumOverLeq ==
  ASSUME NEW S, IsFiniteSet(S), NEW g, NEW h, \A x \in S : g[x] \in Int /\ h[x] \in Int /\ g[x] <= h[x]
  PROVE  SumOver(g, S) <= SumOver(h, S)
<1> DEFINE Good == {s \in SUBSET S : SumOver(g, s) <= SumOver(h, s)}
<1>1. {} \in Good
  BY SumOverEmpty
<1>2. ASSUME NEW s \in SUBSET S, s # {}, \A x \in s : s \ {x} \in Good PROVE s \in Good
  <2>1. PICK x \in s : TRUE
    BY <1>2
  <2>2. IsFiniteSet(s) /\ IsFiniteSet(s \ {x}) /\ (\A y \in s : g[y] \in Int) /\ (\A y \in s : h[y] \in Int)
    BY FS_Subset, FS_RemoveElement
  <2>3. SumOver(g, s) = g[x] + SumOver(g, s \ {x}) /\ SumOver(h, s) = h[x] + SumOver(h, s \ {x})
    BY <2>2, SumOverStep
  <2>4. SumOver(g, s \ {x}) \in Int /\ SumOver(h, s \ {x}) \in Int
    BY <2>2, SumOverType
  <2>5. SumOver(g, s \ {x}) <= SumOver(h, s \ {x}) /\ g[x] \in Int /\ h[x] \in Int /\ g[x] <= h[x]
    BY <1>2
  <2>6. SumOver(g, s) <= SumOver(h, s)
    BY <2>3, <2>4, <2>5
  <2> QED BY <2>6
<1>3. Good = SUBSET S
  <2>1. Good \in SUBSET (SUBSET S)
    OBVIOUS
  <2> HIDE DEF Good
  <2> QED BY <1>1, <1>2, <2>1, SubsetInduction
<1> QED BY <1>3

LEMMA SumOverTimes ==
  ASSUME NEW S, IsFiniteSet(S), NEW c \in Int, NEW g, NEW h, \A x \in S : g[x] \in Int /\ h[x] = c * g[x]
  PROVE  SumOver(h, S) = c * SumOver(g, S)
<1> DEFINE Good == {s \in SUBSET S : SumOver(h, s) = c * SumOver(g, s)}
<1>1. {} \in Good
  BY SumOverEmpty
<1>2. ASSUME NEW s \in SUBSET S, s # {}, \A x \in s : s \ {x} \in Good PROVE s \in Good
  <2>1. PICK x \in s : TRUE
    BY <1>2
  <2>2. IsFiniteSet(s) /\ IsFiniteSet(s \ {x}) /\ (\A y \in s : g[y] \in Int) /\ (\A y \in s : h[y] \in Int)
    BY FS_Subset, FS_RemoveElement
  <2>3. SumOver(g, s) = g[x] + SumOver(g, s \ {x}) /\ SumOver(h, s) = h[x] + SumOver(h, s \ {x})
    BY <2>2, SumOverStep
  <2>4. SumOver(g, s \ {x}) \in Int /\ g[x] \in Int /\ h[x] = c * g[x]
    BY <2>2, SumOverType
  <2>5. SumOver(h, s \ {x}) = c * SumOver(g, s \ {x})
    BY <1>2
  <2> DEFINE a == g[x]
             b == SumOver(g, s \ {x})
  <2>6. a \in Int /\ b \in Int /\ SumOver(g, s) = a + b /\ SumOver(h, s) = c * a + c * b
    BY <2>3, <2>4, <2>5
  <2> HIDE DEF a, b
  <2>7. c * (a + b) = c * a + c * b
    BY <2>6
  <2>8. SumOver(h, s) = c * SumOver(g, s)
    BY <2>6, <2>7
  <2> QED BY <2>8
<1>3. Good = SUBSET S
  <2>1. Good \in SUBSET (SUBSET S)
    OBVIOUS
  <2> HIDE DEF Good
  <2> QED BY <1>1, <1>2, <2>1, SubsetInduction
<1> QED BY <1>3

-----------------------------------------------------------------------------
(* Residues: the arithmetic of a word of m values.                         *)

LEMMA DivMod ==
  ASSUME NEW m \in Nat, m > 0, NEW x \in Int
  PROVE  x = m * (x \div m) + (x % m) /\ x % m \in 0 .. (m - 1) /\ x \div m \in Int
  OBVIOUS

LEMMA TimesOne ==
  ASSUME NEW m \in Nat, NEW k \in Int, k >= 1
  PROVE  m * k >= m
<1>1. k - 1 \in Nat
  OBVIOUS
<1>2. m * (k - 1) \in Nat
  BY <1>1
<1>3. m * k = m * (k - 1) + m
  OBVIOUS
<1> QED BY <1>2, <1>3

\* The residue is the only remainder below m.
LEMMA ModUnique ==
  ASSUME NEW m \in Nat, m > 0, NEW x \in Int, NEW k \in Int, NEW r \in 0 .. (m - 1), x = m * k + r
  PROVE  x % m = r
<1> DEFINE q == x \div m
           s == x % m
<1>1. x = m * q + s /\ s \in 0 .. (m - 1) /\ q \in Int
  BY DivMod
<1> HIDE DEF q, s
<1>2. m * (k - q) = s - r
  BY <1>1
<1>3. ASSUME k - q >= 1 PROVE FALSE
  BY <1>1, <1>2, <1>3, TimesOne
<1>4. ASSUME q - k >= 1 PROVE FALSE
  <2>1. m * (q - k) >= m
    BY <1>1, <1>4, TimesOne
  <2>2. m * (q - k) = r - s
    BY <1>1
  <2> QED BY <1>1, <2>1, <2>2
<1>5. k = q
  BY <1>1, <1>3, <1>4
<1>6. s = r
  BY <1>1, <1>5
<1> QED BY <1>6 DEF s

LEMMA ModSmall ==
  ASSUME NEW m \in Nat, m > 0, NEW x \in 0 .. (m - 1)
  PROVE  x % m = x
  OBVIOUS

\* A residue may be taken early.
LEMMA ModAdd ==
  ASSUME NEW m \in Nat, m > 0, NEW x \in Int, NEW w \in Int
  PROVE  ((x % m) + w) % m = (x + w) % m
<1> DEFINE q == x \div m
           s == x % m
           k == (s + w) \div m
           r == (s + w) % m
<1>1. x = m * q + s /\ s \in 0 .. (m - 1) /\ q \in Int
  BY DivMod
<1>2. s + w \in Int
  BY <1>1
<1>3. s + w = m * k + r /\ r \in 0 .. (m - 1) /\ k \in Int
  BY <1>2, DivMod
<1> HIDE DEF q, s, k, r
<1>4. x + w = m * (q + k) + r
  BY <1>1, <1>3
<1>5. (x + w) % m = r
  <2>1. x + w \in Int /\ q + k \in Int
    BY <1>1, <1>3
  <2> QED BY <1>3, <1>4, <2>1, ModUnique
<1> QED BY <1>5 DEF r, s

\* Products and quotients keep the order.
LEMMA TimesMono ==
  ASSUME NEW a \in Nat, NEW b \in Nat, NEW c \in Nat, a <= b
  PROVE  a * c <= b * c /\ a * c \in Nat /\ b * c \in Nat
<1>1. b - a \in Nat
  OBVIOUS
<1>2. (b - a) * c \in Nat
  BY <1>1
<1>3. b * c = a * c + (b - a) * c /\ a * c \in Nat /\ b * c \in Nat
  OBVIOUS
<1> DEFINE x == a * c
           y == b * c
           z == (b - a) * c
<1>4. x \in Nat /\ y \in Nat /\ z \in Nat /\ y = x + z
  BY <1>2, <1>3
<1> HIDE DEF x, y, z
<1>5. x <= y
  BY <1>4
<1> QED BY <1>3, <1>5 DEF x, y

\* m * p <= m * r only if p <= r.
LEMMA TimesCancel ==
  ASSUME NEW m \in Nat, m > 0, NEW p \in Int, NEW r \in Int, m * p <= m * r
  PROVE  p <= r
<1> SUFFICES ASSUME p - r >= 1 PROVE FALSE
  OBVIOUS
<1>1. m * (p - r) >= m
  BY TimesOne
<1>2. m * (p - r) = m * p - m * r
  OBVIOUS
<1> DEFINE x == m * p
           y == m * r
<1>3. x \in Int /\ y \in Int /\ x <= y /\ x - y >= m
  BY <1>1, <1>2
<1> HIDE DEF x, y
<1> QED BY <1>3

LEMMA DivMono ==
  ASSUME NEW m \in Nat, m > 0, NEW a \in Int, NEW b \in Int, a <= b
  PROVE  a \div m <= b \div m
<1> DEFINE p == a \div m
           q == b \div m
           s == a % m
           t == b % m
<1>1. a = m * p + s /\ s \in 0 .. (m - 1) /\ p \in Int /\ b = m * q + t /\ t \in 0 .. (m - 1) /\ q \in Int
  BY DivMod
<1> HIDE DEF p, q, s, t
<1> SUFFICES ASSUME p - q >= 1 PROVE FALSE
  BY <1>1 DEF p, q
<1>2. m * (p - q) >= m
  BY <1>1, TimesOne
<1>3. m * (p - q) = m * p - m * q
  BY <1>1
<1> DEFINE x == m * p
           y == m * q
<1>4. x \in Int /\ y \in Int /\ x - y >= m /\ a = x + s /\ b = y + t
  BY <1>1, <1>2, <1>3
<1> HIDE DEF x, y
<1> QED BY <1>1, <1>4

LEMMA DivNat ==
  ASSUME NEW m \in Nat, m > 0, NEW a \in Nat
  PROVE  a \div m \in Nat /\ m * (a \div m) <= a
<1> DEFINE p == a \div m
           s == a % m
<1>1. a = m * p + s /\ s \in 0 .. (m - 1) /\ p \in Int
  BY DivMod
<1>2. 0 \div m = 0
  OBVIOUS
<1>3. 0 <= p
  BY <1>2, DivMono
<1> DEFINE x == m * p
<1>4. x \in Int /\ a = x + s
  BY <1>1
<1> HIDE DEF p, s, x
<1>5. x <= a /\ p \in Nat
  BY <1>1, <1>3, <1>4
<1> QED BY <1>5 DEF x, p

-----------------------------------------------------------------------------
(* The exchange sort.                                                      *)

\* The orders of n members of S.
Orders(S, n) == {f \in [1 .. n -> S] : \A i, j \in 1 .. n : i # j => f[i] # f[j]}

LEMMA OrdersAre ==
  ASSUME NEW S, NEW n, n = Cardinality(S)
  PROVE  SetToSeqs(S) = Orders(S, n)
  BY DEF SetToSeqs, Orders

LEMMA OrderIsSeq ==
  ASSUME NEW S, NEW n \in Nat, NEW t \in Orders(S, n)
  PROVE  /\ t \in Seq(S) /\ Len(t) = n /\ DOMAIN t = 1 .. n
         /\ \A i \in 1 .. n : t[i] \in S
  BY DEF Orders

\* What the exchange sort can sort by: nothing comes before what comes before it.
StrictOrder(S, before) ==
    /\ \A x, y \in S : <<x, y>> \in before => <<y, x>> \notin before
    /\ \A x, y, z \in S : <<x, y>> \in before /\ <<y, z>> \in before => <<x, z>> \in before

LEMMA ExchangedOK ==
  ASSUME NEW S, NEW n \in Nat, NEW before, StrictOrder(S, before),
         NEW t \in Orders(S, n), NEW i \in 1 .. n, NEW j \in 1 .. n, i < j
  PROVE  LET u == Exchanged(t, i, j, before)
         IN  /\ u \in Orders(S, n)
             /\ \A x \in 1 .. n : x # i /\ x # j => u[x] = t[x]
             /\ (u[i] = t[i] /\ u[j] = t[j]) \/ (u[i] = t[j] /\ u[j] = t[i])
             /\ \A x \in S : <<x, t[i]>> \notin before => <<x, u[i]>> \notin before
             /\ <<u[j], u[i]>> \notin before
<1> DEFINE u == Exchanged(t, i, j, before)
<1>1. /\ t \in [1 .. n -> S] /\ i # j
      /\ \A x, y \in 1 .. n : x # y => t[x] # t[y]
      /\ t[i] \in S /\ t[j] \in S
  BY DEF Orders
<1>2. CASE <<t[j], t[i]>> \in before
  <2>1. u = [t EXCEPT ![i] = t[j], ![j] = t[i]]
    BY <1>2 DEF Exchanged
  <2>2. u = [x \in 1 .. n |-> IF x = j THEN t[i] ELSE IF x = i THEN t[j] ELSE t[x]]
    BY <1>1, <2>1
  <2> HIDE DEF u
  <2>3. u \in [1 .. n -> S] /\ u[i] = t[j] /\ u[j] = t[i] /\ \A x \in 1 .. n : x # i /\ x # j => u[x] = t[x]
    BY <1>1, <2>2
  <2>4. ASSUME NEW x \in 1 .. n, NEW y \in 1 .. n, x # y PROVE u[x] # u[y]
    BY <1>1, <2>3, <2>4
  <2>5. u \in Orders(S, n)
    BY <2>3, <2>4 DEF Orders
  <2>6. \A x \in S : <<x, t[i]>> \notin before => <<x, t[j]>> \notin before
    BY <1>1, <1>2 DEF StrictOrder
  <2>7. <<t[i], t[j]>> \notin before
    BY <1>1, <1>2 DEF StrictOrder
  <2> QED BY <2>3, <2>5, <2>6, <2>7 DEF u
<1>3. CASE <<t[j], t[i]>> \notin before
  <2>1. u = t
    BY <1>3 DEF Exchanged
  <2> HIDE DEF u
  <2> QED BY <1>1, <1>3, <2>1 DEF u
<1> QED BY <1>2, <1>3

\* The inner loop.
PlaceFcn(s, i, before) ==
    CHOOSE f : f = [t \in SUBSET DOMAIN [k \in 1 .. Len(s) - i |-> i + k] |-> IF t = {} THEN s ELSE
        Exchanged(f[t \ {Max(t)}], i, [k \in 1 .. Len(s) - i |-> i + k][Max(t)], before)]

LEMMA PlacedDef ==
  ASSUME NEW s, NEW i, NEW before
  PROVE  Placed(s, i, before) = PlaceFcn(s, i, before)[DOMAIN [k \in 1 .. Len(s) - i |-> i + k]]
  BY DEF Placed, FoldLeft, MapThenFoldSet, PlaceFcn

\* What place i and the places behind it hold after k rounds.
PlacedUpTo(s, t, n, i, k, before) ==
    /\ \A x \in 1 .. (i - 1) : t[x] = s[x]
    /\ \A x \in i .. n : \E y \in i .. n : t[x] = s[y]
    /\ \A y \in i .. i + k : <<t[y], t[i]>> \notin before

LEMMA PlacedOK ==
  ASSUME NEW S, NEW n \in Nat, NEW before, StrictOrder(S, before),
         NEW s \in Orders(S, n), NEW i \in 1 .. (n - 1)
  PROVE  Placed(s, i, before) \in Orders(S, n) /\ PlacedUpTo(s, Placed(s, i, before), n, i, n - i, before)
<1> DEFINE m == n - i
           V == Orders(S, n)
           step == [k \in 1 .. m |-> [t \in V |-> Exchanged(t, i, i + k, before)]]
           p == PlaceFcn(s, i, before)
           Eq(f) == f = [t \in SUBSET (1 .. m) |-> IF t = {} THEN s ELSE
                            Exchanged(f[t \ {Max(t)}], i, i + Max(t), before)]
<1>1. /\ Len(s) - i = m /\ m \in Nat /\ DOMAIN [k \in 1 .. Len(s) - i |-> i + k] = 1 .. m
      /\ \A k \in 1 .. m : i + k \in 1 .. n /\ i < i + k
      /\ i \in 1 .. n
  BY OrderIsSeq
<1>2. step \in [1 .. m -> [V -> V]]
  <2>1. ASSUME NEW k \in 1 .. m, NEW t \in V PROVE Exchanged(t, i, i + k, before) \in V
    BY <1>1, <2>1, ExchangedOK
  <2> HIDE DEF V, m
  <2> QED BY <2>1
<1>3. \A k \in 1 .. m : \A t \in V : step[k][t] = Exchanged(t, i, i + k, before)
  <2> HIDE DEF V, m
  <2> QED OBVIOUS
<1>4. PlaceFcn(s, i, before) = CHOOSE f : Eq(f)
  <2>1. \A f : Eq(f) <=> f = [t \in SUBSET DOMAIN [k \in 1 .. Len(s) - i |-> i + k] |-> IF t = {} THEN s ELSE
        Exchanged(f[t \ {Max(t)}], i, [k \in 1 .. Len(s) - i |-> i + k][Max(t)], before)]
    <3> SUFFICES ASSUME NEW f, NEW t \in SUBSET (1 .. m), t # {}
                 PROVE  [k \in 1 .. Len(s) - i |-> i + k][Max(t)] = i + Max(t)
      BY <1>1
    <3>1. t \in SUBSET (0 .. m)
      BY <1>1
    <3>2. Max(t) \in 1 .. m
      BY <1>1, <3>1, MaxBounded
    <3> QED BY <1>1, <3>2
  <2> QED BY <2>1 DEF PlaceFcn
<1> HIDE DEF m, V, step
<1>5. s \in V /\ m \in Nat
  BY <1>1 DEF V
<1>6. PICK f \in [SUBSET (1 .. m) -> V] : IsLoop(m, s, step, f)
  BY <1>2, <1>5, LoopExists
<1>7. \A t \in SUBSET (1 .. m) : t # {} => Max(t) \in 1 .. m
  <2> SUFFICES ASSUME NEW t \in SUBSET (1 .. m), t # {} PROVE Max(t) \in 1 .. m
    OBVIOUS
  <2>1. t \in SUBSET (0 .. m)
    BY <1>5
  <2> QED BY <1>5, <2>1, MaxBounded
<1>8. Eq(f)
  <2>1. ASSUME NEW t \in SUBSET (1 .. m)
        PROVE  f[t] = IF t = {} THEN s ELSE Exchanged(f[t \ {Max(t)}], i, i + Max(t), before)
    <3>1. CASE t # {}
      <4>1. f[t \ {Max(t)}] \in V /\ f[t] = step[Max(t)][f[t \ {Max(t)}]]
        BY <1>6, <3>1 DEF IsLoop
      <4> QED BY <1>3, <1>7, <3>1, <4>1
    <3> QED BY <1>6, <3>1 DEF IsLoop
  <2> QED BY <1>6, <2>1
<1>9. Eq(p)
  BY <1>4, <1>8
<1>10. IsRounds(m, V, s, step, p)
  <2>1. \A t \in SUBSET (1 .. m) : p[t] = IF t = {} THEN s ELSE Exchanged(p[t \ {Max(t)}], i, i + Max(t), before)
    BY <1>9
  <2> HIDE DEF p
  <2> QED BY <1>2, <1>3, <1>5, <1>7, <2>1 DEF IsRounds
<1> HIDE DEF p
<1>11. /\ p[1 .. 0] = s
       /\ \A k \in 0 .. m : p[1 .. k] \in V
       /\ \A k \in 1 .. m : p[1 .. k] = step[k][p[1 .. (k - 1)]]
  BY <1>10, LoopPrefixes
<1> DEFINE Good == {k \in 0 .. m : PlacedUpTo(s, p[1 .. k], n, i, k, before)}
<1>12. 0 \in Good
  <2>1. <<s[i], s[i]>> \notin before
    BY <1>1, OrderIsSeq DEF StrictOrder
  <2>2. PlacedUpTo(s, s, n, i, 0, before)
    BY <1>1, <2>1 DEF PlacedUpTo
  <2> QED BY <1>5, <1>11, <2>2
<1>13. ASSUME NEW k \in 1 .. m, k - 1 \in Good PROVE k \in Good
  <2> DEFINE t == p[1 .. (k - 1)]
             u == p[1 .. k]
             j == i + k
  <2>1. t \in Orders(S, n) /\ u = Exchanged(t, i, j, before) /\ PlacedUpTo(s, t, n, i, k - 1, before)
    <3>1. k - 1 \in 0 .. m /\ k \in 0 .. m
      BY <1>5
    <3>2. t \in V /\ u = step[k][t]
      BY <1>11, <3>1
    <3> QED BY <1>3, <1>13, <3>2 DEF V
  <2>2. j \in 1 .. n /\ i < j /\ i \in 1 .. n /\ j \in i .. n
    BY <1>1
  <2> HIDE DEF t, u, j
  <2>3. /\ u \in Orders(S, n)
        /\ \A x \in 1 .. n : x # i /\ x # j => u[x] = t[x]
        /\ (u[i] = t[i] /\ u[j] = t[j]) \/ (u[i] = t[j] /\ u[j] = t[i])
        /\ \A x \in S : <<x, t[i]>> \notin before => <<x, u[i]>> \notin before
        /\ <<u[j], u[i]>> \notin before
    BY <2>1, <2>2, ExchangedOK
  <2>4. \A x \in 1 .. (i - 1) : u[x] = s[x]
    BY <2>1, <2>2, <2>3 DEF PlacedUpTo
  <2>5. \A x \in i .. n : \E y \in i .. n : u[x] = s[y]
    <3> SUFFICES ASSUME NEW x \in i .. n PROVE \E z \in i .. n : u[x] = t[z]
      BY <2>1 DEF PlacedUpTo
    <3>1. x \in 1 .. n /\ i \in i .. n
      BY <2>2
    <3> QED BY <2>2, <2>3, <3>1
  <2>6. \A y \in i .. i + k : <<u[y], u[i]>> \notin before
    <3> SUFFICES ASSUME NEW y \in i .. i + k PROVE <<u[y], u[i]>> \notin before
      OBVIOUS
    <3>1. y \in 1 .. n
      BY <2>2 DEF j
    <3>2. t[y] \in S /\ u[i] \in S
      BY <2>1, <2>2, <2>3, <3>1, OrderIsSeq
    <3>4. CASE y = i
      BY <3>2, <3>4 DEF StrictOrder
    <3>5. CASE y = j
      BY <2>3, <3>5
    <3>3. CASE y # i /\ y # j
      <4>1. y \in i .. i + (k - 1)
        BY <1>5, <3>3 DEF j
      <4>2. <<t[y], t[i]>> \notin before
        BY <2>1, <4>1 DEF PlacedUpTo
      <4>3. u[y] = t[y]
        BY <2>3, <3>1, <3>3
      <4> QED BY <2>3, <3>2, <4>2, <4>3
    <3> QED BY <3>3, <3>4, <3>5
  <2>7. PlacedUpTo(s, u, n, i, k, before)
    BY <2>4, <2>5, <2>6 DEF PlacedUpTo
  <2>8. k \in 0 .. m
    BY <1>5
  <2> QED BY <2>7, <2>8 DEF u
<1>14. m \in Good
  <2>1. Good \in SUBSET (0 .. m)
    OBVIOUS
  <2> HIDE DEF Good
  <2>2. Good = 0 .. m
    BY <1>5, <1>12, <1>13, <2>1, UpInduction
  <2> QED BY <1>5, <2>2
<1>15. Placed(s, i, before) = p[1 .. m]
  BY <1>1, PlacedDef DEF p
<1>16. p[1 .. m] \in Orders(S, n) /\ PlacedUpTo(s, p[1 .. m], n, i, m, before)
  BY <1>5, <1>11, <1>14 DEF V
<1> QED BY <1>15, <1>16 DEF m

SortFcn(s, before) ==
    CHOOSE f : f = [t \in SUBSET DOMAIN [i \in 1 .. Len(s) - 1 |-> i] |-> IF t = {} THEN s ELSE
        Placed(f[t \ {Max(t)}], [i \in 1 .. Len(s) - 1 |-> i][Max(t)], before)]

LEMMA ExchangeSortDef ==
  ASSUME NEW s, NEW before
  PROVE  ExchangeSort(s, before) = SortFcn(s, before)[DOMAIN [i \in 1 .. Len(s) - 1 |-> i]]
  BY DEF ExchangeSort, FoldLeft, MapThenFoldSet, SortFcn

\* The first i places hold the first, in order.
SortedUpTo(t, n, i, before) == \A x \in 1 .. i : \A y \in x .. n : <<t[y], t[x]>> \notin before

\* The exchange sort leaves an order in which nothing stands behind what it
\* comes before.
LEMMA SortOK ==
  ASSUME NEW S, NEW n \in Nat, NEW before, StrictOrder(S, before), NEW s \in Orders(S, n)
  PROVE  /\ ExchangeSort(s, before) \in Orders(S, n)
         /\ \A x, y \in 1 .. n : x < y => <<ExchangeSort(s, before)[y], ExchangeSort(s, before)[x]>> \notin before
<1> DEFINE m == IF n = 0 THEN 0 ELSE n - 1
           V == Orders(S, n)
           step == [i \in 1 .. m |-> [t \in V |-> Placed(t, i, before)]]
           p == SortFcn(s, before)
           Eq(f) == f = [t \in SUBSET (1 .. m) |-> IF t = {} THEN s ELSE
                            Placed(f[t \ {Max(t)}], Max(t), before)]
<1>1. /\ m \in Nat /\ Len(s) = n /\ 1 .. Len(s) - 1 = 1 .. m
      /\ \A i \in 1 .. m : i \in 1 .. (n - 1)
      /\ DOMAIN [i \in 1 .. Len(s) - 1 |-> i] = 1 .. m
  BY OrderIsSeq
<1>2. step \in [1 .. m -> [V -> V]]
  <2>1. ASSUME NEW i \in 1 .. m, NEW t \in V PROVE Placed(t, i, before) \in V
    BY <1>1, <2>1, PlacedOK
  <2> HIDE DEF V, m
  <2> QED BY <2>1
<1>3. \A i \in 1 .. m : \A t \in V : step[i][t] = Placed(t, i, before)
  <2> HIDE DEF V, m
  <2> QED OBVIOUS
<1>7. \A t \in SUBSET (1 .. m) : t # {} => Max(t) \in 1 .. m
  <2> HIDE DEF m
  <2> SUFFICES ASSUME NEW t \in SUBSET (1 .. m), t # {} PROVE Max(t) \in 1 .. m
    OBVIOUS
  <2>1. t \in SUBSET (0 .. m)
    BY <1>1
  <2> QED BY <1>1, <2>1, MaxBounded
<1>4. SortFcn(s, before) = CHOOSE f : Eq(f)
  <2> HIDE DEF m
  <2>1. \A f : Eq(f) <=> f = [t \in SUBSET DOMAIN [i \in 1 .. Len(s) - 1 |-> i] |-> IF t = {} THEN s ELSE
        Placed(f[t \ {Max(t)}], [i \in 1 .. Len(s) - 1 |-> i][Max(t)], before)]
    <3> SUFFICES ASSUME NEW f, NEW t \in SUBSET (1 .. m), t # {}
                 PROVE  [i \in 1 .. Len(s) - 1 |-> i][Max(t)] = Max(t)
      BY <1>1
    <3> QED BY <1>1, <1>7
  <2> QED BY <2>1 DEF SortFcn
<1>5. s \in V /\ m \in Nat
  BY <1>1
<1> HIDE DEF m, V, step
<1>6. PICK f \in [SUBSET (1 .. m) -> V] : IsLoop(m, s, step, f)
  BY <1>2, <1>5, LoopExists
<1>8. Eq(f)
  <2>1. ASSUME NEW t \in SUBSET (1 .. m)
        PROVE  f[t] = IF t = {} THEN s ELSE Placed(f[t \ {Max(t)}], Max(t), before)
    <3>1. CASE t # {}
      <4>1. f[t \ {Max(t)}] \in V /\ f[t] = step[Max(t)][f[t \ {Max(t)}]]
        BY <1>6, <3>1 DEF IsLoop
      <4> QED BY <1>3, <1>7, <3>1, <4>1
    <3> QED BY <1>6, <3>1 DEF IsLoop
  <2> QED BY <1>6, <2>1
<1>9. Eq(p)
  BY <1>4, <1>8
<1>10. IsRounds(m, V, s, step, p)
  <2>1. \A t \in SUBSET (1 .. m) : p[t] = IF t = {} THEN s ELSE Placed(p[t \ {Max(t)}], Max(t), before)
    BY <1>9
  <2> HIDE DEF p
  <2> QED BY <1>2, <1>3, <1>5, <1>7, <2>1 DEF IsRounds
<1> HIDE DEF p
<1>11. /\ p[1 .. 0] = s
       /\ \A i \in 0 .. m : p[1 .. i] \in V
       /\ \A i \in 1 .. m : p[1 .. i] = step[i][p[1 .. (i - 1)]]
  BY <1>10, LoopPrefixes
<1> DEFINE Good == {i \in 0 .. m : SortedUpTo(p[1 .. i], n, i, before)}
<1>12. 0 \in Good
  <2>1. SortedUpTo(p[1 .. 0], n, 0, before)
    BY DEF SortedUpTo
  <2> QED BY <1>5, <2>1
<1>13. ASSUME NEW i \in 1 .. m, i - 1 \in Good PROVE i \in Good
  <2> DEFINE t == p[1 .. (i - 1)]
             u == p[1 .. i]
  <2>1. t \in Orders(S, n) /\ u = Placed(t, i, before) /\ SortedUpTo(t, n, i - 1, before) /\ i \in 1 .. (n - 1)
    <3>1. i - 1 \in 0 .. m /\ i \in 0 .. m
      BY <1>5
    <3>2. t \in V /\ u = step[i][t]
      BY <1>11, <3>1
    <3> QED BY <1>1, <1>3, <1>13, <3>2 DEF V
  <2> HIDE DEF t, u
  <2>2. u \in Orders(S, n) /\ PlacedUpTo(t, u, n, i, n - i, before)
    BY <2>1, PlacedOK
  <2>3. /\ \A x \in 1 .. (i - 1) : u[x] = t[x]
        /\ \A x \in i .. n : \E y \in i .. n : u[x] = t[y]
        /\ \A y \in i .. n : <<u[y], u[i]>> \notin before
    <3>1. i + (n - i) = n
      BY <2>1
    <3> QED BY <2>2, <3>1 DEF PlacedUpTo
  <2>4. ASSUME NEW x \in 1 .. i, NEW y \in x .. n PROVE <<u[y], u[x]>> \notin before
    <3>1. CASE x = i
      BY <2>3, <3>1
    <3>2. CASE x # i
      <4>1. x \in 1 .. (i - 1) /\ u[x] = t[x]
        BY <2>1, <2>3, <3>2
      <4>2. PICK z \in x .. n : u[y] = t[z]
        <5>1. CASE y < i
          <6>1. y \in 1 .. (i - 1) /\ y \in x .. n
            BY <2>1, <4>1, <5>1
          <6> QED BY <2>3, <6>1
        <5>2. CASE ~ (y < i)
          <6>1. y \in i .. n
            BY <2>1, <4>1, <5>2
          <6>2. PICK z \in i .. n : u[y] = t[z]
            BY <2>3, <6>1
          <6>3. z \in x .. n
            BY <2>1, <4>1
          <6> QED BY <6>2, <6>3
        <5> QED BY <5>1, <5>2
      <4>3. <<t[z], t[x]>> \notin before
        BY <2>1, <4>1 DEF SortedUpTo
      <4> QED BY <4>1, <4>2, <4>3
    <3> QED BY <3>1, <3>2
  <2>5. SortedUpTo(u, n, i, before)
    BY <2>4 DEF SortedUpTo
  <2>6. i \in 0 .. m
    BY <1>5
  <2> QED BY <2>5, <2>6 DEF u
<1>14. m \in Good
  <2>1. Good \in SUBSET (0 .. m)
    OBVIOUS
  <2> HIDE DEF Good
  <2>2. Good = 0 .. m
    BY <1>5, <1>12, <1>13, <2>1, UpInduction
  <2> QED BY <1>5, <2>2
<1>15. ExchangeSort(s, before) = p[1 .. m]
  BY <1>1, ExchangeSortDef DEF p
<1>16. p[1 .. m] \in Orders(S, n) /\ SortedUpTo(p[1 .. m], n, m, before)
  BY <1>5, <1>11, <1>14 DEF V
<1>17. ASSUME NEW x \in 1 .. n, NEW y \in 1 .. n, x < y PROVE x \in 1 .. m /\ y \in x .. n
  BY <1>17 DEF m
<1> HIDE DEF Good
<1> QED BY <1>15, <1>16, <1>17 DEF SortedUpTo

\* An order of n nodes holds every node, and a part of it as many as it has places.
LEMMA OrderHoldsAll ==
  ASSUME NEW S, IsFiniteSet(S), NEW n, n = Cardinality(S), NEW t \in Orders(S, n)
  PROVE  \A x \in S : \E i \in 1 .. n : t[i] = x
<1>1. n \in Nat
  BY FS_CardinalityType
<1>2. t \in Injection(1 .. n, S)
  BY DEF Orders, Injection, IsInjective
<1>3. Cardinality(1 .. n) = n
  <2>1. 1 \in Int /\ n \in Int
    BY <1>1
  <2>2. Cardinality(1 .. n) = IF 1 > n THEN 0 ELSE n - 1 + 1
    BY <2>1, FS_Interval
  <2> QED BY <1>1, <2>2
<1>4. t \in Surjection(1 .. n, S)
  BY <1>2, <1>3, FS_Injection
<1> QED BY <1>4 DEF Surjection

LEMMA NoneTwice ==
  ASSUME NEW k \in Nat, NEW v, DOMAIN v = 1 .. k, NEW S, \A i \in 1 .. k : v[i] \in S,
         v = [i \in 1 .. k |-> v[i]], \A i, j \in 1 .. k : i # j => v[i] # v[j]
  PROVE  Cardinality(Range(v)) = k
<1> DEFINE R == Range(v)
<1>1. v \in [1 .. k -> R] /\ \A x \in R : \E i \in 1 .. k : v[i] = x
  BY DEF Range
<1> HIDE DEF R
<1>2. v \in Surjection(1 .. k, R) /\ v \in Injection(1 .. k, R)
  BY <1>1 DEF Surjection, Injection, IsInjective
<1>3. IsFiniteSet(1 .. k) /\ Cardinality(1 .. k) = k
  <2>1. 1 \in Int /\ k \in Int
    OBVIOUS
  <2>2. IsFiniteSet(1 .. k) /\ Cardinality(1 .. k) = IF 1 > k THEN 0 ELSE k - 1 + 1
    BY <2>1, FS_Interval
  <2> QED BY <2>2
<1>4. Cardinality(R) = Cardinality(1 .. k)
  BY <1>2, <1>3, FS_Surjection
<1> QED BY <1>3, <1>4 DEF R

=============================================================================
