------------------------------ MODULE SumProofs ------------------------------
(***************************************************************************)
(* What the proofs of several components rest on: a set of natural numbers    *)
(* has a least element, folds over finite sets are defined, and sums do not   *)
(* depend on the order of the summands.                                      *)
(***************************************************************************)
EXTENDS Integers, Sequences, SequencesExt, FiniteSetTheorems, SequenceTheorems, WellFoundedInduction, TLAPS

(* A set of natural numbers that is not empty has a least element: this is    *)
(* what inductions below rest on.                                           *)
LEMMA HasLeast ==
  ASSUME NEW S, S \subseteq Nat, S # {}
  PROVE  \E m \in S : \A k \in S : m <= k
<1> DEFINE T == {0..k : k \in S}
           R == StrictSubsetOrdering(Nat)
<1>1. T \subseteq FiniteSubsetsOf(Nat) /\ T # {}
  <2>1. ASSUME NEW k \in S PROVE 0..k \in FiniteSubsetsOf(Nat)
    <3>1. k \in Nat /\ IsFiniteSet(0..k)
      BY FS_Interval
    <3> QED
      BY <3>1 DEF FiniteSubsetsOf
  <2> QED
    BY <2>1
<1>2. PICK x \in T : \A y \in T : ~(<<y, x>> \in R)
  <2> HIDE DEF T, R
  <2> QED
    BY <1>1, WFMin, FS_StrictSubsetOrderingWellFounded DEF R
<1>3. PICK m \in S : x = 0..m
  OBVIOUS
<1>4. ASSUME NEW k \in S PROVE m <= k
  <2>1. CASE k < m
    <3>1. 0..k \subseteq 0..m /\ m \notin 0..k /\ m \in 0..m
      BY <2>1
    <3>2. <<0..k, 0..m>> \in R
      BY <3>1 DEF StrictSubsetOrdering
    <3> QED
      BY <1>2, <1>3, <3>2
  <2> QED
    BY <2>1
<1> QED
  BY <1>4

(* A fold over a finite set is defined: with each part of the set goes what   *)
(* is left of it without the element chosen, one step further.               *)
Small(D, k) == {s \in SUBSET D : Cardinality(s) <= k}
Folds(f, S, base, c, step) ==
  \A s \in S : f[s] = IF s = {} THEN base ELSE step[<<f[s \ {c[s]}], c[s]>>]

LEMMA SmallWithout ==
  ASSUME NEW D, IsFiniteSet(D), NEW k \in Nat, NEW s \in Small(D, k), NEW x \in s
  PROVE  k > 0 /\ s \ {x} \in Small(D, k - 1)
<1>1. IsFiniteSet(s) /\ s \subseteq D
  BY FS_Subset DEF Small
<1>2. Cardinality(s) \in Nat /\ Cardinality(s \ {x}) = Cardinality(s) - 1 /\ Cardinality(s \ {x}) \in Nat
  BY <1>1, FS_RemoveElement, FS_CardinalityType, FS_Subset
<1> QED
  BY <1>1, <1>2 DEF Small

LEMMA FoldExists ==
  ASSUME NEW D, IsFiniteSet(D), NEW V, NEW base \in V, NEW c, NEW step \in [V \X D -> V],
         \A s \in SUBSET D : s # {} => c[s] \in s
  PROVE  \E f \in [SUBSET D -> V] : Folds(f, SUBSET D, base, c, step)
<1> DEFINE Good(k) == \E f \in [Small(D, k) -> V] : Folds(f, Small(D, k), base, c, step)
           Bad == {k \in Nat : ~Good(k)}
<1>1. Bad = {}
  <2>1. SUFFICES ASSUME Bad # {} PROVE FALSE
    OBVIOUS
  <2>2. PICK m \in Bad : \A k \in Bad : m <= k
    BY <2>1, HasLeast
  <2>3. ASSUME NEW s \in Small(D, m), s # {}
        PROVE  /\ m > 0 /\ m - 1 \in Nat
               /\ s \ {c[s]} \in Small(D, m - 1) /\ s \ {c[s]} \in Small(D, m) /\ c[s] \in D
    <3>1. c[s] \in s /\ s \subseteq D
      BY <2>3 DEF Small
    <3>2. m > 0 /\ m - 1 \in Nat /\ s \ {c[s]} \in Small(D, m - 1)
      BY <3>1, SmallWithout
    <3>3. Cardinality(s \ {c[s]}) \in Nat
      BY <3>1, FS_Subset, FS_CardinalityType
    <3> QED
      BY <3>1, <3>2, <3>3 DEF Small
  <2>4. CASE m = 0
    <3> DEFINE f == [s \in Small(D, m) |-> base]
    <3>1. \A s \in Small(D, m) : s = {}
      BY <2>3, <2>4
    <3>2. f \in [Small(D, m) -> V] /\ Folds(f, Small(D, m), base, c, step)
      BY <3>1 DEF Folds
    <3> QED
      BY <2>2, <3>2
  <2>5. CASE m # 0
    <3>1. m - 1 \in Nat /\ m - 1 \notin Bad
      BY <2>2, <2>5
    <3>2. PICK g \in [Small(D, m - 1) -> V] : Folds(g, Small(D, m - 1), base, c, step)
      BY <3>1
    <3> DEFINE f == [s \in Small(D, m) |-> IF s = {} THEN base ELSE step[<<g[s \ {c[s]}], c[s]>>]]
    <3>3. f \in [Small(D, m) -> V]
      <4>1. ASSUME NEW s \in Small(D, m), s # {} PROVE step[<<g[s \ {c[s]}], c[s]>>] \in V
        BY <2>3, <3>2, <4>1
      <4> QED
        BY <4>1
    <3>4. \A s \in Small(D, m - 1) : s \in Small(D, m) => f[s] = g[s]
      BY <3>2 DEF Folds
    <3>5. Folds(f, Small(D, m), base, c, step)
      <4> SUFFICES ASSUME NEW s \in Small(D, m), s # {}
                   PROVE  f[s] = step[<<f[s \ {c[s]}], c[s]>>]
        BY DEF Folds
      <4>1. f[s \ {c[s]}] = g[s \ {c[s]}]
        BY <2>3, <3>4
      <4> QED
        BY <4>1
    <3> QED
      BY <2>2, <3>3, <3>5
  <2> QED
    BY <2>4, <2>5
<1>2. Cardinality(D) \in Nat /\ Small(D, Cardinality(D)) = SUBSET D
  BY FS_CardinalityType, FS_Subset DEF Small
<1>3. PICK f \in [Small(D, Cardinality(D)) -> V] : Folds(f, Small(D, Cardinality(D)), base, c, step)
  BY <1>1, <1>2
<1>4. f \in [SUBSET D -> V] /\ Folds(f, SUBSET D, base, c, step)
  BY ONLY <1>2, <1>3, Zenon
<1> QED
  BY <1>4
-----------------------------------------------------------------------------
(* The sum of natural numbers over a finite set, whatever the order in which  *)
(* they are added.                                                           *)
Summable(w, S) == IsFiniteSet(S) /\ \A i \in S : w[i] \in Nat
AnyOf(s) == CHOOSE x \in s : TRUE
Counts(f, w, S) ==
  \A s \in SUBSET S :
    f[s] = IF s = {} THEN 0 ELSE w[AnyOf(s)] + f[s \ {AnyOf(s)}]

LEMMA CountsAgree ==
  ASSUME NEW w, NEW v, NEW S, NEW T, IsFiniteSet(S), NEW f, NEW g, Counts(f, w, S), Counts(g, v, T),
         NEW U, U \subseteq S, U \subseteq T,
         \A i \in U : w[i] = v[i]
  PROVE  f[U] = g[U]
<1> DEFINE Bad == {k \in Nat : \E W \in SUBSET U : Cardinality(W) = k /\ f[W] # g[W]}
<1>1. SUFFICES ASSUME Bad # {} PROVE FALSE
  <2>1. Cardinality(U) \in Nat
    BY FS_Subset, FS_CardinalityType
  <2> QED
    BY <2>1
<1>2. PICK n \in Bad : \A k \in Bad : n <= k
  BY <1>1, HasLeast
<1>3. PICK W \in SUBSET U : Cardinality(W) = n /\ f[W] # g[W]
  OBVIOUS
<1>4. W \in SUBSET S /\ W \in SUBSET T /\ W # {}
  BY <1>3 DEF Counts
<1> DEFINE x == AnyOf(W)
<1>5. x \in W /\ x \in U
  BY <1>4 DEF AnyOf
<1>6. IsFiniteSet(W)
  BY <1>4, FS_Subset
<1>7. Cardinality(W \ {x}) = n - 1 /\ n - 1 \in Nat
  <2> HIDE DEF x
  <2>1. Cardinality(W \ {x}) = n - 1 /\ Cardinality(W \ {x}) \in Nat
    BY <1>3, <1>5, <1>6, FS_RemoveElement, FS_CardinalityType, FS_Subset
  <2> QED
    BY <2>1
<1>8. f[W \ {x}] = g[W \ {x}]
  <2>1. n - 1 \notin Bad
    BY <1>2, <1>7
  <2> HIDE DEF x
  <2> QED
    BY <1>7, <2>1
<1>9. /\ f[W] = w[x] + f[W \ {x}]
      /\ g[W] = v[x] + g[W \ {x}]
  BY <1>4 DEF Counts
<1> QED
  BY <1>3, <1>5, <1>8, <1>9

LEMMA SumCounts ==
  ASSUME NEW w, NEW S, Summable(w, S)
  PROVE  \E f \in [SUBSET S -> Nat] : f[S] = SumFunctionOnSet(w, S) /\ Counts(f, w, S)
<1> DEFINE Rule(f) == [s \in SUBSET S |->
                         IF s = {} THEN 0 ELSE w[AnyOf(s)] + f[s \ {AnyOf(s)}]]
           c == [s \in SUBSET S |-> AnyOf(s)]
           step == [p \in Nat \X S |-> w[p[2]] + p[1]]
<1>1. \A s \in SUBSET S : s # {} => c[s] \in s
  BY DEF AnyOf
<1>2. step \in [Nat \X S -> Nat]
  BY DEF Summable
<1>3. PICK f \in [SUBSET S -> Nat] : Folds(f, SUBSET S, 0, c, step)
  <2> HIDE DEF c, step
  <2> QED
    BY <1>1, <1>2, FoldExists DEF Summable
<1>4. Counts(f, w, S)
  <2> SUFFICES ASSUME NEW s \in SUBSET S, s # {}
               PROVE  f[s] = w[AnyOf(s)] + f[s \ {AnyOf(s)}]
    BY <1>3 DEF Folds, Counts
  <2>1. f[s] = step[<<f[s \ {c[s]}], c[s]>>] /\ c[s] = AnyOf(s) /\ AnyOf(s) \in S
    BY <1>1, <1>3 DEF Folds
  <2> QED
    BY <1>3, <2>1
<1>5. f = Rule(f)
  BY <1>3, <1>4 DEF Counts
<1> DEFINE g == CHOOSE f_1 : f_1 = Rule(f_1)
<1>6. g = Rule(g)
  BY <1>5, Zenon
<1>7. SumFunctionOnSet(w, S) = g[S]
  BY DEF SumFunctionOnSet, FoldFunctionOnSet, MapThenFoldSet, AnyOf
<1>8. g \in [SUBSET S -> Nat] /\ Counts(g, w, S)
  <2> HIDE DEF g
  <2>1. \A s \in SUBSET S : g[s] = IF s = {} THEN 0 ELSE w[AnyOf(s)] + g[s \ {AnyOf(s)}]
    BY <1>6
  <2>2. Counts(g, w, S)
    BY <2>1 DEF Counts
  <2>3. \A s \in SUBSET S : g[s] = f[s]
    BY <1>4, <2>2, CountsAgree DEF Summable
  <2> QED
    BY <1>3, <1>6, <2>2, <2>3
<1> QED
  BY <1>7, <1>8

LEMMA SumSame ==
  ASSUME NEW w, NEW v, NEW S, Summable(w, S),
         \A i \in S : v[i] = w[i]
  PROVE  SumFunctionOnSet(v, S) = SumFunctionOnSet(w, S)
<1>1. Summable(v, S)
  BY DEF Summable
<1>2. PICK f \in [SUBSET S -> Nat] : f[S] = SumFunctionOnSet(w, S) /\ Counts(f, w, S)
  BY SumCounts
<1>3. PICK g \in [SUBSET S -> Nat] : g[S] = SumFunctionOnSet(v, S) /\ Counts(g, v, S)
  BY <1>1, SumCounts
<1>4. f[S] = g[S]
  BY <1>2, <1>3, CountsAgree DEF Summable
<1> QED
  BY <1>2, <1>3, <1>4

LEMMA SumOfNone ==
  ASSUME NEW w
  PROVE  SumFunctionOnSet(w, {}) = 0
<1>1. Summable(w, {})
  BY FS_EmptySet DEF Summable
<1>2. PICK f \in [SUBSET {} -> Nat] : f[{}] = SumFunctionOnSet(w, {}) /\ Counts(f, w, {})
  BY <1>1, SumCounts
<1> QED
  BY <1>2 DEF Counts

LEMMA SumWithout ==
  ASSUME NEW w, NEW S, Summable(w, S), NEW x \in S
  PROVE  SumFunctionOnSet(w, S) = SumFunctionOnSet(w, S \ {x}) + w[x]
<1>1. PICK f \in [SUBSET S -> Nat] : f[S] = SumFunctionOnSet(w, S) /\ Counts(f, w, S)
  BY SumCounts
<1> DEFINE size(i) == w[i]
           Wrong(W, z) == f[W] # size(z) + f[W \ {z}]
           Bad == {k \in Nat : \E W \in SUBSET S : Cardinality(W) = k /\ \E z \in W : Wrong(W, z)}
<1>2. Bad = {}
  <2>1. SUFFICES ASSUME Bad # {} PROVE FALSE
    OBVIOUS
  <2>2. PICK n \in Bad : \A k \in Bad : n <= k
    BY <2>1, HasLeast
  <2>3. PICK W \in SUBSET S : Cardinality(W) = n /\ \E z \in W : Wrong(W, z)
    BY <2>2
  <2>4. PICK z \in W : Wrong(W, z)
    BY <2>3
  <2> DEFINE y == AnyOf(W)
  <2>5. y \in W
    BY <2>4 DEF AnyOf
  <2>6. f[W] = size(y) + f[W \ {y}]
    BY <1>1, <2>4 DEF Counts
  <2> HIDE DEF y
  <2>7. y # z
    BY <2>4, <2>6
  <2>8. n \in Nat /\ IsFiniteSet(W)
    BY <2>2, FS_Subset DEF Summable
  <2>9. ASSUME NEW u \in W, NEW v \in W \ {u} PROVE ~Wrong(W \ {u}, v)
    <3>1. Cardinality(W \ {u}) = n - 1 /\ n - 1 \in Nat
      <4>1. Cardinality(W \ {u}) = n - 1 /\ Cardinality(W \ {u}) \in Nat
        BY <2>3, <2>8, FS_RemoveElement, FS_CardinalityType, FS_Subset
      <4> QED
        BY <4>1
    <3>2. n - 1 \notin Bad
      <4> HIDE DEF Bad
      <4> QED
        BY <2>2, <2>8, <3>1
    <3> HIDE DEF Wrong
    <3> QED
      BY <3>1, <3>2
  <2>10. f[W \ {y}] = size(z) + f[(W \ {y}) \ {z}]
    BY <2>5, <2>7, <2>9
  <2>11. f[W \ {z}] = size(y) + f[(W \ {z}) \ {y}]
    BY <2>5, <2>7, <2>9
  <2>12. f[(W \ {z}) \ {y}] = f[(W \ {y}) \ {z}]
    <3>1. (W \ {z}) \ {y} = (W \ {y}) \ {z}
      OBVIOUS
    <3> QED
      BY ONLY <3>1
  <2>13. f[(W \ {y}) \ {z}] \in Nat /\ size(z) \in Nat /\ size(y) \in Nat
    BY <1>1, <2>5 DEF Summable
  <2>14. f[W] = size(z) + f[W \ {z}]
    BY ONLY <2>6, <2>10, <2>11, <2>12, <2>13
  <2> QED
    BY <2>4, <2>14
<1>3. Cardinality(S) \in Nat
  BY FS_CardinalityType DEF Summable
<1>4. f[S] = size(x) + f[S \ {x}]
  BY <1>2, <1>3
<1>5. f[S \ {x}] = SumFunctionOnSet(w, S \ {x})
  <2>1. Summable(w, S \ {x})
    BY FS_Subset DEF Summable
  <2>2. PICK g \in [SUBSET (S \ {x}) -> Nat] : g[S \ {x}] = SumFunctionOnSet(w, S \ {x}) /\ Counts(g, w, S \ {x})
    BY <2>1, SumCounts
  <2> QED
    BY <1>1, <2>2, CountsAgree DEF Summable
<1>6. f[S \ {x}] \in Nat /\ w[x] \in Nat
  BY <1>1 DEF Summable
<1> QED
  BY <1>1, <1>4, <1>5, <1>6

LEMMA SumNat ==
  ASSUME NEW w, NEW S, Summable(w, S), NEW U, U \subseteq S
  PROVE  Summable(w, U) /\ SumFunctionOnSet(w, U) \in Nat
<1>1. Summable(w, U)
  BY FS_Subset DEF Summable
<1>2. PICK f \in [SUBSET U -> Nat] : f[U] = SumFunctionOnSet(w, U) /\ Counts(f, w, U)
  BY <1>1, SumCounts
<1> QED
  BY <1>1, <1>2

LEMMA SumSplit ==
  ASSUME NEW w, NEW S, Summable(w, S), NEW U, U \subseteq S
  PROVE  SumFunctionOnSet(w, S) = SumFunctionOnSet(w, S \ U) + SumFunctionOnSet(w, U)
<1> DEFINE Wrong(W) == SumFunctionOnSet(w, S) # SumFunctionOnSet(w, S \ W) + SumFunctionOnSet(w, W)
           Bad == {k \in Nat : \E W \in SUBSET S : Cardinality(W) = k /\ Wrong(W)}
<1>1. Bad = {}
  <2>1. SUFFICES ASSUME Bad # {} PROVE FALSE
    OBVIOUS
  <2>2. PICK n \in Bad : \A k \in Bad : n <= k
    BY <2>1, HasLeast
  <2>3. PICK W \in SUBSET S : Cardinality(W) = n /\ Wrong(W)
    BY <2>2
  <2>4. W # {}
    <3>1. S \ {} = S /\ SumFunctionOnSet(w, {}) = 0 /\ SumFunctionOnSet(w, S) \in Nat
      BY SumOfNone, SumNat
    <3>2. CASE W = {}
      <4>1. SumFunctionOnSet(w, S \ W) = SumFunctionOnSet(w, S) /\ SumFunctionOnSet(w, W) = 0
        BY <3>1, <3>2, Zenon
      <4> QED
        BY <2>3, <3>1, <4>1
    <3> QED
      BY <3>2
  <2>5. PICK x \in W : TRUE
    BY <2>4
  <2> DEFINE rest == W \ {x}
             size == w[x]
  <2>6. Cardinality(rest) = n - 1 /\ n - 1 \in Nat /\ n \in Nat
    <3>1. Cardinality(rest) = n - 1 /\ Cardinality(rest) \in Nat /\ n \in Nat
      BY <2>2, <2>3, <2>5, FS_RemoveElement, FS_CardinalityType, FS_Subset DEF Summable
    <3> QED
      BY <3>1
  <2>7. ~Wrong(rest)
    <3>1. n - 1 \notin Bad
      <4> HIDE DEF Bad
      <4> QED
        BY <2>2, <2>6
    <3> HIDE DEF Wrong
    <3> QED
      BY <2>6, <3>1
  <2>8. SumFunctionOnSet(w, W) = SumFunctionOnSet(w, rest) + size
    BY <2>5, SumNat, SumWithout
  <2>9. SumFunctionOnSet(w, S \ rest) = SumFunctionOnSet(w, S \ W) + size
    <3>1. x \in S \ rest /\ (S \ rest) \ {x} = S \ W
      BY <2>5
    <3>2. Summable(w, S \ rest)
      BY SumNat
    <3>3. SumFunctionOnSet(w, S \ rest) = SumFunctionOnSet(w, (S \ rest) \ {x}) + size
      BY <3>1, <3>2, SumWithout
    <3> QED
      BY ONLY <3>1, <3>3
  <2>10. SumFunctionOnSet(w, rest) \in Nat /\ SumFunctionOnSet(w, S \ W) \in Nat /\ size \in Nat
    BY <2>5, SumNat DEF Summable
  <2>11. SumFunctionOnSet(w, S) = SumFunctionOnSet(w, S \ rest) + SumFunctionOnSet(w, rest)
    BY <2>7
  <2>12. SumFunctionOnSet(w, S) = SumFunctionOnSet(w, S \ W) + SumFunctionOnSet(w, W)
    BY ONLY <2>8, <2>9, <2>10, <2>11
  <2> QED
    BY <2>3, <2>12
<1>2. Cardinality(U) \in Nat
  BY FS_CardinalityType, FS_Subset DEF Summable
<1> QED
  BY <1>1, <1>2

(* The sum of a function one of whose values is new, has changed or has gone.  *)
LEMMA SumJoined ==
  ASSUME NEW w, NEW S, Summable(w, S), NEW x, x \notin S, NEW v, v[x] \in Nat,
         \A i \in S : v[i] = w[i]
  PROVE  Summable(v, S \cup {x}) /\ SumFunctionOnSet(v, S \cup {x}) = SumFunctionOnSet(w, S) + v[x]
<1>1. Summable(v, S \cup {x}) /\ (S \cup {x}) \ {x} = S
  BY FS_AddElement DEF Summable
<1>2. SumFunctionOnSet(v, S \cup {x}) = SumFunctionOnSet(v, (S \cup {x}) \ {x}) + v[x]
  BY <1>1, SumWithout
<1>3. SumFunctionOnSet(v, S) = SumFunctionOnSet(w, S)
  BY SumSame
<1> QED
  BY <1>1, <1>2, <1>3

LEMMA SumLeft ==
  ASSUME NEW w, NEW S, Summable(w, S), NEW x \in S, NEW v, \A i \in S \ {x} : v[i] = w[i]
  PROVE  /\ Summable(v, S \ {x})
         /\ SumFunctionOnSet(v, S \ {x}) \in Nat /\ SumFunctionOnSet(w, S) \in Nat
         /\ SumFunctionOnSet(v, S \ {x}) + w[x] = SumFunctionOnSet(w, S)
<1>1. Summable(w, S \ {x}) /\ SumFunctionOnSet(w, S \ {x}) \in Nat /\ SumFunctionOnSet(w, S) \in Nat
  BY SumNat
<1>2. SumFunctionOnSet(v, S \ {x}) = SumFunctionOnSet(w, S \ {x})
  BY <1>1, SumSame
<1>3. SumFunctionOnSet(w, S) = SumFunctionOnSet(w, S \ {x}) + w[x]
  BY SumWithout
<1> QED
  BY <1>1, <1>2, <1>3 DEF Summable
-----------------------------------------------------------------------------
(* Folds over a sequence go from its first element to its last.              *)
LEMMA MaxOfPositions ==
  ASSUME NEW n \in Nat
  PROVE  /\ \A t \in SUBSET (1..n) : t # {} => Max(t) \in t
         /\ \A k \in 1..n : Max(1..k) = k
<1>1. ASSUME NEW t \in SUBSET (1..n), t # {} PROVE Max(t) \in t
  <2> DEFINE below == {n - k : k \in t}
  <2>1. below \subseteq Nat /\ below # {}
    <3>1. ASSUME NEW k \in t PROVE n - k \in Nat
      BY k \in 1..n
    <3> QED
      BY <1>1, <3>1
  <2>2. PICK m \in below : \A k \in below : m <= k
    <3> HIDE DEF below
    <3> QED
      BY <2>1, HasLeast
  <2>3. n - m \in t /\ \A k \in t : n - m >= k
    <3>1. PICK j \in t : m = n - j
      BY <2>2
    <3>2. ASSUME NEW k \in t PROVE j >= k
      <4>1. m <= n - k
        BY <2>2
      <4> QED
        BY <3>1, <4>1
    <3> QED
      BY <3>1, <3>2
  <2> QED
    BY <2>3 DEF Max
<1>2. ASSUME NEW k \in 1..n PROVE Max(1..k) = k
  <2>1. k \in 1..k /\ (\A j \in 1..k : k >= j) /\ \A j \in 1..k : j >= k => j = k
    OBVIOUS
  <2> QED
    BY <2>1 DEF Max
<1> QED
  BY <1>1, <1>2
=============================================================================
