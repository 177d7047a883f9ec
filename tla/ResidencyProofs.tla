---------------------------- MODULE ResidencyProofs ----------------------------
(***************************************************************************)
(* Proofs about what stays in memory.  First what the operators of         *)
(* LruLedger do, for any ids, artifacts and policy.  Then                  *)
(* AdapterResidency, for any adapters, policy, limit on lanes and steps:   *)
(* the ledger keeps its books and its policy, an active lane is resident,  *)
(* eviction is fair and decisions tell what they did.  Then KvResidency,   *)
(* for any blocks, policy, precisions and steps: the ledger keeps its      *)
(* books, its budget, its ages and its precisions, its evictions are fair, *)
(* and the governor passes nothing that it rejects.  Last TieredResidency, *)
(* for any tensors, priorities, times and leases: its pool holds the       *)
(* residents and no other, and a rebalance spares what is leased and what  *)
(* is warmer.                                                              *)
(***************************************************************************)
EXTENDS MCResidency, PoolProofs, SumProofs

-----------------------------------------------------------------------------
(* The bytes of a set of entries are the sum of their sizes, whatever the     *)
(* order in which the entries are counted.                                   *)
Sizes(l, S) == IsFiniteSet(S) /\ \A i \in S : l.entries[i].artifact.size \in Nat
Weights(l, S) == [i \in S |-> l.entries[i].artifact.size]

LEMMA BytesSum ==
  ASSUME NEW l, NEW S, Sizes(l, S)
  PROVE  Summable(Weights(l, S), S) /\ BytesOf(l, S) = SumFunctionOnSet(Weights(l, S), S)
<1> DEFINE w == Weights(l, S)
           Rule(f) == [s \in SUBSET S |->
                         IF s = {} THEN 0 ELSE f[s \ {AnyOf(s)}] + l.entries[AnyOf(s)].artifact.size]
<1>1. Summable(w, S) /\ \A i \in S : w[i] = l.entries[i].artifact.size /\ w[i] \in Nat
  BY DEF Sizes, Summable, Weights
<1>2. \A s \in SUBSET S : s # {} => AnyOf(s) \in S
  BY DEF AnyOf
<1>3. PICK f \in [SUBSET S -> Nat] : f[S] = SumFunctionOnSet(w, S) /\ Counts(f, w, S)
  <2> HIDE DEF w
  <2> QED
    BY <1>1, SumCounts
<1>4. f = Rule(f)
  <2>1. ASSUME NEW s \in SUBSET S, s # {}
        PROVE  f[s] = f[s \ {AnyOf(s)}] + l.entries[AnyOf(s)].artifact.size
    <3>1. f[s] = w[AnyOf(s)] + f[s \ {AnyOf(s)}] /\ s \ {AnyOf(s)} \in SUBSET S
      BY <1>3, <2>1 DEF Counts
    <3> HIDE DEF w
    <3> QED
      BY <1>1, <1>2, <1>3, <2>1, <3>1
  <2>2. f[{}] = 0
    BY <1>3 DEF Counts
  <2> QED
    BY <1>3, <2>1, <2>2
<1> DEFINE g == CHOOSE f_1 : f_1 = Rule(f_1)
<1>5. g = Rule(g)
  BY <1>4, Zenon
<1>6. BytesOf(l, S) = g[S]
  BY DEF BytesOf, FoldSet, MapThenFoldSet, AnyOf
<1>7. g[S] = f[S]
  <2> HIDE DEF g
  <2>1. \A s \in SUBSET S : g[s] = IF s = {} THEN 0 ELSE g[s \ {AnyOf(s)}] + l.entries[AnyOf(s)].artifact.size
    BY <1>5
  <2> DEFINE Bad == {k \in Nat : \E W \in SUBSET S : Cardinality(W) = k /\ f[W] # g[W]}
  <2>2. Bad = {}
    <3>1. SUFFICES ASSUME Bad # {} PROVE FALSE
      OBVIOUS
    <3>2. PICK n \in Bad : \A k \in Bad : n <= k
      BY <3>1, HasLeast
    <3>3. PICK W \in SUBSET S : Cardinality(W) = n /\ f[W] # g[W]
      BY <3>2
    <3>4. W # {}
      BY <1>3, <2>1, <3>3 DEF Counts
    <3> DEFINE x == AnyOf(W)
               V == W \ {x}
    <3>5. x \in W /\ V \in SUBSET S
      BY <3>4 DEF AnyOf
    <3>6. Cardinality(V) = n - 1 /\ n - 1 \in Nat /\ n \in Nat
      <4>1. Cardinality(V) = n - 1 /\ Cardinality(V) \in Nat /\ n \in Nat
        BY <3>3, <3>5, FS_RemoveElement, FS_CardinalityType, FS_Subset DEF Sizes
      <4> QED
        BY <4>1
    <3>7. f[V] = g[V]
      <4>1. n - 1 \notin Bad
        <5> HIDE DEF Bad
        <5> QED
          BY <3>2, <3>6
      <4> HIDE DEF V
      <4> QED
        BY <3>5, <3>6, <4>1
    <3>8. g[W] = g[V] + l.entries[x].artifact.size
      BY <2>1, <3>4
    <3>9. f[W] = f[V] + l.entries[x].artifact.size
      BY <1>4, <3>4
    <3> QED
      BY <3>3, <3>7, <3>8, <3>9
  <2>3. Cardinality(S) \in Nat
    BY FS_CardinalityType DEF Sizes
  <2> QED
    BY <2>2, <2>3
<1> QED
  BY <1>1, <1>3, <1>6, <1>7

LEMMA BytesSame ==
  ASSUME NEW l, NEW m, NEW S, Sizes(l, S),
         \A i \in S : m.entries[i].artifact.size = l.entries[i].artifact.size
  PROVE  BytesOf(m, S) = BytesOf(l, S)
<1>1. Sizes(m, S) /\ Weights(m, S) = Weights(l, S)
  BY DEF Sizes, Weights
<1> QED
  BY <1>1, BytesSum

LEMMA BytesOfNone ==
  ASSUME NEW l
  PROVE  BytesOf(l, {}) = 0
<1>1. Sizes(l, {})
  BY FS_EmptySet DEF Sizes
<1> QED
  BY <1>1, BytesSum, SumOfNone

(* The bytes of part of the entries, told of the sizes of all of them.       *)
LEMMA BytesNat ==
  ASSUME NEW l, NEW S, Sizes(l, S), NEW U, U \subseteq S
  PROVE  Sizes(l, U) /\ BytesOf(l, U) \in Nat
<1>1. Sizes(l, U)
  BY FS_Subset DEF Sizes
<1>2. SumFunctionOnSet(Weights(l, U), U) \in Nat
  BY <1>1, BytesSum, SumNat
<1> QED
  BY <1>1, <1>2, BytesSum

LEMMA BytesOfPart ==
  ASSUME NEW l, NEW S, Sizes(l, S), NEW U, U \subseteq S
  PROVE  BytesOf(l, U) = SumFunctionOnSet(Weights(l, S), U)
<1>1. Sizes(l, U)
  BY BytesNat
<1>2. Summable(Weights(l, S), U)
  BY <1>1 DEF Summable, Sizes, Weights
<1>3. SumFunctionOnSet(Weights(l, U), U) = SumFunctionOnSet(Weights(l, S), U)
  <2>1. \A i \in U : Weights(l, U)[i] = Weights(l, S)[i]
    BY DEF Weights
  <2> QED
    BY <1>2, <2>1, SumSame
<1> QED
  BY <1>1, <1>3, BytesSum

LEMMA BytesWithout ==
  ASSUME NEW l, NEW S, Sizes(l, S), NEW x \in S
  PROVE  BytesOf(l, S) = BytesOf(l, S \ {x}) + l.entries[x].artifact.size
<1>1. SumFunctionOnSet(Weights(l, S), S) = SumFunctionOnSet(Weights(l, S), S \ {x}) + Weights(l, S)[x]
  BY BytesSum, SumWithout
<1>2. Weights(l, S)[x] = l.entries[x].artifact.size
  BY DEF Weights
<1>3. BytesOf(l, S \ {x}) = SumFunctionOnSet(Weights(l, S), S \ {x})
  BY BytesOfPart
<1> QED
  BY <1>1, <1>2, <1>3, BytesSum

LEMMA BytesSplit ==
  ASSUME NEW l, NEW S, Sizes(l, S), NEW U, U \subseteq S
  PROVE  BytesOf(l, S) = BytesOf(l, S \ U) + BytesOf(l, U)
<1>1. SumFunctionOnSet(Weights(l, S), S)
        = SumFunctionOnSet(Weights(l, S), S \ U) + SumFunctionOnSet(Weights(l, S), U)
  BY BytesSum, SumSplit
<1> QED
  BY <1>1, BytesOfPart, BytesSum
-----------------------------------------------------------------------------
(* Folds over a sequence go from its first element to its last.              *)
Walks(F, s, K) ==
  /\ F[0] = <<>>
  /\ \A k \in 1..Len(s) : F[k] = IF s[k] \in K THEN Append(F[k - 1], s[k]) ELSE F[k - 1]

LEMMA KeepWalks ==
  ASSUME NEW s \in Seq(Ids), NEW K
  PROVE  \E F : Walks(F, s, K) /\ Keep(s, K) = F[Len(s)]
<1> DEFINE D == DOMAIN s
           Rule(f) == [t \in SUBSET D |->
                         IF t = {} THEN <<>>
                         ELSE IF s[Max(t)] \in K THEN Append(f[t \ {Max(t)}], s[Max(t)]) ELSE f[t \ {Max(t)}]]
           c == [t \in SUBSET D |-> Max(t)]
           step == [p \in Seq(Ids) \X D |-> IF s[p[2]] \in K THEN Append(p[1], s[p[2]]) ELSE p[1]]
<1>1. D = 1..Len(s) /\ Len(s) \in Nat /\ IsFiniteSet(D)
  BY FS_Interval
<1>2. \A t \in SUBSET D : t # {} => c[t] \in t
  BY <1>1, MaxOfPositions
<1>3. step \in [Seq(Ids) \X D -> Seq(Ids)]
  OBVIOUS
<1>4. PICK f \in [SUBSET D -> Seq(Ids)] : Folds(f, SUBSET D, <<>>, c, step)
  <2>1. <<>> \in Seq(Ids)
    OBVIOUS
  <2> HIDE DEF c, step, D
  <2> QED
    BY <1>1, <1>2, <1>3, <2>1, FoldExists
<1>5. f = Rule(f)
  <2>1. ASSUME NEW t \in SUBSET D, t # {}
        PROVE f[t] = IF s[Max(t)] \in K THEN Append(f[t \ {Max(t)}], s[Max(t)]) ELSE f[t \ {Max(t)}]
    <3>1. c[t] = Max(t) /\ Max(t) \in D
      BY <1>2, <2>1
    <3>2. f[t] = step[<<f[t \ {c[t]}], c[t]>>]
      BY <1>4, <2>1 DEF Folds
    <3>3. f[t \ {Max(t)}] \in Seq(Ids)
      BY <1>4
    <3> QED
      BY <3>1, <3>2, <3>3
  <2>2. f[{}] = <<>>
    BY <1>4 DEF Folds
  <2> HIDE DEF D
  <2> QED
    BY <1>4, <2>1, <2>2
<1> DEFINE g == CHOOSE f_1 : f_1 = Rule(f_1)
<1>6. g = Rule(g)
  BY <1>5, Zenon
<1>7. Keep(s, K) = g[D]
  BY DEF Keep, FoldLeft, MapThenFoldSet
<1> HIDE DEF g
<1> DEFINE F == [k \in 0..Len(s) |-> g[1..k]]
<1>8. F[0] = <<>>
  <2>1. 1..0 = {} /\ {} \in SUBSET D
    OBVIOUS
  <2>2. g[{}] = <<>>
    BY <1>6, <2>1
  <2> QED
    BY <1>1, <2>1, <2>2
<1>9. ASSUME NEW k \in 1..Len(s)
      PROVE  F[k] = IF s[k] \in K THEN Append(F[k - 1], s[k]) ELSE F[k - 1]
  <2>1. /\ 1..k \in SUBSET D /\ 1..k # {} /\ (1..k) \ {k} = 1..(k - 1)
        /\ k \in 0..Len(s) /\ k - 1 \in 0..Len(s)
    BY <1>1
  <2>2. Max(1..k) = k
    BY <1>1, MaxOfPositions
  <2>3. g[1..k] = IF s[k] \in K THEN Append(g[(1..k) \ {k}], s[k]) ELSE g[(1..k) \ {k}]
    <3> DEFINE t == 1..k
    <3>1. g[t] = IF t = {} THEN <<>>
                 ELSE IF s[Max(t)] \in K THEN Append(g[t \ {Max(t)}], s[Max(t)]) ELSE g[t \ {Max(t)}]
      <4> HIDE DEF t, D
      <4> USE <1>6
      <4>1. t \in SUBSET D
        BY <2>1 DEF t
      <4> QED
        BY <4>1
    <3> QED
      BY ONLY <2>1, <2>2, <3>1
  <2> QED
    BY <2>1, <2>3
<1>10. F[Len(s)] = g[D]
  BY <1>1
<1> HIDE DEF F
<1> QED
  BY <1>7, <1>8, <1>9, <1>10 DEF Walks

(* The first k members of a sequence, without those that are not in K.       *)
IsKept(r, s, K, k) ==
  /\ r \in Seq(Ids) /\ Len(r) <= k
  /\ \A a \in 1..Len(r) : \E p \in 1..k : s[p] = r[a] /\ s[p] \in K
  /\ \A p \in 1..k : s[p] \in K => \E a \in 1..Len(r) : r[a] = s[p]
  /\ \A a, b \in 1..Len(r) :
       a < b => \E p, q \in 1..k : p < q /\ s[p] = r[a] /\ s[q] = r[b]

LEMMA KeepIsKept ==
  ASSUME NEW s \in Seq(Ids), NEW K
  PROVE  IsKept(Keep(s, K), s, K, Len(s))
<1>1. PICK F : Walks(F, s, K) /\ Keep(s, K) = F[Len(s)]
  BY KeepWalks
<1> DEFINE Bad == {k \in 0..Len(s) : ~IsKept(F[k], s, K, k)}
<1>2. Bad = {}
  <2>1. SUFFICES ASSUME Bad # {} PROVE FALSE
    OBVIOUS
  <2>2. PICK k \in Bad : \A j \in Bad : k <= j
    <3>1. Bad \subseteq Nat
      OBVIOUS
    <3> HIDE DEF Bad
    <3> QED
      BY <2>1, <3>1, HasLeast
  <2>3. k # 0
    <3>1. IsKept(<<>>, s, K, 0)
      BY DEF IsKept
    <3> QED
      BY <1>1, <2>2, <3>1 DEF Walks
  <2>4. k \in 1..Len(s) /\ k - 1 \in 0..Len(s) /\ k - 1 \notin Bad
    BY <2>2, <2>3
  <2> DEFINE r == F[k - 1]
  <2>5. IsKept(r, s, K, k - 1)
    BY <2>4
  <2>6. F[k] = IF s[k] \in K THEN Append(r, s[k]) ELSE r
    BY <1>1, <2>4 DEF Walks
  <2> HIDE DEF r
  <2>7. s[k] \in Ids /\ k \in Nat /\ k - 1 \in Nat /\ 1..(k - 1) \subseteq 1..k /\ k \in 1..k
    BY <2>4
  <2>8. CASE s[k] \notin K
    <3>1. IsKept(r, s, K, k)
      <4>1. r \in Seq(Ids) /\ Len(r) <= k
        BY <2>5, <2>7 DEF IsKept
      <4>2. \A a \in 1..Len(r) : \E p \in 1..k : s[p] = r[a] /\ s[p] \in K
        BY <2>5, <2>7 DEF IsKept
      <4>3. \A p \in 1..k : s[p] \in K => \E a \in 1..Len(r) : r[a] = s[p]
        <5>1. \A p \in 1..k : p = k \/ p \in 1..(k - 1)
          BY <2>7
        <5> QED
          BY <2>5, <2>8, <5>1 DEF IsKept
      <4>4. \A a, b \in 1..Len(r) :
              a < b => \E p, q \in 1..k : p < q /\ s[p] = r[a] /\ s[q] = r[b]
        <5> SUFFICES ASSUME NEW a \in 1..Len(r), NEW b \in 1..Len(r), a < b
                     PROVE  \E p, q \in 1..k : p < q /\ s[p] = r[a] /\ s[q] = r[b]
          OBVIOUS
        <5>1. PICK p \in 1..(k - 1), q \in 1..(k - 1) : p < q /\ s[p] = r[a] /\ s[q] = r[b]
          BY <2>5 DEF IsKept
        <5>2. p \in 1..k /\ q \in 1..k
          BY <2>7
        <5> QED
          BY ONLY <5>1, <5>2
      <4> QED
        BY <4>1, <4>2, <4>3, <4>4 DEF IsKept
    <3> QED
      BY <2>2, <2>6, <2>8, <3>1
  <2>9. CASE s[k] \in K
    <3> DEFINE t == Append(r, s[k])
    <3>1. /\ r \in Seq(Ids) /\ Len(r) \in Nat /\ Len(r) <= k - 1 /\ t \in Seq(Ids)
          /\ Len(t) = Len(r) + 1 /\ t[Len(t)] = s[k]
          /\ \A a \in 1..Len(r) : t[a] = r[a] /\ a \in 1..Len(t)
          /\ \A a \in 1..Len(t) : a = Len(t) \/ a \in 1..Len(r)
          /\ Len(t) \in 1..Len(t)
      BY <2>5, <2>7 DEF IsKept
    <3> HIDE DEF t
    <3>2. ASSUME NEW a \in 1..Len(t) PROVE \E p \in 1..k : s[p] = t[a] /\ s[p] \in K
      <4>1. CASE a = Len(t)
        BY <2>7, <2>9, <3>1, <4>1
      <4>2. CASE a \in 1..Len(r)
        <5>1. PICK p \in 1..(k - 1) : s[p] = r[a] /\ s[p] \in K
          BY <2>5, <4>2 DEF IsKept
        <5> QED
          BY <2>7, <3>1, <4>2, <5>1
      <4> QED
        BY <3>1, <4>1, <4>2
    <3>3. ASSUME NEW p \in 1..k, s[p] \in K PROVE \E a \in 1..Len(t) : t[a] = s[p]
      <4>1. CASE p = k
        BY <3>1, <4>1
      <4>2. CASE p \in 1..(k - 1)
        <5>1. PICK a \in 1..Len(r) : r[a] = s[p]
          BY <2>5, <3>3, <4>2 DEF IsKept
        <5> QED
          BY <3>1, <5>1
      <4> QED
        BY <2>7, <4>1, <4>2
    <3>4. ASSUME NEW a \in 1..Len(t), NEW b \in 1..Len(t), a < b
          PROVE  \E p, q \in 1..k : p < q /\ s[p] = t[a] /\ s[q] = t[b]
      <4>1. a \in 1..Len(r)
        BY <3>1, <3>4
      <4>2. CASE b \in 1..Len(r)
        <5>1. PICK p, q \in 1..(k - 1) : p < q /\ s[p] = r[a] /\ s[q] = r[b]
          BY <2>5, <3>4, <4>1, <4>2 DEF IsKept
        <5> QED
          BY <2>7, <3>1, <4>1, <4>2, <5>1
      <4>3. CASE b = Len(t)
        <5>1. PICK p \in 1..(k - 1) : s[p] = r[a]
          BY <2>5, <4>1 DEF IsKept
        <5>2. p \in 1..k /\ p < k
          BY <2>7
        <5> QED
          BY <2>7, <3>1, <4>1, <4>3, <5>1, <5>2
      <4> QED
        BY <3>1, <4>2, <4>3
    <3>5. IsKept(t, s, K, k)
      BY <2>7, <3>1, <3>2, <3>3, <3>4 DEF IsKept
    <3> QED
      BY <2>2, <2>6, <2>9, <3>5 DEF t
  <2> QED
    BY <2>8, <2>9
<1> QED
  BY <1>1, <1>2

(* In a sequence without repetitions, what is kept is as long as its members  *)
(* are many.                                                                *)
LEMMA LenIsCardinality ==
  ASSUME NEW s \in Seq(Ids), IsInjective(s)
  PROVE  IsFiniteSet(ToSet(s)) /\ Cardinality(ToSet(s)) = Len(s)
<1>1. s \in Bijection(1..Len(s), ToSet(s))
  BY DEF IsInjective, ToSet, Bijection, Injection, Surjection
<1>2. Len(s) \in Nat /\ 1 \in Int
  OBVIOUS
<1>3. IsFiniteSet(1..Len(s)) /\ Cardinality(1..Len(s)) = Len(s)
  BY <1>2, FS_Interval
<1>4. ExistsBijection(1..Len(s), ToSet(s))
  BY <1>1 DEF ExistsBijection
<1> QED
  BY <1>3, <1>4, FS_Bijection

Before(s, i, j) == \E p, q \in DOMAIN s : p < q /\ s[p] = i /\ s[q] = j

LEMMA KeepFacts ==
  ASSUME NEW s \in Seq(Ids), IsInjective(s), NEW K
  PROVE  /\ Keep(s, K) \in Seq(Ids) /\ IsInjective(Keep(s, K))
         /\ ToSet(Keep(s, K)) = ToSet(s) \cap K
         /\ \A i, j : Before(Keep(s, K), i, j) => Before(s, i, j)
<1> DEFINE r == Keep(s, K)
<1>1. IsKept(r, s, K, Len(s))
  BY KeepIsKept
<1> HIDE DEF r
<1>2. r \in Seq(Ids) /\ DOMAIN r = 1..Len(r) /\ DOMAIN s = 1..Len(s)
  BY <1>1 DEF IsKept
<1>3. IsInjective(r)
  <2>1. ASSUME NEW a \in DOMAIN r, NEW b \in DOMAIN r, a < b PROVE r[a] # r[b]
    <3>1. PICK p, q \in 1..Len(s) : p < q /\ s[p] = r[a] /\ s[q] = r[b]
      BY <1>1, <1>2, <2>1 DEF IsKept
    <3> QED
      BY <1>2, <3>1 DEF IsInjective
  <2>2. \A a, b \in DOMAIN r : a < b \/ b < a \/ a = b
    BY <1>2
  <2> QED
    BY <2>1, <2>2 DEF IsInjective
<1>4. ToSet(r) = ToSet(s) \cap K
  <2>1. \A x \in ToSet(r) : x \in ToSet(s) \cap K
    BY <1>1, <1>2 DEF IsKept, ToSet
  <2>2. ASSUME NEW x \in ToSet(s) \cap K PROVE x \in ToSet(r)
    <3>1. PICK p \in 1..Len(s) : s[p] = x
      BY <1>2 DEF ToSet
    <3>2. PICK a \in 1..Len(r) : r[a] = s[p]
      BY <1>1, <3>1 DEF IsKept
    <3> QED
      BY <1>2, <3>1, <3>2 DEF ToSet
  <2> QED
    BY <2>1, <2>2
<1>5. ASSUME NEW i, NEW j, Before(r, i, j) PROVE Before(s, i, j)
  <2>1. PICK a, b \in 1..Len(r) : a < b /\ r[a] = i /\ r[b] = j
    BY <1>2, <1>5 DEF Before
  <2>2. PICK p, q \in 1..Len(s) : p < q /\ s[p] = r[a] /\ s[q] = r[b]
    BY <1>1, <2>1 DEF IsKept
  <2> QED
    BY <1>2, <2>1, <2>2 DEF Before
<1> QED
  BY <1>2, <1>3, <1>4, <1>5 DEF r
-----------------------------------------------------------------------------
(* A ledger that is well typed and counts the bytes of what is resident.     *)
Entry == [artifact : Artifacts, last : Steps]
IsLedger(l) ==
  /\ l = [order |-> l.order, entries |-> l.entries, bytes |-> l.bytes]
  /\ l.entries \in [Resident(l) -> Entry]
  /\ LedgerTypeOK(l)
Balanced(l) == IsLedger(l) /\ l.bytes = BytesOf(l, Resident(l))

LEMMA EmptyIsBalanced == Balanced(EmptyLedger) /\ Resident(EmptyLedger) = {} /\ Len(EmptyLedger.order) = 0
<1>1. Resident(EmptyLedger) = {} /\ ToSet(EmptyLedger.order) = {} /\ EmptyLedger.order = <<>>
  BY DEF EmptyLedger, Resident, ToSet
<1>2. EmptyLedger.bytes = BytesOf(EmptyLedger, Resident(EmptyLedger)) /\ EmptyLedger.bytes = 0
  BY <1>1, BytesOfNone DEF EmptyLedger
<1>3. EmptyLedger.entries \in [Resident(EmptyLedger) -> Entry]
  BY <1>1 DEF EmptyLedger
<1>4. EmptyLedger = [order |-> EmptyLedger.order, entries |-> EmptyLedger.entries, bytes |-> EmptyLedger.bytes]
  BY DEF EmptyLedger
<1>5. LedgerTypeOK(EmptyLedger)
  <2>1. IsInjective(<<>>) /\ <<>> \in Seq(Ids) /\ Len(<<>>) = 0
    BY DEF IsInjective
  <2> QED
    BY <1>1, <1>2, <2>1 DEF LedgerTypeOK
<1> QED
  BY <1>1, <1>2, <1>3, <1>4, <1>5 DEF Balanced, IsLedger

LEMMA LedgerFacts ==
  ASSUME NEW l, IsLedger(l)
  PROVE  /\ l.order \in Seq(Ids) /\ IsInjective(l.order) /\ ToSet(l.order) = Resident(l)
         /\ Resident(l) \subseteq Ids
         /\ Sizes(l, Resident(l)) /\ Cardinality(Resident(l)) = Len(l.order)
         /\ l.entries \in [Resident(l) -> Entry]
         /\ \A i \in Resident(l) : l.entries[i] \in Entry /\ l.entries[i].artifact.id = i
<1>1. /\ l.order \in Seq(Ids) /\ IsInjective(l.order) /\ ToSet(l.order) = Resident(l)
      /\ l.entries \in [Resident(l) -> Entry]
      /\ \A i \in Resident(l) : l.entries[i].artifact \in {a \in Artifacts : a.id = i}
  BY DEF IsLedger, LedgerTypeOK
<1>2. Resident(l) \subseteq Ids
  BY <1>1 DEF ToSet
<1>3. IsFiniteSet(Resident(l)) /\ Cardinality(Resident(l)) = Len(l.order)
  BY <1>1, LenIsCardinality
<1>4. \A i \in Resident(l) : l.entries[i].artifact.size \in Nat
  BY <1>1, LedgerAssumption
<1> QED
  BY <1>1, <1>2, <1>3, <1>4 DEF Sizes

(* Removing entries takes them, and their bytes, and leaves the others as     *)
(* they are, in the order they were.                                        *)
LEMMA RemoveFacts ==
  ASSUME NEW l, Balanced(l), NEW ids, ids \subseteq Resident(l)
  PROVE  LET m == RemoveIds(l, ids) IN
         /\ Balanced(m) /\ Resident(m) = Resident(l) \ ids
         /\ \A i \in Resident(m) : m.entries[i] = l.entries[i]
         /\ m.bytes <= l.bytes /\ Len(m.order) <= Len(l.order)
         /\ \A i, j : Before(m.order, i, j) => Before(l.order, i, j)
<1> DEFINE m == RemoveIds(l, ids)
           rest == Resident(l) \ ids
<1>1. /\ m.order = Keep(l.order, rest) /\ m.entries = [i \in rest |-> l.entries[i]]
      /\ m.bytes = l.bytes - BytesOf(l, ids)
      /\ m = [order |-> m.order, entries |-> m.entries, bytes |-> m.bytes]
  BY DEF RemoveIds, Restrict
<1> HIDE DEF m
<1>2. IsLedger(l) /\ l.bytes = BytesOf(l, Resident(l)) /\ l.bytes \in Nat
  BY DEF Balanced, IsLedger, LedgerTypeOK
<1>3. /\ l.order \in Seq(Ids) /\ IsInjective(l.order) /\ ToSet(l.order) = Resident(l)
      /\ Sizes(l, Resident(l)) /\ l.entries \in [Resident(l) -> Entry]
      /\ \A i \in Resident(l) : l.entries[i] \in Entry /\ l.entries[i].artifact.id = i
  BY <1>2, LedgerFacts
<1>4. Resident(m) = rest /\ \A i \in rest : m.entries[i] = l.entries[i]
  BY <1>1 DEF Resident
<1>5. /\ m.order \in Seq(Ids) /\ IsInjective(m.order) /\ ToSet(m.order) = rest
      /\ \A i, j : Before(m.order, i, j) => Before(l.order, i, j)
  <2>1. ToSet(l.order) \cap rest = rest
    BY <1>3
  <2> QED
    BY <1>1, <1>3, <2>1, KeepFacts
<1>6. /\ m.bytes = BytesOf(l, rest) /\ m.bytes \in Nat /\ m.bytes <= l.bytes
  <2>1. BytesOf(l, ids) \in Nat /\ BytesOf(l, rest) \in Nat
    BY <1>3, BytesNat
  <2>2. BytesOf(l, Resident(l)) = BytesOf(l, rest) + BytesOf(l, ids)
    BY <1>3, BytesSplit
  <2> QED
    BY <1>1, <1>2, <2>1, <2>2
<1>7. BytesOf(m, rest) = BytesOf(l, rest)
  <2>1. Sizes(l, rest)
    BY <1>3, BytesNat
  <2> QED
    BY <1>4, <2>1, BytesSame
<1>8. IsLedger(m)
  <2>1. m.entries \in [rest -> Entry]
    BY <1>1, <1>3
  <2>2. \A i \in rest : /\ m.entries[i].artifact \in {a \in Artifacts : a.id = i}
                         /\ m.entries[i].last \in Steps
    BY <1>3, <1>4 DEF Entry
  <2>3. LedgerTypeOK(m)
    BY <1>4, <1>5, <1>6, <2>2 DEF LedgerTypeOK
  <2> QED
    BY <1>1, <1>4, <2>1, <2>3 DEF IsLedger
<1>9. Len(m.order) <= Len(l.order)
  <2>1. Cardinality(rest) = Len(m.order) /\ Cardinality(Resident(l)) = Len(l.order)
    BY <1>2, <1>4, <1>8, LedgerFacts
  <2>2. Cardinality(rest) <= Cardinality(Resident(l))
    BY <1>3, FS_Subset DEF Sizes
  <2> QED
    BY <2>1, <2>2
<1> QED
  BY <1>4, <1>5, <1>6, <1>7, <1>8, <1>9 DEF m, Balanced

(* What both Touch and Insert do to the order: an id goes to its end.        *)
LEMMA AppendFacts ==
  ASSUME NEW s \in Seq(Ids), IsInjective(s), NEW i \in Ids, i \notin ToSet(s)
  PROVE  /\ Append(s, i) \in Seq(Ids) /\ IsInjective(Append(s, i))
         /\ ToSet(Append(s, i)) = ToSet(s) \cup {i}
<1> DEFINE t == Append(s, i)
<1>1. /\ t \in Seq(Ids) /\ DOMAIN s = 1..Len(s) /\ DOMAIN t = 1..Len(t)
      /\ Len(s) \in Nat /\ Len(t) = Len(s) + 1 /\ t[Len(t)] = i
      /\ \A k \in 1..Len(s) : t[k] = s[k]
      /\ \A k \in 1..Len(t) : k = Len(t) \/ k \in 1..Len(s)
      /\ Len(t) \in 1..Len(t) /\ \A k \in 1..Len(s) : k \in 1..Len(t)
  OBVIOUS
<1> HIDE DEF t
<1>2. \A k \in 1..Len(s) : s[k] # i
  BY <1>1 DEF ToSet
<1>3. IsInjective(t)
  BY <1>1, <1>2 DEF IsInjective
<1>4. ToSet(t) = ToSet(s) \cup {i}
  <2>1. \A x \in ToSet(t) : x \in ToSet(s) \cup {i}
    BY <1>1 DEF ToSet
  <2>2. \A x \in ToSet(s) \cup {i} : x \in ToSet(t)
    BY <1>1 DEF ToSet
  <2> QED
    BY <2>1, <2>2
<1> QED
  BY <1>1, <1>3, <1>4 DEF t

LEMMA TouchFacts ==
  ASSUME NEW l, Balanced(l), NEW i \in Resident(l), NEW step \in Steps
  PROVE  LET m == Touch(l, i, step) IN
         /\ Balanced(m) /\ Resident(m) = Resident(l)
         /\ \A j \in Resident(l) : m.entries[j].artifact = l.entries[j].artifact
         /\ m.entries[i].last = step
         /\ \A j \in Resident(l) \ {i} : m.entries[j] = l.entries[j]
         /\ m.bytes = l.bytes /\ Len(m.order) = Len(l.order)
<1> DEFINE m == Touch(l, i, step)
           others == Keep(l.order, Resident(l) \ {i})
<1>1. IsLedger(l) /\ l.bytes = BytesOf(l, Resident(l)) /\ l.bytes \in Nat
  BY DEF Balanced, IsLedger, LedgerTypeOK
<1>2. /\ l.order \in Seq(Ids) /\ IsInjective(l.order) /\ ToSet(l.order) = Resident(l)
      /\ Resident(l) \subseteq Ids
      /\ Sizes(l, Resident(l)) /\ l.entries \in [Resident(l) -> Entry]
      /\ \A j \in Resident(l) : l.entries[j] \in Entry /\ l.entries[j].artifact.id = j
      /\ Cardinality(Resident(l)) = Len(l.order)
  BY <1>1, LedgerFacts
<1>3. /\ m.order = Append(others, i) /\ m.entries = [l.entries EXCEPT ![i].last = step]
      /\ m.bytes = l.bytes
      /\ m = [order |-> m.order, entries |-> m.entries, bytes |-> m.bytes]
  BY DEF Touch
<1> HIDE DEF m
<1>4. /\ Resident(m) = Resident(l) /\ m.entries \in [Resident(l) -> Entry]
      /\ \A j \in Resident(l) : m.entries[j].artifact = l.entries[j].artifact
      /\ m.entries[i].last = step
      /\ \A j \in Resident(l) \ {i} : m.entries[j] = l.entries[j]
  <2>1. l.entries[i] \in Entry /\ [l.entries[i] EXCEPT !.last = step] \in Entry
    BY <1>2 DEF Entry
  <2>2. /\ [l.entries[i] EXCEPT !.last = step].artifact = l.entries[i].artifact
        /\ [l.entries[i] EXCEPT !.last = step].last = step
    BY <2>1 DEF Entry
  <2>3. m.entries = [l.entries EXCEPT ![i] = [l.entries[i] EXCEPT !.last = step]]
    BY <1>3
  <2>4. m.entries \in [Resident(l) -> Entry]
    BY <1>2, <2>1, <2>3
  <2>5. m.entries[i] = [l.entries[i] EXCEPT !.last = step]
    BY <1>2, <2>3
  <2>6. \A j \in Resident(l) \ {i} : m.entries[j] = l.entries[j]
    BY <1>2, <2>3
  <2>7. Resident(m) = Resident(l)
    BY <2>4 DEF Resident
  <2>8. \A j \in Resident(l) : m.entries[j].artifact = l.entries[j].artifact
    BY <2>2, <2>5, <2>6, Zenon
  <2>9. m.entries[i].last = step
    BY <2>2, <2>5, Zenon
  <2> QED
    BY ONLY <2>4, <2>6, <2>7, <2>8, <2>9
<1>5. m.order \in Seq(Ids) /\ IsInjective(m.order) /\ ToSet(m.order) = Resident(m)
  <2>1. others \in Seq(Ids) /\ IsInjective(others) /\ ToSet(others) = Resident(l) \ {i}
    BY <1>2, KeepFacts
  <2> HIDE DEF others
  <2>2. i \in Ids /\ i \notin ToSet(others) /\ ToSet(others) \cup {i} = Resident(l)
    BY <1>2, <2>1
  <2>3. /\ Append(others, i) \in Seq(Ids) /\ IsInjective(Append(others, i))
        /\ ToSet(Append(others, i)) = Resident(l)
    BY ONLY <2>1, <2>2, AppendFacts
  <2> QED
    BY ONLY <1>3, <1>4, <2>3
<1>6. IsLedger(m)
  <2>1. \A j \in Resident(m) : /\ m.entries[j].artifact \in {a \in Artifacts : a.id = j}
                                /\ m.entries[j].last \in Steps
    BY <1>2, <1>4 DEF Entry
  <2>2. LedgerTypeOK(m)
    BY <1>1, <1>3, <1>5, <2>1 DEF LedgerTypeOK
  <2> QED
    BY <1>3, <1>4, <2>2 DEF IsLedger
<1>7. BytesOf(m, Resident(m)) = BytesOf(l, Resident(l))
  BY <1>2, <1>4, BytesSame
<1>8. Len(m.order) = Len(l.order)
  BY <1>2, <1>4, <1>6, LedgerFacts
<1> QED
  BY <1>1, <1>3, <1>4, <1>6, <1>7, <1>8 DEF m, Balanced

LEMMA InsertFacts ==
  ASSUME NEW l, Balanced(l), NEW a \in Artifacts, a.id \notin Resident(l), NEW step \in Steps
  PROVE  LET m == Insert(l, a, step) IN
         /\ Balanced(m) /\ Resident(m) = Resident(l) \cup {a.id}
         /\ m.entries[a.id] = [artifact |-> a, last |-> step]
         /\ \A j \in Resident(l) : m.entries[j] = l.entries[j]
         /\ m.bytes = l.bytes + a.size /\ Len(m.order) = Len(l.order) + 1
<1> DEFINE m == Insert(l, a, step)
           all == Resident(l) \cup {a.id}
           new == [artifact |-> a, last |-> step]
<1>1. IsLedger(l) /\ l.bytes = BytesOf(l, Resident(l)) /\ l.bytes \in Nat
  BY DEF Balanced, IsLedger, LedgerTypeOK
<1>2. /\ l.order \in Seq(Ids) /\ IsInjective(l.order) /\ ToSet(l.order) = Resident(l)
      /\ Sizes(l, Resident(l)) /\ l.entries \in [Resident(l) -> Entry]
      /\ \A j \in Resident(l) : l.entries[j] \in Entry /\ l.entries[j].artifact.id = j
  BY <1>1, LedgerFacts
<1>3. /\ m.order = Append(l.order, a.id)
      /\ m.entries = [j \in all |-> IF j = a.id THEN new ELSE l.entries[j]]
      /\ m.bytes = l.bytes + a.size
      /\ m = [order |-> m.order, entries |-> m.entries, bytes |-> m.bytes]
  BY DEF Insert
<1>4. a.id \in Ids /\ a.size \in Nat /\ new \in Entry /\ new.artifact = a
  BY LedgerAssumption DEF Entry
<1> HIDE DEF m, new
<1>5. /\ Resident(m) = all /\ m.entries[a.id] = new
      /\ \A j \in Resident(l) : m.entries[j] = l.entries[j]
  BY <1>3 DEF Resident
<1>6. m.order \in Seq(Ids) /\ IsInjective(m.order) /\ ToSet(m.order) = all
  BY <1>2, <1>3, <1>4, AppendFacts
<1>7. IsLedger(m)
  <2>1. \A j \in all : m.entries[j] \in Entry /\ m.entries[j].artifact.id = j
    BY <1>2, <1>4, <1>5
  <2>2. m.entries \in [all -> Entry]
    BY <1>3, <2>1
  <2>3. LedgerTypeOK(m)
    <3>1. \A j \in Resident(m) : /\ m.entries[j].artifact \in {b \in Artifacts : b.id = j}
                                  /\ m.entries[j].last \in Steps
      BY <1>5, <2>1 DEF Entry
    <3>2. m.bytes \in Nat
      BY <1>1, <1>3, <1>4
    <3> QED
      BY <1>5, <1>6, <3>1, <3>2 DEF LedgerTypeOK
  <2> QED
    BY <1>3, <1>5, <2>2, <2>3 DEF IsLedger
<1>8. m.bytes = BytesOf(m, all)
  <2>1. Sizes(m, all)
    BY <1>5, <1>7, LedgerFacts
  <2>2. BytesOf(m, all) = BytesOf(m, all \ {a.id}) + a.size
    BY <1>4, <1>5, <2>1, BytesWithout
  <2>3. all \ {a.id} = Resident(l)
    OBVIOUS
  <2>4. BytesOf(m, Resident(l)) = BytesOf(l, Resident(l))
    BY <1>2, <1>5, BytesSame
  <2> QED
    BY <1>1, <1>3, <2>2, <2>3, <2>4
<1>9. Len(m.order) = Len(l.order) + 1
  BY <1>2, <1>3
<1> QED
  BY <1>3, <1>5, <1>7, <1>8, <1>9 DEF m, new, Balanced

(* Whatever goes to make room may go, and is older than what may go and      *)
(* stays.                                                                   *)
LEMMA VictimsFacts ==
  ASSUME NEW l, Balanced(l), NEW held, NEW a
  PROVE  /\ Victims(l, held, a) \subseteq Evictable(l, held)
         /\ \A i \in Victims(l, held, a), j \in Evictable(l, held) \ Victims(l, held, a) :
              Before(l.order, i, j)
<1> DEFINE c == Keep(l.order, Evictable(l, held))
           first(n) == ToSet(SubSeq(c, 1, n))
           enough == {n \in 0..Len(c) : Fits(RemoveIds(l, first(n)), a)}
           n == IF enough = {} THEN Len(c) ELSE Min(enough)
<1>1. Victims(l, held, a) = first(n)
  BY Zenon DEF Victims
<1>2. l.order \in Seq(Ids) /\ IsInjective(l.order) /\ ToSet(l.order) = Resident(l)
  BY LedgerFacts DEF Balanced
<1>3. Evictable(l, held) \subseteq Resident(l)
  BY DEF Evictable
<1>4. /\ c \in Seq(Ids) /\ ToSet(c) = Evictable(l, held)
      /\ \A i, j : Before(c, i, j) => Before(l.order, i, j)
  <2>1. Resident(l) \cap Evictable(l, held) = Evictable(l, held)
    BY <1>3
  <2> QED
    BY <1>2, <2>1, KeepFacts
<1> HIDE DEF c
<1>5. n \in 0..Len(c)
  <2>1. Len(c) \in 0..Len(c) /\ enough \subseteq Nat /\ enough \subseteq 0..Len(c)
    BY <1>4
  <2> HIDE DEF enough
  <2>2. CASE enough # {}
    <3>1. PICK m \in enough : \A k \in enough : m <= k
      BY <2>1, <2>2, HasLeast
    <3>2. Min(enough) \in enough
      BY <3>1 DEF Min
    <3> QED
      BY <2>1, <2>2, <3>2
  <2> QED
    BY <2>1, <2>2
<1> HIDE DEF n
<1>6. first(n) = {c[k] : k \in 1..n}
  <2>1. /\ SubSeq(c, 1, n) = [k \in 1..n |-> c[k]]
    BY <1>4, <1>5
  <2> QED
    BY <2>1 DEF ToSet
<1>7. DOMAIN c = 1..Len(c) /\ 1..n \subseteq 1..Len(c)
  BY <1>4, <1>5
<1>8. first(n) \subseteq Evictable(l, held)
  BY <1>4, <1>6, <1>7 DEF ToSet
<1>9. ASSUME NEW i \in first(n), NEW j \in Evictable(l, held), j \notin first(n)
      PROVE  Before(l.order, i, j)
  <2>1. PICK p \in 1..n : i = c[p]
    BY <1>6
  <2>2. PICK q \in 1..Len(c) : j = c[q]
    BY <1>4, <1>7 DEF ToSet
  <2>3. p < q
    <3>1. q \notin 1..n
      BY <1>6, <1>9, <2>2
    <3> QED
      BY <1>5, <2>1, <2>2, <3>1
  <2>4. Before(c, i, j)
    BY <1>7, <2>1, <2>2, <2>3 DEF Before
  <2> QED
    BY <1>4, <2>4
<1> HIDE DEF first
<1> QED
  BY <1>1, <1>8, <1>9

(* Expiry: what is left may stay, or is young enough.                        *)
LEMMA EvictExpiredFacts ==
  ASSUME NEW l, Balanced(l), NEW held, NEW step
  PROVE  LET m == EvictExpired(l, held, step)
             gone == Expired(l, held, step)
         IN  /\ Balanced(m) /\ gone \subseteq Evictable(l, held) /\ gone \subseteq Resident(l)
             /\ Resident(m) = Resident(l) \ gone
             /\ \A i \in Resident(m) : m.entries[i] = l.entries[i]
             /\ m.bytes <= l.bytes /\ Len(m.order) <= Len(l.order)
             /\ \A i, j : Before(m.order, i, j) => Before(l.order, i, j)
             /\ Evictable(m, held) = Evictable(l, held) \ gone
<1> DEFINE gone == Expired(l, held, step)
           m == EvictExpired(l, held, step)
<1>1. gone \subseteq Evictable(l, held) /\ gone \subseteq Resident(l)
  BY DEF Expired, Evictable
<1>2. m = RemoveIds(l, gone)
  BY DEF EvictExpired
<1> HIDE DEF gone, m
<1>3. /\ Balanced(m) /\ Resident(m) = Resident(l) \ gone
      /\ \A i \in Resident(m) : m.entries[i] = l.entries[i]
      /\ m.bytes <= l.bytes /\ Len(m.order) <= Len(l.order)
      /\ \A i, j : Before(m.order, i, j) => Before(l.order, i, j)
  BY <1>1, <1>2, RemoveFacts
<1>4. Evictable(m, held) = Evictable(l, held) \ gone
  BY <1>3 DEF Evictable
<1> QED
  BY <1>1, <1>3, <1>4 DEF gone, m

(* An admission, after expiry: room is made, and there is room or there is   *)
(* not; what was there and stays is as it was.                               *)
LEMMA MakeRoomFacts ==
  ASSUME NEW l, Balanced(l), NEW held, NEW a
  PROVE  LET m == MakeRoom(l, held, a)
             gone == Victims(l, held, a)
         IN  /\ Balanced(m) /\ gone \subseteq Evictable(l, held) /\ gone \subseteq Resident(l)
             /\ Resident(m) = Resident(l) \ gone
             /\ \A i \in Resident(m) : m.entries[i] = l.entries[i]
             /\ m.bytes <= l.bytes /\ Len(m.order) <= Len(l.order)
<1> DEFINE gone == Victims(l, held, a)
           m == MakeRoom(l, held, a)
<1>1. gone \subseteq Evictable(l, held) /\ gone \subseteq Resident(l)
  BY VictimsFacts DEF Evictable
<1>2. m = RemoveIds(l, gone)
  BY DEF MakeRoom
<1> HIDE DEF gone, m
<1>3. /\ Balanced(m) /\ Resident(m) = Resident(l) \ gone
      /\ \A i \in Resident(m) : m.entries[i] = l.entries[i]
      /\ m.bytes <= l.bytes /\ Len(m.order) <= Len(l.order)
  BY <1>1, <1>2, RemoveFacts
<1> QED
  BY <1>1, <1>3 DEF gone, m
-----------------------------------------------------------------------------
(* What an operation of a ledger that first drops what has expired at a step  *)
(* may do: keep the books and the policy, evict only what may go, oldest      *)
(* first, and tell what it evicted.                                          *)
Within(l) == Balanced(l) /\ l.bytes <= MaxBytes /\ Len(l.order) <= MaxEntries
Outcome(l, m, held, step, evicted, id) ==
  /\ Within(m)
  /\ Resident(l) \ Resident(m) \subseteq Evictable(l, held)
  /\ Resident(l) \ Resident(m) \subseteq evicted
  /\ evicted \subseteq Resident(l) /\ evicted \cap Resident(m) \subseteq {id}
  /\ OldestFirst(l, m, held, step)
Young(m, held, step) ==
  \A i \in Resident(m) : \/ i \in held \/ m.entries[i].artifact.protected
                         \/ step - m.entries[i].last <= MaxAge
SameArtifacts(l, m) ==
  \A i \in Resident(m) : i \in Resident(l) /\ m.entries[i].artifact = l.entries[i].artifact

Added(l, m, a) ==
  /\ Resident(m) = Resident(l) \cup {a.id} /\ m.entries[a.id].artifact = a
  /\ \A i \in Resident(l) : m.entries[i] = l.entries[i]

LEMMA WithinFacts ==
  ASSUME NEW l, Within(l)
  PROVE  LedgerTypeOK(l) /\ WithinBudget(l) /\ Resident(l) \subseteq Ids
BY LedgerFacts DEF Within, Balanced, IsLedger, WithinBudget

LEMMA FreshOutcome ==
  ASSUME NEW l, Within(l), NEW held, NEW step \in Steps, NEW id
  PROVE  LET m == EvictExpired(l, held, step) IN
         /\ Outcome(l, m, held, step, Expired(l, held, step), id)
         /\ Young(m, held, step) /\ SameArtifacts(l, m)
<1> DEFINE m == EvictExpired(l, held, step)
           gone == Expired(l, held, step)
<1>1. /\ Balanced(m) /\ gone \subseteq Evictable(l, held) /\ gone \subseteq Resident(l)
      /\ Resident(m) = Resident(l) \ gone
      /\ \A i \in Resident(m) : m.entries[i] = l.entries[i]
      /\ m.bytes <= l.bytes /\ Len(m.order) <= Len(l.order)
  BY EvictExpiredFacts DEF Within
<1>2. \A i \in Resident(l) \ gone : \/ i \in held \/ l.entries[i].artifact.protected
                                    \/ step - l.entries[i].last <= MaxAge
  <2> SUFFICES ASSUME NEW i \in Resident(l), i \notin held, ~l.entries[i].artifact.protected,
                      ~(step - l.entries[i].last <= MaxAge)
               PROVE  i \in gone
    OBVIOUS
  <2>1. l.entries[i].last \in Int /\ step \in Int /\ MaxAge \in Int
    BY LedgerFacts, LedgerAssumption DEF Within, Balanced, Entry, Steps
  <2>2. step - l.entries[i].last > MaxAge
    BY <2>1
  <2> QED
    BY <2>2 DEF Expired, Evictable
<1>3. Within(m)
  <2>1. l.bytes \in Nat /\ m.bytes \in Nat /\ Len(l.order) \in Nat /\ Len(m.order) \in Nat
    BY <1>1 DEF Within, Balanced, IsLedger, LedgerTypeOK
  <2>2. MaxBytes \in Nat /\ MaxEntries \in Nat
    BY LedgerAssumption
  <2> HIDE DEF m
  <2> QED
    BY <1>1, <2>1, <2>2 DEF Within
<1> HIDE DEF m
<1>4. OldestFirst(l, m, held, step)
  BY <1>1 DEF OldestFirst, gone
<1> HIDE DEF gone
<1>5. Outcome(l, m, held, step, gone, id)
  BY <1>1, <1>3, <1>4 DEF Outcome
<1>6. Young(m, held, step) /\ SameArtifacts(l, m)
  BY <1>1, <1>2 DEF Young, SameArtifacts
<1> QED
  BY <1>5, <1>6 DEF m, gone

LEMMA TouchOutcome ==
  ASSUME NEW l, Within(l), NEW held, NEW step \in Steps, NEW id,
         NEW i \in Resident(EvictExpired(l, held, step))
  PROVE  LET m == Touch(EvictExpired(l, held, step), i, step) IN
         /\ Outcome(l, m, held, step, Expired(l, held, step), id)
         /\ Young(m, held, step) /\ SameArtifacts(l, m)
         /\ Resident(m) = Resident(EvictExpired(l, held, step))
         /\ step - m.entries[i].last <= MaxAge
<1> DEFINE fresh == EvictExpired(l, held, step)
           m == Touch(fresh, i, step)
           gone == Expired(l, held, step)
<1>1. /\ Outcome(l, fresh, held, step, gone, id)
      /\ Young(fresh, held, step) /\ SameArtifacts(l, fresh)
  BY FreshOutcome
<1>2. /\ Balanced(m) /\ Resident(m) = Resident(fresh)
      /\ \A j \in Resident(fresh) : m.entries[j].artifact = fresh.entries[j].artifact
      /\ m.entries[i].last = step
      /\ \A j \in Resident(fresh) \ {i} : m.entries[j] = fresh.entries[j]
      /\ m.bytes = fresh.bytes /\ Len(m.order) = Len(fresh.order)
  BY <1>1, TouchFacts DEF Outcome, Within
<1> HIDE DEF fresh, m, gone
<1>3. Outcome(l, m, held, step, gone, id)
  <2>1. Within(m)
    BY <1>1, <1>2 DEF Outcome, Within
  <2>2. OldestFirst(l, m, held, step)
    BY <1>1, <1>2 DEF Outcome, OldestFirst
  <2> QED
    BY <1>1, <1>2, <2>1, <2>2 DEF Outcome
<1>4. step - m.entries[i].last <= MaxAge
  BY <1>2, LedgerAssumption DEF Steps
<1>5. Young(m, held, step)
  BY <1>1, <1>2, <1>4 DEF Young
<1>6. SameArtifacts(l, m)
  BY <1>1, <1>2 DEF SameArtifacts
<1> QED
  BY <1>2, <1>3, <1>4, <1>5, <1>6 DEF fresh, m, gone

LEMMA RoomOutcome ==
  ASSUME NEW l, Within(l), NEW held, NEW step \in Steps, NEW id, NEW a
  PROVE  LET fresh == EvictExpired(l, held, step)
             m == MakeRoom(fresh, held, a)
         IN  /\ Outcome(l, m, held, step, Expired(l, held, step) \cup Victims(fresh, held, a), id)
             /\ Young(m, held, step) /\ SameArtifacts(l, m)
             /\ Resident(m) \subseteq Resident(fresh)
<1> DEFINE fresh == EvictExpired(l, held, step)
           m == MakeRoom(fresh, held, a)
           gone == Expired(l, held, step)
           victims == Victims(fresh, held, a)
<1>1. /\ Outcome(l, fresh, held, step, gone, id)
      /\ Young(fresh, held, step) /\ SameArtifacts(l, fresh)
  BY FreshOutcome
<1>2. /\ Balanced(l) /\ Balanced(fresh) /\ Resident(fresh) = Resident(l) \ gone
      /\ gone \subseteq Evictable(l, held) /\ gone \subseteq Resident(l)
      /\ \A i, j : Before(fresh.order, i, j) => Before(l.order, i, j)
      /\ Evictable(fresh, held) = Evictable(l, held) \ gone
  BY EvictExpiredFacts DEF Within
<1>3. /\ Balanced(m) /\ victims \subseteq Evictable(fresh, held) /\ victims \subseteq Resident(fresh)
      /\ Resident(m) = Resident(fresh) \ victims
      /\ \A i \in Resident(m) : m.entries[i] = fresh.entries[i]
      /\ m.bytes <= fresh.bytes /\ Len(m.order) <= Len(fresh.order)
  BY <1>2, MakeRoomFacts
<1>4. \A i \in victims, j \in Evictable(fresh, held) \ victims : Before(fresh.order, i, j)
  BY <1>2, VictimsFacts
<1> HIDE DEF fresh, m, victims
<1>5. Within(m)
  <2>1. fresh.bytes \in Nat /\ m.bytes \in Nat /\ Len(fresh.order) \in Nat /\ Len(m.order) \in Nat
    BY <1>2, <1>3 DEF Balanced, IsLedger, LedgerTypeOK
  <2>2. MaxBytes \in Nat /\ MaxEntries \in Nat /\ fresh.bytes <= MaxBytes /\ Len(fresh.order) <= MaxEntries
    BY <1>1, LedgerAssumption DEF Outcome, Within
  <2> QED
    BY <1>3, <2>1, <2>2 DEF Within
<1>6. OldestFirst(l, m, held, step)
  <2> SUFFICES ASSUME NEW i \in Resident(l) \ gone, NEW j \in Resident(l) \ gone,
                      i \notin Resident(m), j \in Resident(m), j \in Evictable(l, held)
               PROVE  Before(l.order, i, j)
    BY DEF OldestFirst, Before
  <2>1. i \in victims /\ j \in Evictable(fresh, held) \ victims
    BY <1>2, <1>3
  <2> QED
    BY <1>2, <1>4, <2>1
<1> HIDE DEF gone
<1>7. Outcome(l, m, held, step, gone \cup victims, id)
  BY <1>2, <1>3, <1>5, <1>6 DEF Outcome
<1>8. Young(m, held, step) /\ SameArtifacts(l, m)
  BY <1>1, <1>3 DEF Young, SameArtifacts
<1> QED
  BY <1>3, <1>7, <1>8 DEF fresh, m, gone, victims

LEMMA AdmitOutcome ==
  ASSUME NEW l, Within(l), NEW held, NEW step \in Steps, NEW a \in Artifacts,
         a.id \notin Resident(EvictExpired(l, held, step)),
         Fits(MakeRoom(EvictExpired(l, held, step), held, a), a)
  PROVE  LET fresh == EvictExpired(l, held, step)
             room == MakeRoom(fresh, held, a)
             m == Insert(room, a, step)
         IN  /\ Outcome(l, m, held, step, Expired(l, held, step) \cup Victims(fresh, held, a), a.id)
             /\ Young(m, held, step) /\ SameArtifacts(l, room) /\ Added(room, m, a)
<1> DEFINE fresh == EvictExpired(l, held, step)
           room == MakeRoom(fresh, held, a)
           m == Insert(room, a, step)
           evicted == Expired(l, held, step) \cup Victims(fresh, held, a)
<1>1. /\ Outcome(l, room, held, step, evicted, a.id)
      /\ Young(room, held, step) /\ SameArtifacts(l, room) /\ Resident(room) \subseteq Resident(fresh)
  BY RoomOutcome
<1>2. Resident(fresh) = Resident(l) \ Expired(l, held, step)
  BY EvictExpiredFacts DEF Within
<1>3. /\ Balanced(m) /\ Resident(m) = Resident(room) \cup {a.id}
      /\ m.entries[a.id] = [artifact |-> a, last |-> step]
      /\ \A j \in Resident(room) : m.entries[j] = room.entries[j]
      /\ m.bytes = room.bytes + a.size /\ Len(m.order) = Len(room.order) + 1
  BY <1>1, InsertFacts DEF Outcome, Within
<1>4. room.bytes + a.size <= MaxBytes /\ Len(room.order) + 1 <= MaxEntries /\ a.id \notin Resident(fresh)
  BY DEF Fits
<1> HIDE DEF fresh, room, m, evicted
<1>5. Within(m)
  BY <1>3, <1>4 DEF Within
<1>6. OldestFirst(l, m, held, step)
  <2> SUFFICES ASSUME NEW i \in Resident(l) \ Expired(l, held, step),
                      NEW j \in Resident(l) \ Expired(l, held, step),
                      i \notin Resident(m), j \in Resident(m), j \in Evictable(l, held)
               PROVE  Before(l.order, i, j)
    BY DEF OldestFirst, Before
  <2>1. i \notin Resident(room) /\ j \in Resident(room)
    BY <1>2, <1>3, <1>4
  <2> QED
    BY <1>1, <2>1 DEF Outcome, OldestFirst, Before
<1>7. Outcome(l, m, held, step, evicted, a.id)
  BY <1>1, <1>3, <1>5, <1>6 DEF Outcome
<1>8. Young(m, held, step)
  <2>1. step - m.entries[a.id].last <= MaxAge
    BY <1>3, LedgerAssumption DEF Steps
  <2> QED
    BY <1>1, <1>3, <2>1 DEF Young
<1>9. Added(room, m, a)
  BY <1>3 DEF Added
<1> QED
  BY <1>1, <1>7, <1>8, <1>9 DEF fresh, room, m, evicted

-----------------------------------------------------------------------------
(* A rollback touches the lanes of its snapshot one after the other, which    *)
(* changes nothing but when they were used last and their place in the order. *)
Touched(l, m) ==
  /\ Balanced(m) /\ Resident(m) = Resident(l)
  /\ \A i \in Resident(l) : m.entries[i].artifact = l.entries[i].artifact
  /\ m.bytes = l.bytes /\ Len(m.order) = Len(l.order)

LEMMA TouchAllWalks ==
  ASSUME NEW l, Balanced(l), NEW s \in Seq(Ids), ToSet(s) \subseteq Resident(l), NEW step \in Steps
  PROVE  \E F : /\ F[0] = l /\ TouchAll(l, s, step) = F[Len(s)]
                /\ \A k \in 1..Len(s) : F[k] = Touch(F[k - 1], s[k], step)
<1> DEFINE D == DOMAIN s
           R == Resident(l)
           V == [order : Seq(Ids), entries : [R -> Entry], bytes : Nat]
           Rule(f) == [t \in SUBSET D |-> IF t = {} THEN l ELSE Touch(f[t \ {Max(t)}], s[Max(t)], step)]
           c == [t \in SUBSET D |-> Max(t)]
           next == [p \in V \X D |-> Touch(p[1], s[p[2]], step)]
<1>1. D = 1..Len(s) /\ Len(s) \in Nat /\ IsFiniteSet(D) /\ \A k \in D : s[k] \in R
  BY FS_Interval DEF ToSet
<1>2. \A t \in SUBSET D : t # {} => c[t] \in t
  BY <1>1, MaxOfPositions
<1>3. next \in [V \X D -> V]
  <2>1. ASSUME NEW m \in V, NEW k \in D PROVE Touch(m, s[k], step) \in V
    <3>1. DOMAIN m.entries = R /\ m.order \in Seq(Ids) /\ m.entries \in [R -> Entry] /\ s[k] \in R
      BY <1>1
    <3>2. Keep(m.order, Resident(m) \ {s[k]}) \in Seq(Ids)
      BY <3>1, KeepIsKept DEF IsKept
    <3>3. Append(Keep(m.order, Resident(m) \ {s[k]}), s[k]) \in Seq(Ids)
      BY <3>2
    <3>4. [m.entries EXCEPT ![s[k]].last = step] \in [R -> Entry]
      <4>1. m.entries[s[k]] \in Entry /\ [m.entries[s[k]] EXCEPT !.last = step] \in Entry
        BY <3>1 DEF Entry
      <4>2. [m.entries EXCEPT ![s[k]].last = step]
              = [m.entries EXCEPT ![s[k]] = [m.entries[s[k]] EXCEPT !.last = step]]
        OBVIOUS
      <4> QED
        BY <3>1, <4>1, <4>2
    <3> QED
      BY <3>3, <3>4 DEF Touch
  <2> QED
    BY <2>1
<1>4. l \in V
  BY LedgerFacts DEF Balanced, IsLedger, LedgerTypeOK
<1>5. PICK f \in [SUBSET D -> V] : Folds(f, SUBSET D, l, c, next)
  <2> HIDE DEF c, next, D, V
  <2> QED
    BY <1>1, <1>2, <1>3, <1>4, FoldExists
<1>6. f = Rule(f)
  <2>1. ASSUME NEW t \in SUBSET D, t # {}
        PROVE  f[t] = Touch(f[t \ {Max(t)}], s[Max(t)], step)
    <3>1. c[t] = Max(t) /\ Max(t) \in D
      BY <1>2, <2>1
    <3>2. f[t] = next[<<f[t \ {c[t]}], c[t]>>]
      BY <1>5, <2>1 DEF Folds
    <3>3. f[t \ {Max(t)}] \in V
      BY <1>5
    <3> HIDE DEF V
    <3> QED
      BY <3>1, <3>2, <3>3
  <2>2. f[{}] = l
    BY <1>5 DEF Folds
  <2> HIDE DEF D
  <2> QED
    BY <1>5, <2>1, <2>2
<1> DEFINE g == CHOOSE f_1 : f_1 = Rule(f_1)
<1>7. g = Rule(g)
  BY <1>6, Zenon
<1>8. TouchAll(l, s, step) = g[D]
  BY DEF TouchAll, FoldLeft, MapThenFoldSet
<1> HIDE DEF g
<1> DEFINE F == [k \in 0..Len(s) |-> g[1..k]]
<1>9. F[0] = l
  <2>1. 1..0 = {} /\ {} \in SUBSET D
    OBVIOUS
  <2>2. g[{}] = l
    BY <1>7, <2>1
  <2> QED
    BY <1>1, <2>1, <2>2
<1>10. ASSUME NEW k \in 1..Len(s) PROVE F[k] = Touch(F[k - 1], s[k], step)
  <2>1. /\ 1..k \in SUBSET D /\ 1..k # {} /\ (1..k) \ {k} = 1..(k - 1)
        /\ k \in 0..Len(s) /\ k - 1 \in 0..Len(s)
    BY <1>1
  <2>2. Max(1..k) = k
    BY <1>1, MaxOfPositions
  <2>3. g[1..k] = Touch(g[(1..k) \ {k}], s[k], step)
    <3> DEFINE t == 1..k
    <3>1. g[t] = IF t = {} THEN l ELSE Touch(g[t \ {Max(t)}], s[Max(t)], step)
      <4>1. t \in SUBSET D
        BY <2>1
      <4> HIDE DEF t, D
      <4> QED
        BY <1>7, <4>1
    <3> QED
      BY ONLY <2>1, <2>2, <3>1
  <2> QED
    BY <2>1, <2>3
<1>11. F[Len(s)] = g[D]
  BY <1>1
<1> HIDE DEF F
<1> QED
  BY <1>8, <1>9, <1>10, <1>11

LEMMA TouchAllFacts ==
  ASSUME NEW l, Balanced(l), NEW s \in Seq(Ids), ToSet(s) \subseteq Resident(l), NEW step \in Steps
  PROVE  Touched(l, TouchAll(l, s, step))
<1>1. PICK F : /\ F[0] = l /\ TouchAll(l, s, step) = F[Len(s)]
               /\ \A k \in 1..Len(s) : F[k] = Touch(F[k - 1], s[k], step)
  BY TouchAllWalks
<1> DEFINE Bad == {k \in 0..Len(s) : ~Touched(l, F[k])}
<1>2. Bad = {}
  <2>1. SUFFICES ASSUME Bad # {} PROVE FALSE
    OBVIOUS
  <2>2. PICK k \in Bad : \A j \in Bad : k <= j
    <3>1. Bad \subseteq Nat
      OBVIOUS
    <3> HIDE DEF Bad
    <3> QED
      BY <2>1, <3>1, HasLeast
  <2>3. k # 0
    <3>1. Touched(l, l)
      BY DEF Touched
    <3> QED
      BY <1>1, <2>2, <3>1
  <2>4. k \in 1..Len(s) /\ k - 1 \in 0..Len(s) /\ k - 1 \notin Bad
    BY <2>2, <2>3
  <2> DEFINE m == F[k - 1]
  <2>5. Touched(l, m) /\ s[k] \in Resident(m)
    BY <2>4 DEF Touched, ToSet
  <2>6. F[k] = Touch(m, s[k], step)
    BY <1>1, <2>4
  <2> HIDE DEF m
  <2>7. LET n == Touch(m, s[k], step) IN
        /\ Balanced(n) /\ Resident(n) = Resident(m)
        /\ \A j \in Resident(m) : n.entries[j].artifact = m.entries[j].artifact
        /\ n.bytes = m.bytes /\ Len(n.order) = Len(m.order)
    BY <2>5, TouchFacts DEF Touched
  <2>8. Touched(l, F[k])
    BY <2>5, <2>6, <2>7 DEF Touched
  <2> QED
    BY <2>2, <2>8
<1>3. Len(s) \in 0..Len(s)
  OBVIOUS
<1> QED
  BY <1>1, <1>2, <1>3

LEMMA RollbackOutcome ==
  ASSUME NEW l, Within(l), NEW held, NEW step \in Steps, NEW id, NEW s \in Seq(Ids),
         ToSet(s) \subseteq Resident(EvictExpired(l, held, step))
  PROVE  LET fresh == EvictExpired(l, held, step)
             m == TouchAll(fresh, s, step)
         IN  /\ Outcome(l, m, held, step, Expired(l, held, step), id)
             /\ Resident(m) = Resident(fresh)
<1> DEFINE fresh == EvictExpired(l, held, step)
           m == TouchAll(fresh, s, step)
           gone == Expired(l, held, step)
<1>1. Outcome(l, fresh, held, step, gone, id)
  BY FreshOutcome
<1>2. Touched(fresh, m)
  BY <1>1, TouchAllFacts DEF Outcome, Within
<1> HIDE DEF fresh, m, gone
<1>3. Within(m) /\ Resident(m) = Resident(fresh)
  BY <1>1, <1>2 DEF Touched, Outcome, Within
<1>4. OldestFirst(l, m, held, step)
  BY <1>1, <1>3 DEF Outcome, OldestFirst
<1> QED
  BY <1>1, <1>3, <1>4 DEF Outcome, fresh, m, gone
-----------------------------------------------------------------------------
(* The inductive invariant: the ledger within its books and policy, active    *)
(* lanes resident, snapshots that could be rolled back to, and ages.          *)
LaneList(s) == s \in Seq(Ids) /\ IsInjective(s) /\ Len(s) <= MaxLanes
DecisionOK == decision.evicted \subseteq Ids /\ decision.step \in Steps
IInv == /\ Within(ledger)
        /\ LaneList(lanes) /\ Active \subseteq Resident(ledger)
        /\ \A s \in snapshots : LaneList(s)
        /\ DecisionOK /\ AgesHold

(* What any operation but a snapshot does, told of the new state.            *)
Operated(step) ==
  /\ Outcome(ledger, ledger', Active, step, decision'.evicted, decision'.id)
  /\ decision'.step = step
  /\ LaneList(lanes)' /\ Active' \subseteq Resident(ledger') /\ snapshots' = snapshots
  /\ \/ decision'.action = "rollback"
     \/ \A i \in Resident(ledger') : \/ i \in Active' \/ ledger'.entries[i].artifact.protected
                                     \/ step - ledger'.entries[i].last <= MaxAge

Recorded(action, id, evicted, step) ==
  /\ decision'.action = action /\ decision'.id = id
  /\ decision'.evicted = evicted /\ decision'.step = step

LEMMA DecideRecords ==
  ASSUME NEW action, NEW id, NEW evicted, NEW step, Decide(action, id, evicted, step)
  PROVE  Recorded(action, id, evicted, step)
BY DEF Decide, Recorded

(* Lanes are held, so an operation that leaves the lanes as they are leaves   *)
(* them resident.                                                           *)
LEMMA HeldStay ==
  ASSUME IInv, NEW m, NEW step, NEW evicted, NEW id, Outcome(ledger, m, Active, step, evicted, id)
  PROVE  Active \subseteq Resident(m)
BY DEF IInv, Outcome, Evictable

LEMMA SameLanes ==
  ASSUME IInv, UNCHANGED lanes
  PROVE  LaneList(lanes)' /\ Active' = Active
BY DEF IInv, LaneList, Active

LEMMA RejectOperates ==
  ASSUME IInv, NEW id, NEW step \in Steps, Reject(id, step)
  PROVE  Operated(step)
<1>1. /\ ledger' = EvictExpired(ledger, Active, step)
      /\ Recorded("reject", id, Expired(ledger, Active, step), step)
      /\ UNCHANGED <<lanes, snapshots>>
  BY DecideRecords DEF Reject, Fresh, Gone
<1>2. /\ Outcome(ledger, ledger', Active, step, Expired(ledger, Active, step), id)
      /\ Young(ledger', Active, step)
  BY <1>1, FreshOutcome DEF IInv
<1>3. Active \subseteq Resident(ledger')
  BY <1>2, HeldStay
<1>4. LaneList(lanes)' /\ Active' = Active
  BY <1>1, SameLanes
<1> QED
  BY <1>1, <1>2, <1>3, <1>4 DEF Operated, Recorded, Young

LEMMA AdmitOperates ==
  ASSUME IInv, NEW a \in Artifacts, NEW step \in Steps,
         AdmitResident(a, step) \/ AdmitRefused(a, step) \/ AdmitNew(a, step)
  PROVE  Operated(step)
<1> DEFINE fresh == EvictExpired(ledger, Active, step)
           gone == Expired(ledger, Active, step)
           room == MakeRoom(fresh, Active, a)
           evicted == gone \cup Victims(fresh, Active, a)
<1>1. CASE AdmitRefused(a, step)
  BY <1>1, RejectOperates DEF AdmitRefused
<1>2. CASE AdmitResident(a, step) /\ Reject(a.id, step)
  BY <1>2, RejectOperates
<1>3. CASE AdmitResident(a, step) /\ ~Reject(a.id, step)
  <2>1. /\ a.id \in Resident(fresh) /\ ledger' = Touch(fresh, a.id, step)
        /\ Recorded("touch", a.id, gone, step) /\ UNCHANGED <<lanes, snapshots>>
    BY <1>3, DecideRecords DEF AdmitResident, Fresh, Gone
  <2>2. Outcome(ledger, ledger', Active, step, gone, a.id) /\ Young(ledger', Active, step)
    BY <2>1, TouchOutcome DEF IInv
  <2>3. Active \subseteq Resident(ledger') /\ LaneList(lanes)' /\ Active' = Active
    BY <2>1, <2>2, HeldStay, SameLanes
  <2> QED
    BY <2>1, <2>2, <2>3 DEF Operated, Recorded, Young
<1>4. CASE AdmitNew(a, step)
  <2>1. /\ a.id \notin Resident(fresh) /\ UNCHANGED <<lanes, snapshots>>
        /\ IF Fits(room, a)
           THEN ledger' = Insert(room, a, step) /\ Recorded("admit", a.id, evicted, step)
           ELSE ledger' = room /\ Recorded("reject", a.id, evicted, step)
    BY <1>4, DecideRecords DEF AdmitNew, Fresh, Gone
  <2>2. Outcome(ledger, ledger', Active, step, evicted, a.id) /\ Young(ledger', Active, step)
    <3>1. CASE Fits(room, a)
      BY <2>1, <3>1, AdmitOutcome DEF IInv
    <3>2. CASE ~Fits(room, a)
      BY <2>1, <3>2, RoomOutcome DEF IInv
    <3> QED
      BY <3>1, <3>2
  <2>3. Active \subseteq Resident(ledger') /\ LaneList(lanes)' /\ Active' = Active
    BY <2>1, <2>2, HeldStay, SameLanes
  <2>4. decision'.evicted = evicted /\ decision'.id = a.id /\ decision'.step = step
    BY <2>1 DEF Recorded
  <2> HIDE DEF evicted
  <2> QED
    BY <2>1, <2>2, <2>3, <2>4 DEF Operated, Young
<1> QED
  BY <1>1, <1>2, <1>3, <1>4

LEMMA ActivateOperates ==
  ASSUME IInv, NEW i \in Ids, NEW step \in Steps, Activate(i, step)
  PROVE  Operated(step)
<1> DEFINE fresh == EvictExpired(ledger, Active, step)
           gone == Expired(ledger, Active, step)
<1>1. CASE Reject(i, step)
  BY <1>1, RejectOperates
<1>2. CASE ~Reject(i, step)
  <2>1. /\ i \in Resident(fresh) /\ (i \in Active \/ ~(Len(lanes) >= MaxLanes))
        /\ ledger' = Touch(fresh, i, step)
        /\ lanes' = IF i \in Active THEN lanes ELSE Append(lanes, i)
        /\ Recorded(IF i \in Active THEN "touch" ELSE "activate", i, gone, step)
        /\ UNCHANGED snapshots
    BY <1>2, DecideRecords DEF Activate, Fresh, Gone
  <2>2. /\ Outcome(ledger, ledger', Active, step, gone, i) /\ Young(ledger', Active, step)
        /\ Resident(ledger') = Resident(fresh)
    BY <2>1, TouchOutcome DEF IInv
  <2>3. Active \subseteq Resident(ledger')
    BY <2>2, HeldStay
  <2>4. LaneList(lanes)' /\ Active' = Active \cup {i}
    <3>1. CASE i \in Active
      BY <2>1, <3>1, SameLanes
    <3>2. CASE i \notin Active
      <4>1. lanes \in Seq(Ids) /\ IsInjective(lanes) /\ Len(lanes) <= MaxLanes /\ i \notin ToSet(lanes)
        BY <3>2 DEF IInv, LaneList, Active
      <4>2. /\ lanes' \in Seq(Ids) /\ IsInjective(lanes') /\ ToSet(lanes') = ToSet(lanes) \cup {i}
        BY <2>1, <3>2, <4>1, AppendFacts
      <4>3. Len(lanes') = Len(lanes) + 1 /\ Len(lanes) \in Nat /\ MaxLanes \in Nat
        BY <2>1, <3>2, <4>1, LanesAssumption, LedgerAssumption
      <4>4. Len(lanes') <= MaxLanes
        BY <2>1, <3>2, <4>3
      <4> QED
        BY <4>2, <4>4 DEF LaneList, Active
    <3> QED
      BY <3>1, <3>2
  <2>5. decision'.evicted = gone /\ decision'.id = i /\ decision'.step = step
    BY <2>1 DEF Recorded
  <2> HIDE DEF gone, fresh
  <2> QED
    BY <2>1, <2>2, <2>3, <2>4, <2>5 DEF Operated, Young
<1> QED
  BY <1>1, <1>2

LEMMA DeactivateOperates ==
  ASSUME IInv, NEW i \in Ids, NEW step \in Steps, Deactivate(i, step)
  PROVE  Operated(step)
<1> DEFINE fresh == EvictExpired(ledger, Active, step)
           gone == Expired(ledger, Active, step)
<1>1. CASE i \notin Active
  BY <1>1, RejectOperates DEF Deactivate
<1>2. CASE i \in Active
  <2>1. /\ ledger' = Touch(fresh, i, step) /\ lanes' = Keep(lanes, Active \ {i})
        /\ Recorded("deactivate", i, gone, step) /\ UNCHANGED snapshots
    BY <1>2, DecideRecords DEF Deactivate, Fresh, Gone
  <2>2. i \in Resident(fresh)
    <3>1. Outcome(ledger, fresh, Active, step, gone, i)
      BY FreshOutcome DEF IInv
    <3> QED
      BY <1>2, <3>1, HeldStay
  <2>3. /\ Outcome(ledger, ledger', Active, step, gone, i) /\ Young(ledger', Active, step)
        /\ step - ledger'.entries[i].last <= MaxAge
    BY <2>1, <2>2, TouchOutcome DEF IInv
  <2>4. Active \subseteq Resident(ledger')
    BY <2>3, HeldStay
  <2>5. LaneList(lanes)' /\ Active' = Active \ {i}
    <3>1. lanes \in Seq(Ids) /\ IsInjective(lanes) /\ Len(lanes) <= MaxLanes /\ Active = ToSet(lanes)
      BY DEF IInv, LaneList, Active
    <3>2. lanes' \in Seq(Ids) /\ IsInjective(lanes') /\ ToSet(lanes') = Active \ {i}
      BY <2>1, <3>1, KeepFacts
    <3>3. Len(lanes') <= Len(lanes)
      BY <2>1, <3>1, KeepIsKept DEF IsKept
    <3>4. Len(lanes') <= MaxLanes
      BY <3>1, <3>2, <3>3, LanesAssumption, LedgerAssumption
    <3> QED
      BY <3>2, <3>4 DEF LaneList, Active
  <2>6. decision'.evicted = gone /\ decision'.id = i /\ decision'.step = step
    BY <2>1 DEF Recorded
  <2> HIDE DEF gone, fresh
  <2> QED
    BY <2>1, <2>3, <2>4, <2>5, <2>6 DEF Operated, Young
<1> QED
  BY <1>1, <1>2

LEMMA RollbackOperates ==
  ASSUME IInv, NEW s \in snapshots, NEW step \in Steps, Rollback(s, step)
  PROVE  Operated(step)
<1> DEFINE fresh == EvictExpired(ledger, Active, step)
           gone == Expired(ledger, Active, step)
<1>1. CASE \E i \in ToSet(s) : i \notin Resident(fresh)
  BY <1>1, RejectOperates DEF Rollback, Fresh
<1>2. CASE ToSet(s) \subseteq Resident(fresh)
  <2>1. /\ lanes' = s /\ ledger' = TouchAll(fresh, s, step)
        /\ Recorded("rollback", "", gone, step) /\ UNCHANGED snapshots
    BY <1>2, DecideRecords DEF Rollback, Fresh, Gone
  <2>2. LaneList(s)
    BY DEF IInv
  <2>3. /\ Outcome(ledger, ledger', Active, step, gone, "") /\ Resident(ledger') = Resident(fresh)
    BY <1>2, <2>1, <2>2, RollbackOutcome DEF IInv, LaneList
  <2>4. LaneList(lanes)' /\ Active' \subseteq Resident(ledger')
    BY <1>2, <2>1, <2>2, <2>3 DEF LaneList, Active
  <2>5. /\ decision'.evicted = gone /\ decision'.id = "" /\ decision'.step = step
        /\ decision'.action = "rollback"
    BY <2>1 DEF Recorded
  <2> HIDE DEF gone, fresh
  <2> QED
    BY <2>1, <2>3, <2>4, <2>5 DEF Operated
<1> QED
  BY <1>1, <1>2

LEMMA NextOperates ==
  ASSUME IInv, Next
  PROVE  (\E step \in Steps : Operated(step)) \/ Snapshot
<1>1. ASSUME NEW step \in Steps, NEW a \in Artifacts,
             AdmitResident(a, step) \/ AdmitRefused(a, step) \/ AdmitNew(a, step)
      PROVE  Operated(step)
  BY <1>1, AdmitOperates
<1>2. ASSUME NEW step \in Steps, NEW i \in Ids, Activate(i, step) \/ Deactivate(i, step)
      PROVE  Operated(step)
  BY <1>2, ActivateOperates, DeactivateOperates
<1>3. ASSUME NEW step \in Steps, NEW s \in snapshots, Rollback(s, step)
      PROVE  Operated(step)
  BY <1>3, RollbackOperates
<1> QED
  BY <1>1, <1>2, <1>3 DEF Next

LEMMA OperatedKeeps ==
  ASSUME IInv, NEW step \in Steps, Operated(step)
  PROVE  IInv'
<1>1. Within(ledger)' /\ LaneList(lanes)' /\ (Active \subseteq Resident(ledger))'
  BY DEF Operated, Outcome
<1>2. \A s \in snapshots' : LaneList(s)
  BY DEF IInv, Operated
<1>3. DecisionOK'
  BY WithinFacts DEF IInv, Operated, Outcome, DecisionOK
<1>4. AgesHold'
  BY DEF Operated, AgesHold, WithinAge
<1> QED
  BY <1>1, <1>2, <1>3, <1>4 DEF IInv

LEMMA Initially == Init => IInv
<1> SUFFICES ASSUME Init PROVE IInv
  OBVIOUS
<1>1. Within(ledger)
  <2>1. EmptyLedger.bytes = 0
    BY DEF EmptyLedger
  <2> QED
    BY <2>1, EmptyIsBalanced, LedgerAssumption DEF Init, Within
<1>2. ToSet(<<>>) = {} /\ LaneList(<<>>)
  <2>1. MaxLanes \in Nat
    BY LanesAssumption, LedgerAssumption
  <2>2. <<>> \in Seq(Ids) /\ Len(<<>>) = 0 /\ IsInjective(<<>>) /\ ToSet(<<>>) = {}
    BY DEF IsInjective, ToSet
  <2> QED
    BY <2>1, <2>2 DEF LaneList
<1>3. DecisionOK /\ AgesHold
  <2>1. decision.action = "none" /\ decision.evicted = {} /\ decision.step = 0
    BY DEF Init, NoDecision
  <2>2. 0 \in Steps
    BY LedgerAssumption DEF Steps
  <2> QED
    BY <2>1, <2>2 DEF DecisionOK, AgesHold
<1> QED
  BY <1>1, <1>2, <1>3 DEF Init, IInv, Active

LEMMA Inductive == IInv /\ [Next]_vars => IInv'
<1> SUFFICES ASSUME IInv, [Next]_vars PROVE IInv'
  OBVIOUS
<1>1. CASE UNCHANGED vars
  BY <1>1 DEF IInv, vars, Active, DecisionOK, AgesHold, WithinAge
<1>2. CASE Snapshot
  <2>1. snapshots' = snapshots \cup {lanes} /\ UNCHANGED <<ledger, lanes, decision>>
    BY <1>2 DEF Snapshot
  <2> QED
    BY <2>1 DEF IInv, Active, DecisionOK, AgesHold, WithinAge
<1>3. CASE Next /\ ~Snapshot
  BY <1>3, NextOperates, OperatedKeeps
<1> QED
  BY <1>1, <1>2, <1>3

(* The invariant holds in every state.                                       *)
THEOREM Invariance == Spec => []IInv
BY Initially, Inductive, PTL DEF Spec

(* Whatever is admitted, activated, rolled back and evicted, the state is     *)
(* well typed, and no decision names an adapter that does not exist.          *)
THEOREM WellTyped == Spec => []TypeOK
<1>1. IInv => TypeOK
  BY WithinFacts DEF IInv, TypeOK, LaneList, DecisionOK
<1> QED
  BY <1>1, Invariance, PTL

(* The bytes counted are the bytes resident, and they and the entries stay    *)
(* within the policy, for any sizes and any sequence of operations.           *)
THEOREM BooksAreKept == Spec => []BudgetHolds
<1>1. IInv => BudgetHolds
  BY WithinFacts DEF IInv, BudgetHolds
<1> QED
  BY <1>1, Invariance, PTL

(* An active lane is resident, and there are no more lanes than allowed,      *)
(* through expiry, eviction and rollback.                                    *)
THEOREM ActiveStayResident == Spec => []LanesResident
<1>1. IInv => LanesResident
  BY DEF IInv, LaneList, LanesResident
<1> QED
  BY <1>1, Invariance, PTL

(* After an operation other than a rollback nothing inactive and unprotected   *)
(* is older than the policy allows.                                          *)
THEOREM NothingOverstays == Spec => []AgesHold
<1>1. IInv => AgesHold
  BY DEF IInv
<1> QED
  BY <1>1, Invariance, PTL

(* All four together: books, budget, lanes and ages of the adapter ledger.    *)
THEOREM AdaptersStaySound == Spec => []AdaptersHold
BY WellTyped, BooksAreKept, ActiveStayResident, NothingOverstays, PTL DEF AdaptersHold

(* Protected and active adapters are never evicted; the others go in the     *)
(* order of their last use.                                                  *)
THEOREM EvictionFollowsUse == Spec => EvictionIsFair
<1> DEFINE Fair == /\ \A i \in Resident(ledger) \ Resident(ledger') :
                        i \notin Active /\ ~ledger.entries[i].artifact.protected
                   /\ OldestFirst(ledger, ledger', Active, decision'.step)
<1>1. IInv /\ [Next]_vars => [Fair]_vars
  <2> SUFFICES ASSUME IInv, Next PROVE [Fair]_vars
    OBVIOUS
  <2>1. CASE Snapshot
    BY <2>1 DEF Snapshot, OldestFirst
  <2>2. ASSUME NEW step \in Steps, Operated(step) PROVE Fair
    BY <2>2 DEF Operated, Outcome, Evictable
  <2> HIDE DEF Fair
  <2> QED
    BY <2>1, <2>2, NextOperates DEF Fair
<1> HIDE DEF Fair
<1>2. Spec => [][Fair]_vars
  BY <1>1, Invariance, PTL DEF Spec
<1> QED
  BY <1>2 DEF Fair, EvictionIsFair

(* A decision names every adapter that its operation evicted, and no other    *)
(* but one that expired and was admitted again at once.                       *)
THEOREM DecisionsTell == Spec => DecisionTells
<1> DEFINE Tells == decision' # decision =>
                      /\ Resident(ledger) \ Resident(ledger') \subseteq decision'.evicted
                      /\ decision'.evicted \cap Resident(ledger') \subseteq {decision'.id}
<1>1. IInv /\ [Next]_vars => [Tells]_vars
  <2> SUFFICES ASSUME IInv, Next PROVE Tells
    OBVIOUS
  <2>1. CASE Snapshot
    BY <2>1 DEF Snapshot
  <2>2. ASSUME NEW step \in Steps, Operated(step) PROVE Tells
    BY <2>2 DEF Operated, Outcome
  <2> HIDE DEF Tells
  <2> QED
    BY <2>1, <2>2, NextOperates
<1> HIDE DEF Tells
<1>2. Spec => [][Tells]_vars
  BY <1>1, Invariance, PTL DEF Spec
<1> QED
  BY <1>2 DEF Tells, DecisionTells

-----------------------------------------------------------------------------
PrecisionsOK(l) == \A i \in Resident(l) : l.entries[i].artifact.precision \in AllowedPrecisions
KvDecisionOK == kv_decision.evicted \subseteq Ids /\ kv_decision.step \in Steps

(* The inductive invariant.                                                  *)
KvIInv == /\ Within(kv_ledger) /\ PrecisionsOK(kv_ledger) /\ KvDecisionOK
        /\ ResidentWithinPolicy /\ GovernorAgrees

(* What any operation does, told of the new state.                           *)
KvOperated(step) ==
  /\ Outcome(kv_ledger, kv_ledger', {}, step, kv_decision'.evicted, kv_decision'.id)
  /\ kv_decision'.step = step
  /\ PrecisionsOK(kv_ledger') /\ Young(kv_ledger', {}, step)
  /\ GovernorAgrees'

KvRecorded(action, reason, id, evicted, step, governed) ==
  /\ kv_decision'.action = action /\ kv_decision'.reason = reason /\ kv_decision'.id = id
  /\ kv_decision'.evicted = evicted /\ kv_decision'.step = step /\ kv_decision'.governed = governed

LEMMA KvDecideRecords ==
  ASSUME NEW action, NEW reason, NEW id, NEW evicted, NEW step, NEW governed,
         KvDecide(action, reason, id, evicted, step, governed)
  PROVE  KvRecorded(action, reason, id, evicted, step, governed)
BY DEF KvDecide, KvRecorded

(* Artifacts that stay keep their precision.                                 *)
LEMMA PrecisionsStay ==
  ASSUME NEW l, NEW m, PrecisionsOK(l), SameArtifacts(l, m)
  PROVE  PrecisionsOK(m)
BY DEF PrecisionsOK, SameArtifacts

(* The governor selects what the policy allows, or nothing, and no block has  *)
(* no precision.                                                             *)
LEMMA SelectedAllowed ==
  ASSUME NEW requested, NEW evidence, NEW a \in Artifacts,
         a.precision = Select(requested, evidence)
  PROVE  a.precision \in AllowedPrecisions
<1>1. a.precision # "none"
  BY PrecisionAssumption DEF KVPrecision
<1> QED
  BY <1>1, PrecisionAssumption DEF Select

LEMMA KvAdmitOperates ==
  ASSUME KvIInv, NEW a \in Artifacts, NEW step \in Steps, NEW governed \in BOOLEAN,
         governed => a.precision \in AllowedPrecisions, Admit(a, step, governed)
  PROVE  KvOperated(step)
<1> DEFINE fresh == EvictExpired(kv_ledger, {}, step)
           gone == Expired(kv_ledger, {}, step)
           room == MakeRoom(fresh, {}, a)
           evicted == gone \cup Victims(fresh, {}, a)
           resident == a.id \in Resident(fresh)
           rejects(reason) == kv_ledger' = fresh /\ KvRecorded("reject", reason, a.id, gone, step, governed)
<1>0. Within(kv_ledger) /\ PrecisionsOK(kv_ledger)
  BY DEF KvIInv
<1>1. CASE \E reason : rejects(reason) /\ (reason = "precision_not_allowed" => ~governed)
  <2>1. PICK reason : rejects(reason) /\ (reason = "precision_not_allowed" => ~governed)
    BY <1>1
  <2>2. /\ Outcome(kv_ledger, kv_ledger', {}, step, gone, a.id) /\ Young(kv_ledger', {}, step)
        /\ SameArtifacts(kv_ledger, kv_ledger')
    BY <1>0, <2>1, FreshOutcome
  <2>3. PrecisionsOK(kv_ledger')
    BY <1>0, <2>2, PrecisionsStay
  <2> QED
    BY <2>1, <2>2, <2>3 DEF KvOperated, KvRecorded, GovernorAgrees
<1>2. CASE /\ resident /\ kv_ledger' = Touch(fresh, a.id, step)
           /\ KvRecorded("touch", "already_resident", a.id, gone, step, governed)
  <2>1. /\ Outcome(kv_ledger, kv_ledger', {}, step, gone, a.id) /\ Young(kv_ledger', {}, step)
        /\ SameArtifacts(kv_ledger, kv_ledger')
    BY <1>0, <1>2, TouchOutcome
  <2>2. PrecisionsOK(kv_ledger')
    BY <1>0, <2>1, PrecisionsStay
  <2> QED
    BY <1>2, <2>1, <2>2 DEF KvOperated, KvRecorded, GovernorAgrees
<1>3. CASE /\ ~resident /\ a.precision \in AllowedPrecisions
           /\ Fits(room, a) /\ kv_ledger' = Insert(room, a, step)
           /\ KvRecorded("admit", "within_budget", a.id, evicted, step, governed)
  <2>1. /\ Outcome(kv_ledger, kv_ledger', {}, step, evicted, a.id) /\ Young(kv_ledger', {}, step)
        /\ SameArtifacts(kv_ledger, room) /\ Added(room, kv_ledger', a)
    BY <1>0, <1>3, AdmitOutcome
  <2>2. PrecisionsOK(room)
    BY <1>0, <2>1, PrecisionsStay
  <2>3. PrecisionsOK(kv_ledger')
    BY <1>3, <2>1, <2>2 DEF PrecisionsOK, Added
  <2> QED
    BY <1>3, <2>1, <2>3 DEF KvOperated, KvRecorded, GovernorAgrees
<1>4. CASE /\ kv_ledger' = room
           /\ KvRecorded("reject", "protected_entries_block_admission", a.id, evicted, step, governed)
  <2>1. /\ Outcome(kv_ledger, kv_ledger', {}, step, evicted, a.id) /\ Young(kv_ledger', {}, step)
        /\ SameArtifacts(kv_ledger, kv_ledger')
    BY <1>0, <1>4, RoomOutcome
  <2>2. PrecisionsOK(kv_ledger')
    BY <1>0, <2>1, PrecisionsStay
  <2> QED
    BY <1>4, <2>1, <2>2 DEF KvOperated, KvRecorded, GovernorAgrees
<1>5. \/ rejects("duplicate_key_conflict") \/ rejects("block_exceeds_budget")
      \/ rejects("precision_not_allowed") /\ a.precision \notin AllowedPrecisions
      \/ /\ resident /\ kv_ledger' = Touch(fresh, a.id, step)
         /\ KvRecorded("touch", "already_resident", a.id, gone, step, governed)
      \/ /\ ~resident /\ a.precision \in AllowedPrecisions
         /\ Fits(room, a) /\ kv_ledger' = Insert(room, a, step)
         /\ KvRecorded("admit", "within_budget", a.id, evicted, step, governed)
      \/ /\ kv_ledger' = room
         /\ KvRecorded("reject", "protected_entries_block_admission", a.id, evicted, step, governed)
  BY KvDecideRecords DEF Admit, KvFresh, KvGone
<1> HIDE DEF rejects, resident, room, fresh, evicted, gone
<1> QED
  BY <1>1, <1>2, <1>3, <1>4, <1>5

LEMMA AccessOperates ==
  ASSUME KvIInv, NEW i \in Ids, NEW step \in Steps, Access(i, step)
  PROVE  KvOperated(step)
<1> DEFINE fresh == EvictExpired(kv_ledger, {}, step)
           gone == Expired(kv_ledger, {}, step)
<1>0. Within(kv_ledger) /\ PrecisionsOK(kv_ledger)
  BY DEF KvIInv
<1>1. /\ \/ i \in Resident(fresh) /\ kv_ledger' = Touch(fresh, i, step)
         \/ kv_ledger' = fresh
      /\ \E action : \E reason \in {"resident", "not_resident"} :
            KvRecorded(action, reason, i, gone, step, FALSE)
  <2>1. CASE i \in Resident(fresh)
    BY <2>1, KvDecideRecords DEF Access, KvFresh, KvGone
  <2>2. CASE i \notin Resident(fresh)
    BY <2>2, KvDecideRecords DEF Access, KvFresh, KvGone
  <2> QED
    BY <2>1, <2>2
<1>2. /\ Outcome(kv_ledger, kv_ledger', {}, step, gone, i) /\ Young(kv_ledger', {}, step)
      /\ SameArtifacts(kv_ledger, kv_ledger')
  BY <1>0, <1>1, TouchOutcome, FreshOutcome
<1>3. PrecisionsOK(kv_ledger')
  BY <1>0, <1>2, PrecisionsStay
<1>4. kv_decision'.evicted = gone /\ kv_decision'.id = i /\ kv_decision'.step = step /\ ~kv_decision'.governed
  BY <1>1 DEF KvRecorded
<1> QED
  BY <1>2, <1>3, <1>4 DEF KvOperated, GovernorAgrees

LEMMA KvNextOperates ==
  ASSUME KvIInv, KvNext
  PROVE  \E step \in Steps : KvOperated(step)
<1>1. ASSUME NEW step \in Steps, NEW a \in Artifacts, AdmitAny(a, step) PROVE KvOperated(step)
  BY <1>1, KvAdmitOperates DEF AdmitAny
<1>2. ASSUME NEW step \in Steps, NEW a \in Artifacts, NEW requested \in KVPrecision,
             NEW evidence \in Evidence, AdmitGoverned(requested, evidence, a, step)
      PROVE  KvOperated(step)
  BY <1>2, SelectedAllowed, KvAdmitOperates DEF AdmitGoverned
<1>3. ASSUME NEW step \in Steps, NEW i \in Ids, Access(i, step) PROVE KvOperated(step)
  BY <1>3, AccessOperates
<1> QED
  BY <1>1, <1>2, <1>3 DEF KvNext

LEMMA KvOperatedKeeps ==
  ASSUME KvIInv, NEW step \in Steps, KvOperated(step)
  PROVE  KvIInv'
<1>1. Within(kv_ledger)' /\ PrecisionsOK(kv_ledger)' /\ GovernorAgrees'
  BY DEF KvOperated, Outcome
<1>2. KvDecisionOK'
  BY WithinFacts DEF KvIInv, KvOperated, Outcome, KvDecisionOK
<1>3. ResidentWithinPolicy'
  BY DEF KvOperated, ResidentWithinPolicy, PrecisionsOK, Young
<1> QED
  BY <1>1, <1>2, <1>3 DEF KvIInv

LEMMA KvInitially == KvInit => KvIInv
<1> SUFFICES ASSUME KvInit PROVE KvIInv
  OBVIOUS
<1>1. Within(kv_ledger) /\ PrecisionsOK(kv_ledger)
  <2>1. EmptyLedger.bytes = 0
    BY DEF EmptyLedger
  <2>2. Within(EmptyLedger)
    BY <2>1, EmptyIsBalanced, LedgerAssumption DEF Within
  <2>3. PrecisionsOK(EmptyLedger)
    BY EmptyIsBalanced DEF PrecisionsOK
  <2> QED
    BY <2>2, <2>3 DEF KvInit
<1>2. KvDecisionOK /\ ResidentWithinPolicy /\ GovernorAgrees
  <2>1. /\ kv_decision.action = "none" /\ kv_decision.evicted = {} /\ kv_decision.step = 0
        /\ kv_decision.governed = FALSE
    BY DEF KvInit
  <2>2. 0 \in Steps
    BY LedgerAssumption DEF Steps
  <2> QED
    BY <2>1, <2>2 DEF KvDecisionOK, ResidentWithinPolicy, GovernorAgrees
<1> QED
  BY <1>1, <1>2 DEF KvIInv

LEMMA KvInductive == KvIInv /\ [KvNext]_kv_vars => KvIInv'
<1> SUFFICES ASSUME KvIInv, [KvNext]_kv_vars PROVE KvIInv'
  OBVIOUS
<1>1. CASE UNCHANGED kv_vars
  BY <1>1 DEF KvIInv, kv_vars, KvDecisionOK, ResidentWithinPolicy, GovernorAgrees
<1>2. CASE KvNext
  BY <1>2, KvNextOperates, KvOperatedKeeps
<1> QED
  BY <1>1, <1>2

(* The invariant holds in every state.                                       *)
THEOREM KvInvariance == KvSpec => []KvIInv
<1>1. KvIInv /\ [KvNext]_kv_vars => KvIInv'
  BY KvInductive
<1> QED
  BY <1>1, KvInitially, PTL DEF KvSpec

(* Blocks and their bytes: the state is well typed, the bytes counted are     *)
(* those resident, and they stay within the policy.                          *)
THEOREM BlocksAreKept == KvSpec => [](KvTypeOK /\ KvBudgetHolds)
<1>1. KvIInv => KvTypeOK /\ KvBudgetHolds
  BY WithinFacts DEF KvIInv, KvTypeOK, KvBudgetHolds, KvDecisionOK
<1> QED
  BY <1>1, KvInvariance, PTL

(* After every operation nothing unprotected is older than the policy allows,  *)
(* and nothing has a precision that it excludes.                             *)
THEOREM PolicyIsKept == KvSpec => []ResidentWithinPolicy
<1>1. KvIInv => ResidentWithinPolicy
  BY DEF KvIInv
<1> QED
  BY <1>1, KvInvariance, PTL

(* A block that the governor passed is not rejected for its precision.        *)
THEOREM GovernorIsHeard == KvSpec => []GovernorAgrees
<1>1. KvIInv => GovernorAgrees
  BY DEF KvIInv
<1> QED
  BY <1>1, KvInvariance, PTL

(* All of these together: books, budget, precisions and ages of the blocks.   *)
THEOREM BlocksStaySound == KvSpec => []BlocksHold
<1>1. KvIInv => KvTypeOK /\ KvBudgetHolds
  BY WithinFacts DEF KvIInv, KvTypeOK, KvBudgetHolds, KvDecisionOK
<1>2. KvIInv => BlocksHold
  BY <1>1 DEF KvIInv, BlocksHold
<1> QED
  BY <1>2, KvInvariance, PTL

(* Protected blocks are never evicted; the others go in the order of their    *)
(* last use.                                                                *)
THEOREM BlockEvictionFollowsUse == KvSpec => KvEvictionIsFair
<1> DEFINE Fair == /\ \A i \in Resident(kv_ledger) \ Resident(kv_ledger') : ~kv_ledger.entries[i].artifact.protected
                   /\ OldestFirst(kv_ledger, kv_ledger', {}, kv_decision'.step)
<1>1. KvIInv /\ [KvNext]_kv_vars => [Fair]_kv_vars
  <2> SUFFICES ASSUME KvIInv, KvNext PROVE Fair
    OBVIOUS
  <2>1. PICK step \in Steps : KvOperated(step)
    BY KvNextOperates
  <2> QED
    BY <2>1 DEF KvOperated, Outcome, Evictable
<1> HIDE DEF Fair
<1>2. KvSpec => [][Fair]_kv_vars
  BY <1>1, KvInvariance, PTL DEF KvSpec
<1> QED
  BY <1>2 DEF Fair, KvEvictionIsFair

-----------------------------------------------------------------------------
(* The tiered manager.  What it asks of its pool: the entries are the tensors *)
(* of S, each of its size and under the one handle named after it.            *)
ServesOK(p, hs, mem, S) ==
  /\ PoolOK(p, hs, mem, FALSE) /\ Positive(p)
  /\ DOMAIN p.entries = S
  /\ DOMAIN hs = {Handle(d) : d \in S} /\ \A d \in S : hs[Handle(d)].key = d
  /\ \A d \in S : p.arena.views[d].size = SizeOf[d]
  /\ p.arena.live = SumFunctionOnSet(SizeOf, S)

LEMMA NamesApart ==
  /\ \A d, e \in Tensors : Handle(d) = Handle(e) => d = e
  /\ \A d \in Tensors : Handle(d) # Spare /\ Handle(d) \in Handles /\ d \in Keys
  /\ Spare \in Handles /\ \A h \in Handles : h \notin Tensors
<1>1. \A d, e \in Tensors : Handle(d) = Handle(e) => d = e
  BY DEF Handle
<1>2. \A d \in Tensors : Handle(d) # Spare
  BY DEF Handle, Spare
<1>3. \A d \in Tensors : Handle(d) \in Handles /\ d \in Keys
  BY TieredAssumption DEF Keys
<1>4. Spare \in Handles /\ \A h \in Handles : h \notin Tensors
  BY TieredAssumption, PoolAssumption
<1> QED
  BY <1>1, <1>2, <1>3, <1>4

LEMMA SizesAdd ==
  ASSUME NEW S, S \subseteq Tensors
  PROVE  Summable(SizeOf, S)
BY PoolAssumption, TieredAssumption, FS_Subset DEF Summable

(* The handle on a tensor is the one named after it, and can be read.         *)
LEMMA OneHandle ==
  ASSUME NEW p, NEW hs, NEW mem, NEW S, S \subseteq Tensors, ServesOK(p, hs, mem, S), NEW d \in S
  PROVE  HeldOn(p, d) = {Handle(d)} /\ p.entries[d].handles = 1 /\ Live(p.arena, Handle(d))
<1>1. /\ Exact(p, hs) /\ Owned(p, hs) /\ Positive(p) /\ DOMAIN p.entries = S
      /\ DOMAIN hs = {Handle(e) : e \in S} /\ \A e \in S : hs[Handle(e)].key = e
  BY DEF ServesOK, PoolOK
<1>2. p.entries[d].handles = Cardinality(HeldOn(p, d)) /\ p.entries[d].handles >= 1
  BY <1>1 DEF Exact, Positive
<1>3. ASSUME NEW h \in HeldOn(p, d) PROVE h = Handle(d)
  <2>1. h \in DOMAIN hs /\ hs[h].key = d
    BY <1>1 DEF Owned
  <2>2. PICK e \in S : h = Handle(e)
    BY <1>1, <2>1
  <2> QED
    BY <1>1, <2>1, <2>2
<1>4. HeldOn(p, d) # {}
  BY <1>2, FS_EmptySet
<1>5. HeldOn(p, d) = {Handle(d)}
  BY <1>3, <1>4
<1> QED
  BY <1>2, <1>5, FS_Singleton DEF HeldOn

(* A tensor released goes with its bytes; the others stay where they are.     *)
LEMMA ReleasedServes ==
  ASSUME NEW p, NEW hs, NEW mem, NEW S, S \subseteq Tensors, ServesOK(p, hs, mem, S), NEW d \in S,
         NEW q, q = HandleReleased(p, d, Handle(d))
  PROVE  /\ ServesOK(q, Unhanded(hs, Handle(d)), mem, S \ {d})
         /\ \A e \in S \ {d} : q.arena.views[Handle(e)] = p.arena.views[Handle(e)]
<1> DEFINE h == Handle(d)
           low == Lowered(p, d, h)
           hs2 == Unhanded(hs, h)
           V == p.arena.views
           W == q.arena.views
<1>1. /\ PoolOK(p, hs, mem, FALSE) /\ Positive(p) /\ DOMAIN p.entries = S
      /\ DOMAIN hs = {Handle(e) : e \in S} /\ \A e \in S : hs[Handle(e)].key = e
      /\ \A e \in S : V[e].size = SizeOf[e]
      /\ p.arena.live = SumFunctionOnSet(SizeOf, S)
  BY DEF ServesOK
<1>2. p.entries[d].handles = 1 /\ Live(p.arena, h) /\ HeldOn(p, d) = {h}
  BY OneHandle
<1>3. h \in DOMAIN hs /\ hs[h].key = d
  BY <1>1
<1>4. /\ PoolOK(low, hs2, mem, FALSE) /\ DOMAIN low.entries = S /\ low.entries[d].handles = 0
      /\ \A e \in S : e # d => low.entries[e] = p.entries[e]
  <2>1. FALSE <=> (FALSE \/ ~Live(p.arena, h))
    BY <1>2
  <2>2. p.entries[d].handles >= 1 /\ p.entries[d].handles - 1 = 0
    BY <1>2
  <2> DEFINE no == FALSE
  <2>3. PoolOK(p, hs, mem, no) /\ (no <=> (no \/ ~Live(p.arena, h))) /\ d \in DOMAIN p.entries
    BY <1>1, <2>1
  <2> HIDE DEF low, hs2, h, no
  <2>4. /\ PoolOK(Lowered(p, d, h), Unhanded(hs, h), mem, no)
        /\ DOMAIN Lowered(p, d, h).entries = DOMAIN p.entries
        /\ Lowered(p, d, h).entries[d].handles = p.entries[d].handles - 1
        /\ \A l \in DOMAIN p.entries : l # d => Lowered(p, d, h).entries[l] = p.entries[l]
    BY <1>3, <2>2, <2>3, LoweredOK
  <2> QED
    BY <1>1, <2>2, <2>4 DEF low, hs2, no
<1>5. q = Emptied(low, d)
  <2>1. p.entries[d].handles \in Nat /\ ~(p.entries[d].handles > 1)
    BY <1>2
  <2> QED
    BY <1>1, <2>1, HandleReleasedHalves
<1>6. /\ PoolOK(q, hs2, mem, FALSE) /\ DOMAIN q.entries = S \ {d}
      /\ \A e \in S \ {d} : q.entries[e] = p.entries[e]
  <2> HIDE DEF low, hs2, h
  <2> DEFINE no == FALSE
  <2>1. PoolOK(low, hs2, mem, no) /\ d \in DOMAIN low.entries /\ low.entries[d].handles = 0
    BY <1>4
  <2> HIDE DEF no
  <2>2. /\ PoolOK(q, hs2, mem, no) /\ DOMAIN q.entries = DOMAIN low.entries \ {d}
        /\ \A l \in DOMAIN q.entries : q.entries[l] = low.entries[l]
    BY <1>5, <2>1, EmptiedOK
  <2> QED
    BY <1>4, <2>2 DEF no
<1>7. Positive(q)
  BY <1>1, <1>6 DEF Positive
<1>8. DOMAIN W = DOMAIN V \ {h, d} /\ \A w \in DOMAIN W : W[w] = V[w]
  <2>1. low.arena = ViewReleased(p.arena, h) /\ q.arena = ViewReleased(low.arena, d)
    BY <1>5 DEF Lowered, Emptied
  <2>2. ArenaOK(p.arena)
    BY <1>1 DEF PoolOK
  <2> HIDE DEF low, h
  <2>3. Dropped(p.arena, low.arena, h)
    BY <2>1, <2>2, ViewReleasedFacts
  <2>4. Dropped(low.arena, q.arena, d)
    BY <2>1, <2>3, ViewReleasedFacts DEF Dropped
  <2> QED
    BY <2>3, <2>4 DEF Dropped
<1>9. DOMAIN hs2 = {Handle(e) : e \in S \ {d}} /\ \A e \in S \ {d} : hs2[Handle(e)].key = e
  <2>1. DOMAIN hs2 = DOMAIN hs \ {h} /\ \A i \in DOMAIN hs2 : hs2[i] = hs[i]
    BY DEF Unhanded, Restrict
  <2>2. \A e \in S : Handle(e) = h <=> e = d
    BY NamesApart
  <2> HIDE DEF hs2, h
  <2> QED
    BY <1>1, <2>1, <2>2
<1>10. \A e \in S \ {d} : /\ e \in DOMAIN W /\ Handle(e) \in DOMAIN W
  <2>1. \A e \in S : e \in DOMAIN V /\ Handle(e) \in DOMAIN V
    <3>1. \A e \in S : Handle(e) \in DOMAIN V
      BY OneHandle DEF Live
    <3>2. \A e \in S : e \in DOMAIN V
      BY <1>1, NamesApart DEF PoolOK, Named
    <3> QED
      BY <3>1, <3>2
  <2>2. \A e \in S \ {d} : Handle(e) # h /\ Handle(e) # d /\ e # h /\ e # d
    BY NamesApart
  <2> QED
    BY <1>8, <2>1, <2>2
<1>11. q.arena.live = SumFunctionOnSet(SizeOf, S \ {d})
  <2> DEFINE b == <<V[d].offset, V[d].size>>
             B == BlocksOf(V)
             C == BlocksOf(W)
  <2>1. ArenaOK(p.arena) /\ ArenaOK(q.arena) /\ Named(p, hs) /\ Owned(p, hs)
    BY <1>1, <1>6 DEF PoolOK
  <2>2. p.arena.live = SizeSum(B) /\ q.arena.live = SizeSum(C) /\ ViewsOK(V)
    BY <2>1 DEF ArenaOK
  <2>3. d \in DOMAIN V
    BY <1>1, <2>1, NamesApart DEF Named
  <2>4. ASSUME NEW w \in DOMAIN V, V[w].offset = V[d].offset
        PROVE  w \in {h, d}
    <3>1. Beside(p, w, d) /\ Beside(p, d, w)
      BY <2>4 DEF Beside, Start
    <3>2. w \in Keys \cup Handles
      BY <2>1 DEF Named
    <3>3. CASE w \in Keys
      BY <1>1, <2>1, <3>1, <3>3 DEF Named, Owned
    <3>4. CASE w \in Handles
      <4>1. w \in HeldOn(p, d)
        BY <3>1, <3>4 DEF HeldOn, Live
      <4> QED
        BY <1>2, <4>1
    <3> QED
      BY <3>2, <3>3, <3>4
  <2>5. h \in DOMAIN V /\ V[h].offset = V[d].offset /\ V[h].size = V[d].size
    <3>1. h \in DOMAIN V /\ V[h].offset = V[d].offset
      BY <1>2 DEF HeldOn, Live, Beside, Start
    <3>2. Same(V, h, d) \/ Away(V, h, d)
      BY <2>2, <2>3, <3>1 DEF ViewsOK
    <3>3. ViewOK(V[h]) /\ ViewOK(V[d])
      BY <2>2, <2>3, <3>1 DEF ViewsOK
    <3>4. ~Away(V, h, d)
      BY <3>1, <3>3 DEF Away, Start, Stop, ViewOK
    <3> QED
      BY <3>1, <3>2, <3>4 DEF Same
  <2>6. C = B \ {b}
    <3>1. ASSUME NEW c \in C PROVE c \in B \ {b}
      <4>1. PICK w \in DOMAIN W : c = <<W[w].offset, W[w].size>>
        BY DEF BlocksOf
      <4>2. w \in DOMAIN V /\ W[w] = V[w] /\ w \notin {h, d}
        BY <1>8
      <4>3. c \in B
        BY <4>1, <4>2 DEF BlocksOf
      <4>4. c # b
        BY <2>4, <4>1, <4>2
      <4> QED
        BY <4>3, <4>4
    <3>2. ASSUME NEW c \in B, c # b PROVE c \in C
      <4>1. PICK w \in DOMAIN V : c = <<V[w].offset, V[w].size>>
        BY DEF BlocksOf
      <4>2. w # d /\ w # h
        BY <2>5, <3>2, <4>1
      <4>3. w \in DOMAIN W /\ W[w] = V[w]
        BY <1>8, <4>2
      <4> QED
        BY <4>1, <4>3 DEF BlocksOf
    <3> HIDE DEF B, C, b
    <3> QED
      BY <3>1, <3>2
  <2>7. b \in B /\ b[2] = V[d].size
    BY <2>3 DEF BlocksOf
  <2> HIDE DEF B, C, b
  <2>8. BlockSet(B)
    BY <2>2, BlocksAreFinite DEF B
  <2>9. SizeSum(C) = SizeSum(B) - b[2] /\ SizeSum(B) \in Nat
    BY <2>6, <2>7, <2>8, SizeSumFacts
  <2>10. /\ SumFunctionOnSet(SizeOf, S) = SumFunctionOnSet(SizeOf, S \ {d}) + SizeOf[d]
         /\ SumFunctionOnSet(SizeOf, S \ {d}) \in Nat
    BY SizesAdd, SumWithout, SumNat
  <2>11. b[2] = SizeOf[d] /\ SizeOf[d] \in Nat
    BY <1>1, <2>7, PoolAssumption
  <2>12. ASSUME NEW i \in Nat, NEW j \in Nat, NEW n, n = j + i PROVE n - i = j
    BY <2>12
  <2>13. SumFunctionOnSet(SizeOf, S) - SizeOf[d] = SumFunctionOnSet(SizeOf, S \ {d})
    BY <2>10, <2>11, <2>12, Zenon
  <2>14. q.arena.live = SumFunctionOnSet(SizeOf, S) - SizeOf[d]
    BY <1>1, <2>2, <2>9, <2>11, Zenon
  <2> QED
    BY <2>13, <2>14, Zenon
<1>12. \A e \in S \ {d} : W[e].size = SizeOf[e] /\ W[Handle(e)] = V[Handle(e)]
  BY <1>1, <1>8, <1>10
<1> HIDE DEF hs2, h
<1>13. ServesOK(q, hs2, mem, S \ {d})
  BY <1>6, <1>7, <1>9, <1>11, <1>12 DEF ServesOK
<1> QED
  BY <1>12, <1>13 DEF hs2, h

(* A set of tensors released, one after the other in any order.              *)
Freed(f, p, S) ==
  \A s \in SUBSET S : f[s] = IF s = {} THEN p
                             ELSE HandleReleased(f[s \ {AnyOf(s)}], AnyOf(s), Handle(AnyOf(s)))

LEMMA FreedExists ==
  ASSUME NEW p, NEW S, IsFiniteSet(S)
  PROVE  \E f : f = [s \in SUBSET S |-> f[s]] /\ Freed(f, p, S)
<1> DEFINE Next1(g, s) == HandleReleased(g[s \ {AnyOf(s)}], AnyOf(s), Handle(AnyOf(s)))
           Fits1(f, k) == \A s \in Small(S, k) : f[s] = IF s = {} THEN p ELSE Next1(f, s)
           Good(k) == \E f : f = [s \in Small(S, k) |-> f[s]] /\ Fits1(f, k)
           Bad == {k \in Nat : ~Good(k)}
<1>1. Bad = {}
  <2>1. SUFFICES ASSUME Bad # {} PROVE FALSE
    OBVIOUS
  <2>2. PICK m \in Bad : \A k \in Bad : m <= k
    BY <2>1, HasLeast
  <2>3. ASSUME NEW s \in Small(S, m), s # {}
        PROVE  /\ m > 0 /\ m - 1 \in Nat
               /\ s \ {AnyOf(s)} \in Small(S, m - 1) /\ s \ {AnyOf(s)} \in Small(S, m)
    <3>1. AnyOf(s) \in s /\ s \subseteq S
      BY <2>3 DEF Small, AnyOf
    <3>2. m > 0 /\ m - 1 \in Nat /\ s \ {AnyOf(s)} \in Small(S, m - 1)
      BY <3>1, SmallWithout
    <3>3. Cardinality(s \ {AnyOf(s)}) \in Nat
      BY <3>1, FS_Subset, FS_CardinalityType
    <3> QED
      BY <3>1, <3>2, <3>3 DEF Small
  <2>4. CASE m = 0
    <3> DEFINE f == [s \in Small(S, m) |-> p]
    <3>1. \A s \in Small(S, m) : s = {}
      BY <2>3, <2>4
    <3>2. f = [s \in Small(S, m) |-> f[s]] /\ Fits1(f, m)
      BY <3>1
    <3> QED
      BY <2>2, <3>2
  <2>5. CASE m # 0
    <3>1. m - 1 \in Nat /\ m - 1 \notin Bad
      BY <2>2, <2>5
    <3>2. Good(m - 1)
      BY <3>1
    <3>3. PICK g : Fits1(g, m - 1)
      BY <3>2
    <3> DEFINE f == [s \in Small(S, m) |-> IF s = {} THEN p ELSE Next1(g, s)]
    <3>4. ASSUME NEW s \in Small(S, m - 1), s \in Small(S, m) PROVE f[s] = g[s]
      BY <3>3, <3>4
    <3>5. Fits1(f, m)
      <4> SUFFICES ASSUME NEW s \in Small(S, m), s # {} PROVE f[s] = Next1(f, s)
        OBVIOUS
      <4>1. f[s \ {AnyOf(s)}] = g[s \ {AnyOf(s)}]
        BY <2>3, <3>4
      <4>2. f[s] = Next1(g, s)
        OBVIOUS
      <4> HIDE DEF f
      <4> QED
        BY <4>1, <4>2
    <3>6. f = [s \in Small(S, m) |-> f[s]]
      OBVIOUS
    <3> HIDE DEF f, Fits1
    <3>7. Good(m)
      BY <3>5, <3>6
    <3> QED
      BY <2>2, <3>7
  <2> QED
    BY <2>4, <2>5
<1>2. Cardinality(S) \in Nat /\ Small(S, Cardinality(S)) = SUBSET S
  BY FS_CardinalityType, FS_Subset DEF Small
<1>3. Good(Cardinality(S))
  BY <1>1, <1>2
<1>4. PICK f : f = [s \in Small(S, Cardinality(S)) |-> f[s]] /\ Fits1(f, Cardinality(S))
  BY <1>3
<1>5. Freed(f, p, S)
  BY <1>2, <1>4 DEF Freed
<1>6. f = [s \in SUBSET S |-> f[s]]
  BY <1>2, <1>4
<1> QED
  BY <1>5, <1>6

LEMMA FoldIsFreed ==
  ASSUME NEW p, NEW S, IsFiniteSet(S)
  PROVE  \E f : /\ f[S] = FoldSet(LAMBDA d, q : HandleReleased(q, d, Handle(d)), p, S)
                /\ Freed(f, p, S)
<1> DEFINE Rule(f) == [s \in SUBSET S |->
                         IF s = {} THEN p
                         ELSE HandleReleased(f[s \ {AnyOf(s)}], AnyOf(s), Handle(AnyOf(s)))]
<1>1. PICK f : f = [s \in SUBSET S |-> f[s]] /\ Freed(f, p, S)
  BY FreedExists
<1>2. f = Rule(f)
  <2>1. \A s \in SUBSET S : f[s] = Rule(f)[s]
    BY <1>1 DEF Freed
  <2>2. f = [s \in SUBSET S |-> Rule(f)[s]]
    <3> HIDE DEF Rule
    <3> QED
      BY <1>1, <2>1
  <2> QED
    BY <2>2
<1> DEFINE g == CHOOSE f_1 : f_1 = Rule(f_1)
<1>3. g = Rule(g)
  BY <1>2, Zenon
<1>4. FoldSet(LAMBDA d, q : HandleReleased(q, d, Handle(d)), p, S) = g[S]
  BY DEF FoldSet, MapThenFoldSet, AnyOf
<1>5. Freed(g, p, S)
  <2> HIDE DEF g
  <2> QED
    BY <1>3 DEF Freed
<1> QED
  BY <1>4, <1>5

(* The handles held are a function.                                          *)
Plain(hs) == hs = [i \in DOMAIN hs |-> hs[i]]

(* The tensors of a set are where they were.                                 *)
Unmoved(q, p, T) == \A e \in T : q.arena.views[Handle(e)] = p.arena.views[Handle(e)]

(* What is left of the handles when those on the tensors of a set are gone.  *)
Without(hs, T) == Restrict(hs, DOMAIN hs \ {Handle(d) : d \in T})

(* The pool after a set of tensors was released.                             *)
LEMMA FreedServes ==
  ASSUME NEW p, NEW hs, NEW mem, NEW S, S \subseteq Tensors, ServesOK(p, hs, mem, S),
         Plain(hs), NEW G, G \subseteq S, NEW f, Freed(f, p, G)
  PROVE  ServesOK(f[G], Without(hs, G), mem, S \ G) /\ Unmoved(f[G], p, S \ G)
<1> DEFINE OK(T) == /\ ServesOK(f[T], Without(hs, T), mem, S \ T)
                    /\ \A e \in S \ T : f[T].arena.views[Handle(e)] = p.arena.views[Handle(e)]
           Bad == {k \in Nat : \E T \in SUBSET G : Cardinality(T) = k /\ ~OK(T)}
<1>1. IsFiniteSet(G)
  BY TieredAssumption, FS_Subset
<1>2. Bad = {}
  <2>1. SUFFICES ASSUME Bad # {} PROVE FALSE
    OBVIOUS
  <2>2. PICK n \in Bad : \A k \in Bad : n <= k
    BY <2>1, HasLeast
  <2>3. PICK T \in SUBSET G : Cardinality(T) = n /\ ~OK(T)
    BY <2>2
  <2>4. T # {}
    <3> SUFFICES ASSUME T = {} PROVE OK(T)
      BY <2>3
    <3>1. f[T] = p /\ S \ T = S
      BY DEF Freed
    <3>2. Without(hs, T) = hs
      BY DEF Without, Restrict, Plain
    <3> QED
      BY <3>1, <3>2
  <2> DEFINE x == AnyOf(T)
             U == T \ {x}
  <2>5. x \in T /\ U \in SUBSET G /\ U \subseteq G
    BY <2>4 DEF AnyOf
  <2>6. Cardinality(U) = n - 1 /\ n - 1 \in Nat /\ n \in Nat
    <3>1. Cardinality(U) = n - 1 /\ Cardinality(U) \in Nat /\ n \in Nat
      BY <1>1, <2>2, <2>3, <2>5, FS_RemoveElement, FS_CardinalityType, FS_Subset
    <3> QED
      BY <3>1
  <2> HIDE DEF OK
  <2>7. OK(U)
    <3>1. n - 1 \notin Bad
      <4> HIDE DEF Bad
      <4> QED
        BY <2>2, <2>6
    <3> HIDE DEF U
    <3> QED
      BY <2>5, <2>6, <3>1
  <2>8. f[T] = HandleReleased(f[U], x, Handle(x))
    BY <2>4 DEF Freed
  <2>9. x \in S \ U /\ S \ U \subseteq Tensors /\ (S \ U) \ {x} = S \ T
    BY <2>5
  <2>10. Unhanded(Without(hs, U), Handle(x)) = Without(hs, T)
    <3>1. DOMAIN Without(hs, U) = DOMAIN hs \ {Handle(d) : d \in U}
      BY DEF Without, Restrict
    <3>2. (DOMAIN hs \ {Handle(d) : d \in U}) \ {Handle(x)} = DOMAIN hs \ {Handle(d) : d \in T}
      BY <2>5
    <3>3. \A i \in DOMAIN hs \ {Handle(d) : d \in U} : Without(hs, U)[i] = hs[i]
      BY DEF Without, Restrict
    <3> DEFINE A == DOMAIN hs \ {Handle(d) : d \in U}
               B == DOMAIN hs \ {Handle(d) : d \in T}
    <3>4. Unhanded(Without(hs, U), Handle(x)) = [i \in B |-> Without(hs, U)[i]]
      BY <3>1, <3>2 DEF Unhanded, Restrict
    <3>5. B \subseteq A
      BY <3>2
    <3>6. [i \in B |-> Without(hs, U)[i]] = [i \in B |-> hs[i]]
      <4> HIDE DEF B, A
      <4> QED
        BY <3>3, <3>5 DEF A
    <3>7. Without(hs, T) = [i \in B |-> hs[i]]
      BY DEF Without, Restrict
    <3> QED
      BY ONLY <3>4, <3>6, <3>7
  <2> HIDE DEF U, x
  <2>11. /\ ServesOK(f[U], Without(hs, U), mem, S \ U)
         /\ \A e \in S \ U : f[U].arena.views[Handle(e)] = p.arena.views[Handle(e)]
    BY <2>7 DEF OK
  <2>12. /\ ServesOK(f[T], Unhanded(Without(hs, U), Handle(x)), mem, (S \ U) \ {x})
         /\ \A e \in (S \ U) \ {x} : f[T].arena.views[Handle(e)] = f[U].arena.views[Handle(e)]
    <3> DEFINE A == S \ U
               hs1 == Without(hs, U)
               q1 == f[U]
               q2 == f[T]
    <3>1. ServesOK(q1, hs1, mem, A) /\ x \in A /\ A \subseteq Tensors /\ q2 = HandleReleased(q1, x, Handle(x))
      BY <2>8, <2>9, <2>11
    <3> HIDE DEF A, hs1, q1, q2
    <3>2. /\ ServesOK(q2, Unhanded(hs1, Handle(x)), mem, A \ {x})
          /\ \A e \in A \ {x} : q2.arena.views[Handle(e)] = q1.arena.views[Handle(e)]
      BY <3>1, ReleasedServes
    <3> QED
      BY <3>2 DEF A, hs1, q1, q2
  <2>13. OK(T)
    BY <2>9, <2>10, <2>11, <2>12 DEF OK
  <2> QED
    BY <2>3, <2>13
<1>3. Cardinality(G) \in Nat
  BY <1>1, FS_CardinalityType
<1>4. OK(G)
  <2> HIDE DEF OK
  <2> QED
    BY <1>2, <1>3
<1> QED
  BY <1>4 DEF Unmoved

(* A tensor that is admitted again leaves the pool as it was.                *)
LEMMA AgainServes ==
  ASSUME NEW p, NEW hs, NEW mem, NEW S, S \subseteq Tensors, ServesOK(p, hs, mem, S), NEW d \in S,
         Plain(hs), NEW q, q = HandleReleased(Interned(p, d, Spare), d, Spare)
  PROVE  /\ ServesOK(q, hs, mem, S)
         /\ \A e \in S : q.arena.views[Handle(e)] = p.arena.views[Handle(e)]
<1> DEFINE p1 == Interned(p, d, Spare)
           was == p.entries[d].data
           hs1 == Handed(hs, Spare, d, was)
           V == p.arena.views
           W == q.arena.views
           no == FALSE
<1>1. /\ PoolOK(p, hs, mem, no) /\ Positive(p) /\ DOMAIN p.entries = S
      /\ DOMAIN hs = {Handle(e) : e \in S} /\ \A e \in S : hs[Handle(e)].key = e
      /\ \A e \in S : V[e].size = SizeOf[e]
      /\ p.arena.live = SumFunctionOnSet(SizeOf, S)
  BY DEF ServesOK
<1>2. ArenaOK(p.arena) /\ Named(p, hs) /\ Exact(p, hs)
  BY <1>1 DEF PoolOK
<1>3. p.entries[d].handles = 1
  BY OneHandle
<1>4. Spare \in Handles /\ Spare \notin DOMAIN hs /\ Spare \notin DOMAIN V /\ d \in DOMAIN V
  <2>1. Spare \notin DOMAIN hs
    BY <1>1, NamesApart
  <2> QED
    BY <1>1, <1>2, <2>1, NamesApart DEF Exact, Named, Live
<1>5. Shared(p.arena, p1.arena, d, Spare, TRUE)
  <2>1. p1.arena = Aliased(p.arena, d, Spare, TRUE)
    BY DEF Interned
  <2>2. Shared(p.arena, Aliased(p.arena, d, Spare, TRUE), d, Spare, TRUE)
    BY <1>2, <1>4, AliasedFacts
  <2> QED
    BY <2>1, <2>2, Zenon
<1>6. /\ PoolOK(p1, hs1, mem, no) /\ DOMAIN p1.entries = S /\ p1.entries[d].handles = 2
      /\ \A e \in S : e # d => p1.entries[e] = p.entries[e]
  <2> HIDE DEF no
  <2>1. ~Live(p.arena, Spare)
    BY <1>4 DEF Live
  <2> HIDE DEF V, W
  <2> QED
    BY <1>1, <1>3, <1>4, <2>1, InternedOK
<1>7. q = Lowered(p1, d, Spare)
  <2>1. p1.entries[d].handles \in Nat /\ p1.entries[d].handles > 1
    BY <1>6
  <2> HIDE DEF p1
  <2>2. q = HandleReleased(p1, d, Spare)
    BY DEF p1
  <2> QED
    BY <1>6, <2>1, <2>2, HandleReleasedHalves
<1>8. Live(p1.arena, Spare)
  BY <1>5 DEF Shared, Live
<1>9. /\ PoolOK(q, Unhanded(hs1, Spare), mem, no) /\ DOMAIN q.entries = S
      /\ q.entries[d].handles = 1
      /\ \A e \in S : e # d => q.entries[e] = p1.entries[e]
  <2>1. Spare \in DOMAIN hs1 /\ hs1[Spare].key = d
    BY DEF Handed
  <2>2. (no <=> (no \/ ~Live(p1.arena, Spare))) /\ p1.entries[d].handles >= 1
        /\ p1.entries[d].handles - 1 = 1 /\ d \in DOMAIN p1.entries
    BY <1>6, <1>8
  <2> HIDE DEF p1, hs1, no, V, W
  <2>3. /\ PoolOK(Lowered(p1, d, Spare), Unhanded(hs1, Spare), mem, no)
        /\ DOMAIN Lowered(p1, d, Spare).entries = DOMAIN p1.entries
        /\ Lowered(p1, d, Spare).entries[d].handles = p1.entries[d].handles - 1
        /\ \A l \in DOMAIN p1.entries : l # d => Lowered(p1, d, Spare).entries[l] = p1.entries[l]
    BY <1>6, <2>1, <2>2, LoweredOK
  <2> QED
    BY <1>6, <1>7, <2>2, <2>3
<1>10. Unhanded(hs1, Spare) = hs
  <2>1. DOMAIN hs1 = DOMAIN hs \cup {Spare} /\ \A i \in DOMAIN hs : hs1[i] = hs[i]
    BY <1>4 DEF Handed
  <2> HIDE DEF hs1
  <2>2. DOMAIN hs1 \ {Spare} = DOMAIN hs
    BY <1>4, <2>1
  <2>3. Unhanded(hs1, Spare) = [i \in DOMAIN hs |-> hs1[i]]
    BY <2>2 DEF Unhanded, Restrict
  <2> QED
    BY <2>1, <2>3 DEF Plain
<1>11. Positive(q)
  <2> HIDE DEF p1, hs1, V, W
  <2> QED
    BY <1>1, <1>6, <1>9 DEF Positive
<1>12. DOMAIN W = DOMAIN V /\ \A w \in DOMAIN V : W[w] = V[w]
  <2>1. q.arena = ViewReleased(p1.arena, Spare)
    BY <1>7 DEF Lowered
  <2>2. ArenaOK(p1.arena)
    BY <1>5 DEF Shared
  <2> HIDE DEF p1
  <2>3. Dropped(p1.arena, q.arena, Spare)
    BY <2>1, <2>2, ViewReleasedFacts
  <2> QED
    BY <1>4, <1>5, <2>3 DEF Dropped, Shared
<1>13. q.arena.live = p.arena.live
  <2>1. BlocksOf(W) = BlocksOf(V)
    BY <1>12 DEF BlocksOf
  <2>2. ArenaOK(q.arena)
    BY <1>9 DEF PoolOK
  <2> QED
    BY <1>2, <2>1, <2>2 DEF ArenaOK
<1>14. \A e \in S : e \in DOMAIN V /\ Handle(e) \in DOMAIN V
  <2>1. \A e \in S : Handle(e) \in DOMAIN V
    BY OneHandle DEF Live
  <2> QED
    BY <1>1, <1>2, <2>1, NamesApart DEF Named
<1> HIDE DEF p1, hs1
<1>15. ServesOK(q, hs, mem, S)
  BY <1>1, <1>9, <1>10, <1>11, <1>12, <1>13, <1>14 DEF ServesOK
<1> QED
  BY <1>12, <1>14, <1>15

(* A tensor admitted anew gets bytes of its own.                             *)
LEMMA AnewServes ==
  ASSUME NEW S, S \subseteq Tensors, ServesOK(pool, handles, memory, S), spoiled = FALSE,
         DOMAIN memory = 0..(Capacity - 1), NEW d \in Tensors, d \notin S,
         InternNew(d, d, Handle(d))
  PROVE  /\ ServesOK(pool', handles', memory', S \cup {d}) /\ spoiled' = FALSE
         /\ DOMAIN memory' = 0..(Capacity - 1)
         /\ Plain(handles')
         /\ \A e \in S : pool'.arena.views[Handle(e)] = pool.arena.views[Handle(e)]
<1> DEFINE h == Handle(d)
           q == Mastered(pool, d, d)
           no == FALSE
           a == pool.arena
           n == SizeOf[d]
<1>1. /\ PoolOK(pool, handles, memory, no) /\ Positive(pool) /\ DOMAIN pool.entries = S
      /\ DOMAIN handles = {Handle(e) : e \in S} /\ \A e \in S : handles[Handle(e)].key = e
      /\ \A e \in S : a.views[e].size = SizeOf[e]
      /\ a.live = SumFunctionOnSet(SizeOf, S)
  BY DEF ServesOK
<1>2. h \in Handles /\ h \notin Keys /\ d \in Keys /\ n \in Nat /\ n >= 1
  BY NamesApart, PoolAssumption DEF Keys
<1>3. /\ h \notin DOMAIN handles /\ ~Live(a, h) /\ d \notin DOMAIN pool.entries
      /\ Fitting(a, n) # {}
      /\ pool' = Interned(q, d, h) /\ handles' = Handed(handles, h, d, d)
      /\ spoiled' = spoiled
  BY DEF InternNew, Free, Known, Hand, Handed, InternedNew, Mastered
<1>4. PoolOK(pool', handles', memory', no) /\ Positive(pool') /\ DOMAIN memory' = 0..(Capacity - 1)
  <2>1. PoolInv
    BY <1>1 DEF PoolInv
  <2>2. PoolInv'
    BY <1>2, <2>1, InternNewKeeps
  <2> QED
    BY <1>3, <2>2 DEF PoolInv
<1>5. ArenaOK(a) /\ d \notin DOMAIN a.views
  BY <1>1, <1>2, <1>3 DEF PoolOK, Named
<1>6. Grew(a, q.arena, d, n, TRUE)
  <2>1. Grew(a, Allocated(a, d, n, TRUE), d, n, TRUE)
    <3> HIDE DEF a, n
    <3> QED
      BY <1>2, <1>3, <1>5, AllocatedFacts
  <2>2. q.arena = Allocated(a, d, n, TRUE)
    BY DEF Mastered
  <2> QED
    BY <2>1, <2>2, Zenon
<1>7. Shared(q.arena, pool'.arena, d, h, TRUE)
  <2> DEFINE b == q.arena
  <2>1. ArenaOK(b) /\ d \in DOMAIN b.views /\ h \notin DOMAIN b.views
    BY <1>2, <1>3, <1>6 DEF Grew, Live
  <2>2. pool'.arena = Aliased(b, d, h, TRUE)
    <3> HIDE DEF q
    <3> QED
      BY <1>3 DEF Interned
  <2> HIDE DEF b, h
  <2>3. Shared(b, Aliased(b, d, h, TRUE), d, h, TRUE)
    BY <2>1, AliasedFacts
  <2>4. Shared(b, pool'.arena, d, h, TRUE)
    BY <2>2, <2>3, Zenon
  <2> QED
    BY <2>4 DEF b
<1>8. DOMAIN pool'.entries = S \cup {d}
  <2>1. DOMAIN q.entries = S \cup {d}
    BY <1>1 DEF Mastered
  <2> HIDE DEF q
  <2> QED
    BY <1>3, <2>1 DEF Interned
<1>9. pool'.arena.live = a.live + n
  <2>1. q.arena.live = a.live + n
    BY DEF Mastered, Allocated
  <2> HIDE DEF q
  <2> QED
    BY <1>3, <2>1 DEF Interned, Aliased
<1> HIDE DEF q
<1>10. \A w \in DOMAIN a.views : pool'.arena.views[w] = a.views[w]
  BY <1>6, <1>7 DEF Grew, Shared
<1>11. pool'.arena.views[d].size = n
  BY <1>6, <1>7 DEF Grew, Shared
<1>12. \A e \in S : e \in DOMAIN a.views /\ Handle(e) \in DOMAIN a.views
  <2>1. \A e \in S : Handle(e) \in DOMAIN a.views
    BY OneHandle DEF Live
  <2> QED
    BY <1>1, <2>1, NamesApart DEF PoolOK, Named
<1>13. /\ DOMAIN handles' = {Handle(e) : e \in S \cup {d}}
       /\ \A e \in S \cup {d} : handles'[Handle(e)].key = e
       /\ Plain(handles')
  <2>1. /\ DOMAIN handles' = DOMAIN handles \cup {h} /\ handles'[h].key = d
        /\ \A i \in DOMAIN handles : i # h => handles'[i] = handles[i]
        /\ Plain(handles')
    BY <1>3 DEF Handed, Plain
  <2> QED
    BY <1>1, <1>3, <2>1
<1>14. pool'.arena.live = SumFunctionOnSet(SizeOf, S \cup {d})
  <2> DEFINE T == S \cup {d}
  <2>1. T \ {d} = S /\ T \subseteq Tensors /\ d \in T
    OBVIOUS
  <2> HIDE DEF T
  <2>2. SumFunctionOnSet(SizeOf, T) = SumFunctionOnSet(SizeOf, T \ {d}) + SizeOf[d]
    BY <2>1, SizesAdd, SumWithout
  <2>3. pool'.arena.live = SumFunctionOnSet(SizeOf, T)
    BY <1>1, <1>9, <2>1, <2>2, Zenon DEF n
  <2> QED
    BY <2>3 DEF T
<1>15. \A e \in S \cup {d} : pool'.arena.views[e].size = SizeOf[e]
  BY <1>1, <1>10, <1>11, <1>12
<1> HIDE DEF a, h, n
<1>16. ServesOK(pool', handles', memory', S \cup {d})
  BY <1>4, <1>8, <1>13, <1>14, <1>15 DEF ServesOK
<1> QED
  BY <1>3, <1>4, <1>10, <1>12, <1>13, <1>16 DEF a

Tiers == {"hot", "warm", "cold", "evicted"}
RecordOK(r) ==
  /\ r.priority \in Nat /\ r.pinned \in BOOLEAN /\ r.last_access_ns \in Times
  /\ r.access_count \in Nat /\ r.active_leases \in 0..MaxLeases /\ r.tier \in Tiers
  /\ r.active_leases > 0 => r.tier # "evicted"
RecordsOK == DOMAIN records \subseteq Tensors /\ \A d \in DOMAIN records : RecordOK(records[d])
Residents == {d \in Tensors : Held(d)}

(* The pool serves the residents, and no tensor under a lease is evicted.     *)
TieredInv ==
  /\ ServesOK(pool, handles, memory, Residents) /\ spoiled = FALSE
  /\ DOMAIN memory = 0..(Capacity - 1) /\ Plain(handles)
  /\ RecordsOK

LEMMA CountFacts ==
  ASSUME NEW n \in Nat
  PROVE  Count(n) \in Nat
<1>1. {n + 1, 3} \subseteq Nat /\ {n + 1, 3} # {}
  OBVIOUS
<1>2. Min({n + 1, 3}) \in Nat
  BY <1>1, MinOfSome
<1> QED
  BY <1>2 DEF Count

LEMMA BiggerFacts ==
  ASSUME NEW m \in Nat, NEW n \in Nat
  PROVE  Bigger(m, n) \in Nat
BY MaxOfTwo DEF Bigger

(* A touch leaves the leases as they are and the record resident.            *)
LEMMA UsedFacts ==
  ASSUME NEW r, RecordOK(r), r.tier # "evicted", NEW time \in Times \cup {NoTime},
         NEW s, s = Used(r, time)
  PROVE  /\ RecordOK(s) /\ s.tier # "evicted" /\ s.active_leases = r.active_leases
<1>1. Count(r.access_count) \in Nat
  BY CountFacts DEF RecordOK
<1>2. s.tier \in {"hot", "warm"}
  BY DEF Used
<1> QED
  BY <1>1, <1>2 DEF RecordOK, Used, Tiers

(* A step that neither evicts nor admits anew.                               *)
LEMMA StillServes ==
  ASSUME TieredInv, UNCHANGED <<memory, handles, spoiled>>,
         ServesOK(pool', handles, memory, Residents),
         DOMAIN records' = DOMAIN records,
         \A d \in DOMAIN records :
            RecordOK(records'[d]) /\ (records'[d].tier = "evicted" <=> records[d].tier = "evicted")
  PROVE  TieredInv'
<1>1. Residents' = Residents
  BY DEF Residents, Held, OnRecord
<1>2. RecordsOK'
  BY DEF TieredInv, RecordsOK, RecordOK
<1> QED
  BY <1>1, <1>2 DEF TieredInv

LEMMA TieredInitOK == TieredInit => TieredInv
<1> SUFFICES ASSUME TieredInit PROVE TieredInv
  OBVIOUS
<1>1. DOMAIN records = {} /\ pool = EmptyPool /\ handles = <<>> /\ DOMAIN handles = {}
  BY DEF TieredInit, PoolInit
<1>2. Residents = {}
  BY <1>1 DEF Residents, Held, OnRecord
<1>3. PoolOK(pool, handles, memory, FALSE) /\ Positive(pool)
  BY <1>1, EmptyOK
<1>4. DOMAIN pool.entries = {} /\ pool.arena.live = 0
  BY <1>1 DEF EmptyPool, EmptyArena
<1>5. SumFunctionOnSet(SizeOf, {}) = 0
  BY SumOfNone
<1>6. ServesOK(pool, handles, memory, Residents)
  BY <1>1, <1>2, <1>3, <1>4, <1>5 DEF ServesOK
<1>7. spoiled = FALSE /\ DOMAIN memory = 0..(Capacity - 1)
  BY DEF TieredInit, PoolInit
<1>8. Plain(handles)
  BY <1>1 DEF Plain
<1> QED
  BY <1>1, <1>6, <1>7, <1>8 DEF TieredInv, RecordsOK

LEMMA AdmitAnewServes ==
  ASSUME TieredInv, NEW d \in Tensors, NEW priority \in Priorities, NEW pinned \in BOOLEAN,
         NEW time \in Times, AdmitAnew(d, priority, pinned, time)
  PROVE  /\ TieredInv' /\ \A e \in Residents : pool'.arena.views[Handle(e)] = pool.arena.views[Handle(e)]
         /\ Residents' = Residents \cup {d}
<1> DEFINE fresh == [priority |-> IF pinned THEN Bigger(priority, 100) ELSE priority,
                     pinned |-> pinned, last_access_ns |-> time, access_count |-> 1,
                     active_leases |-> 0, tier |-> "warm"]
<1>1. /\ d \notin Residents /\ InternNew(d, d, Handle(d))
      /\ DOMAIN records' = DOMAIN records \cup {d}
      /\ \A e \in DOMAIN records' : records'[e] = IF e # d THEN records[e] ELSE fresh
  BY DEF AdmitAnew, Residents
<1>2. priority \in Nat /\ Bigger(priority, 100) \in Nat /\ MaxLeases \in Nat
  BY TieredAssumption, BiggerFacts
<1>3. RecordOK(fresh) /\ fresh.tier = "warm"
  BY <1>2 DEF RecordOK, Tiers
<1> HIDE DEF fresh
<1>4. RecordsOK'
  <2>1. DOMAIN records' \subseteq Tensors
    BY <1>1 DEF TieredInv, RecordsOK
  <2>2. \A e \in DOMAIN records' : RecordOK(records'[e])
    BY <1>1, <1>3 DEF TieredInv, RecordsOK
  <2> QED
    BY <2>1, <2>2 DEF RecordsOK, RecordOK
<1>5. Residents' = Residents \cup {d}
  BY <1>1, <1>3 DEF Residents, Held, OnRecord
<1>6. Residents \subseteq Tensors
  BY DEF Residents
<1>7. /\ ServesOK(pool', handles', memory', Residents \cup {d}) /\ spoiled' = FALSE
      /\ DOMAIN memory' = 0..(Capacity - 1)
      /\ Plain(handles')
      /\ \A e \in Residents : pool'.arena.views[Handle(e)] = pool.arena.views[Handle(e)]
  <2> HIDE DEF Residents
  <2> QED
    BY <1>1, <1>6, AnewServes DEF TieredInv
<1> QED
  BY <1>4, <1>5, <1>7 DEF TieredInv

LEMMA AdmitAgainServes ==
  ASSUME TieredInv, NEW d \in Tensors, NEW priority \in Priorities, NEW pinned \in BOOLEAN,
         NEW time \in Times, AdmitAgain(d, priority, pinned, time)
  PROVE  /\ TieredInv' /\ \A e \in Residents : pool'.arena.views[Handle(e)] = pool.arena.views[Handle(e)]
         /\ Residents' = Residents
<1> DEFINE r == [records[d] EXCEPT !.priority = Bigger(@, priority), !.pinned = @ \/ pinned]
           s == IF CanTouch(r, time) THEN Used(r, time) ELSE r
<1>1. /\ d \in Residents /\ d \in DOMAIN records /\ records[d].tier # "evicted"
      /\ pool' = HandleReleased(Interned(pool, d, Spare), d, Spare)
      /\ records' = [records EXCEPT ![d] = s]
      /\ UNCHANGED <<handles, memory, spoiled>>
  BY DEF AdmitAgain, Residents, Held, OnRecord, Raised
<1>2. RecordOK(records[d])
  BY <1>1 DEF TieredInv, RecordsOK
<1>3. RecordOK(s) /\ s.tier # "evicted"
  <2>1. Bigger(records[d].priority, priority) \in Nat
    BY <1>2, TieredAssumption, BiggerFacts DEF RecordOK
  <2>2. RecordOK(r) /\ r.tier # "evicted"
    BY <1>1, <1>2, <2>1 DEF RecordOK, Tiers
  <2> HIDE DEF r
  <2>3. RecordOK(Used(r, time)) /\ Used(r, time).tier # "evicted"
    BY <2>2, UsedFacts
  <2> QED
    BY <2>2, <2>3
<1> HIDE DEF s
<1>4. DOMAIN records' = DOMAIN records /\ records'[d] = s
      /\ \A e \in DOMAIN records : e # d => records'[e] = records[e]
  BY <1>1
<1>5. \A e \in DOMAIN records :
         RecordOK(records'[e]) /\ (records'[e].tier = "evicted" <=> records[e].tier = "evicted")
  BY <1>1, <1>3, <1>4 DEF TieredInv, RecordsOK
<1>6. Residents \subseteq Tensors
  BY DEF Residents
<1>7. /\ ServesOK(pool', handles, memory, Residents)
      /\ \A e \in Residents : pool'.arena.views[Handle(e)] = pool.arena.views[Handle(e)]
  <2> HIDE DEF Residents
  <2> QED
    BY <1>1, <1>6, AgainServes DEF TieredInv
<1>8. Residents' = Residents
  BY <1>4, <1>5 DEF Residents, Held, OnRecord
<1> QED
  BY <1>1, <1>4, <1>5, <1>7, <1>8, StillServes

(* A tensor under a lease stays where it is, in a step.                      *)
LeasedKept ==
  \A d \in Tensors : OnRecord(d) /\ records[d].active_leases > 0 =>
     /\ Held(d)'
     /\ pool'.arena.views[Handle(d)] = pool.arena.views[Handle(d)]

(* What a step that evicts nothing does to those that are resident.          *)
NoneGo == /\ TieredInv' /\ Residents \subseteq Residents'
          /\ \A e \in Residents : pool'.arena.views[Handle(e)] = pool.arena.views[Handle(e)]

LEMMA RecordChanged ==
  ASSUME TieredInv, UNCHANGED pool_vars, NEW d \in DOMAIN records, NEW s, RecordOK(s),
         s.tier = "evicted" <=> records[d].tier = "evicted",
         records' = [records EXCEPT ![d] = s]
  PROVE  NoneGo
<1>1. /\ UNCHANGED <<memory, handles, spoiled>> /\ pool' = pool
      /\ ServesOK(pool', handles, memory, Residents)
  BY DEF TieredInv, pool_vars
<1>2. DOMAIN records' = DOMAIN records /\ records'[d] = s
      /\ \A e \in DOMAIN records : e # d => records'[e] = records[e]
  OBVIOUS
<1>3. \A e \in DOMAIN records :
         RecordOK(records'[e]) /\ (records'[e].tier = "evicted" <=> records[e].tier = "evicted")
  BY <1>2 DEF TieredInv, RecordsOK
<1>4. TieredInv'
  BY <1>1, <1>2, <1>3, StillServes
<1>5. Residents' = Residents
  BY <1>2, <1>3 DEF Residents, Held, OnRecord
<1> QED
  BY <1>1, <1>4, <1>5 DEF NoneGo

LEMMA LeaseServes ==
  ASSUME TieredInv, NEW d \in Tensors, NEW time \in Times \cup {NoTime}, Lease(d, time)
  PROVE  NoneGo
<1> DEFINE s == [Used(records[d], time) EXCEPT !.active_leases = @ + 1]
<1>1. /\ d \in DOMAIN records /\ records[d].tier # "evicted" /\ records[d].active_leases < MaxLeases
      /\ records' = [records EXCEPT ![d] = s] /\ UNCHANGED pool_vars
  <2>1. d \in DOMAIN records /\ records[d].tier # "evicted" /\ records[d].active_leases < MaxLeases
    BY DEF Lease, Held, OnRecord
  <2>2. records' = [records EXCEPT ![d] = s] /\ UNCHANGED pool_vars
    BY DEF Lease
  <2> QED
    BY <2>1, <2>2, Zenon
<1>2. RecordOK(records[d])
  BY <1>1 DEF TieredInv, RecordsOK
<1>3. RecordOK(Used(records[d], time)) /\ Used(records[d], time).tier # "evicted"
      /\ Used(records[d], time).active_leases = records[d].active_leases
  BY <1>1, <1>2, UsedFacts
<1>4. RecordOK(s) /\ s.tier # "evicted"
  <2> DEFINE u == Used(records[d], time)
  <2>1. u.active_leases \in 0..MaxLeases /\ u.active_leases < MaxLeases /\ MaxLeases \in Nat
    BY <1>1, <1>3, TieredAssumption DEF RecordOK
  <2>2. u.active_leases + 1 \in 0..MaxLeases
    BY <2>1
  <2>3. RecordOK(u) /\ u.tier # "evicted"
    BY <1>3
  <2>4. \E f : f = u /\ DOMAIN u = DOMAIN records[d]
    BY DEF Used
  <2>5. s = [u EXCEPT !.active_leases = @ + 1]
    OBVIOUS
  <2> HIDE DEF u, s
  <2> QED
    BY <2>2, <2>3, <2>5 DEF RecordOK, Tiers
<1> HIDE DEF s
<1> QED
  BY <1>1, <1>4, RecordChanged

LEMMA CloseLeaseServes ==
  ASSUME TieredInv, NEW d \in Tensors, CloseLease(d)
  PROVE  NoneGo
<1> DEFINE s == [records[d] EXCEPT !.active_leases = @ - 1]
<1>1. /\ d \in DOMAIN records /\ records[d].active_leases > 0
      /\ records' = [records EXCEPT ![d] = s] /\ UNCHANGED pool_vars
  BY DEF CloseLease, OnRecord
<1>2. RecordOK(records[d])
  BY <1>1 DEF TieredInv, RecordsOK
<1>3. RecordOK(s) /\ s.tier = records[d].tier
  BY <1>1, <1>2, TieredAssumption DEF RecordOK
<1> HIDE DEF s
<1> QED
  BY <1>1, <1>3, RecordChanged

LEMMA PinServes ==
  ASSUME TieredInv, NEW d \in Tensors, Pin(d) \/ Unpin(d)
  PROVE  NoneGo
<1> DEFINE r == records[d]
           s == [r EXCEPT !.pinned = TRUE, !.priority = Bigger(@, 100)]
           t == [r EXCEPT !.pinned = FALSE]
<1>1. d \in DOMAIN records /\ UNCHANGED pool_vars
  BY DEF Pin, Unpin, Held, OnRecord
<1>2. RecordOK(r)
  BY <1>1 DEF TieredInv, RecordsOK
<1>3. RecordOK(s) /\ s.tier = r.tier
  <2>1. Bigger(r.priority, 100) \in Nat
    BY <1>2, BiggerFacts DEF RecordOK
  <2> QED
    BY <1>2, <2>1 DEF RecordOK
<1>4. RecordOK(t) /\ t.tier = r.tier
  BY <1>2 DEF RecordOK
<1>5. records' = [records EXCEPT ![d] = s] \/ records' = [records EXCEPT ![d] = t]
  BY <1>1 DEF Pin, Unpin
<1> HIDE DEF s, t
<1> QED
  BY <1>1, <1>3, <1>4, <1>5, RecordChanged

(* A rebalance: the tensors reclaimed go, the others stay.                   *)
LEMMA RebalanceServes ==
  ASSUME TieredInv, NEW now \in Times, NEW limit \in Nat, Rebalance(now, limit)
  PROVE  /\ TieredInv' /\ Residents' = Residents \ Reclaimed(now, limit)
         /\ \A e \in Residents' : pool'.arena.views[Handle(e)] = pool.arena.views[Handle(e)]
<1> DEFINE cold == Candidates(now)
           gone == Reclaimed(now, limit)
<1>1. /\ pool' = FoldSet(LAMBDA d, p : HandleReleased(p, d, Handle(d)), pool, gone)
      /\ handles' = Without(handles, gone)
      /\ DOMAIN records' = DOMAIN records
      /\ \A d \in DOMAIN records :
            records'[d] = IF d \in cold
                          THEN [records[d] EXCEPT !.tier = IF d \in gone THEN "evicted" ELSE "cold"]
                          ELSE records[d]
      /\ UNCHANGED <<memory, spoiled>>
  BY DEF Rebalance, Without
<1>2. gone \subseteq cold /\ cold \subseteq Residents /\ Residents \subseteq Tensors
      /\ \A d \in cold : d \in DOMAIN records /\ records[d].active_leases = 0
  BY DEF Reclaimed, Candidates, Residents, Held, OnRecord, TieredInv, RecordsOK
<1> HIDE DEF cold, gone
<1>3. ASSUME NEW d \in DOMAIN records
      PROVE  RecordOK(records'[d]) /\ (d \in Residents' <=> d \in Residents /\ d \notin gone)
  <2>1. RecordOK(records[d]) /\ d \in Tensors
    BY DEF TieredInv, RecordsOK
  <2>2. CASE d \in gone
    <3>1. records'[d] = [records[d] EXCEPT !.tier = "evicted"] /\ records[d].active_leases = 0
      BY <1>1, <1>2, <2>2
    <3>2. RecordOK(records'[d]) /\ records'[d].tier = "evicted"
      BY <2>1, <3>1 DEF RecordOK, Tiers
    <3>3. d \notin Residents'
      BY <1>1, <3>2 DEF Residents, Held
    <3> QED
      BY <2>2, <3>2, <3>3
  <2>3. CASE d \in cold /\ d \notin gone
    <3>1. records'[d] = [records[d] EXCEPT !.tier = "cold"]
      BY <1>1, <2>3
    <3>2. d \in Residents
      BY <1>2, <2>3
    <3>3. RecordOK(records'[d]) /\ records'[d].tier = "cold"
      BY <2>1, <3>1 DEF RecordOK, Tiers
    <3>4. d \in Residents'
      BY <1>1, <2>1, <3>3 DEF Residents, Held, OnRecord
    <3> QED
      BY <2>3, <3>2, <3>3, <3>4
  <2>4. CASE d \notin cold
    <3>1. records'[d] = records[d] /\ d \notin gone
      BY <1>1, <1>2, <2>4
    <3> QED
      BY <1>1, <2>1, <3>1 DEF Residents, Held, OnRecord
  <2> QED
    BY <1>2, <2>2, <2>3, <2>4
<1>4. Residents' = Residents \ gone
  <2>1. \A d \in Residents \cup Residents' : d \in DOMAIN records
    BY <1>1 DEF Residents, Held, OnRecord
  <2> QED
    BY <1>3, <2>1
<1>5. RecordsOK'
  BY <1>1, <1>3 DEF TieredInv, RecordsOK, RecordOK
<1>6. PICK f : /\ f[gone] = FoldSet(LAMBDA d, p : HandleReleased(p, d, Handle(d)), pool, gone)
               /\ Freed(f, pool, gone)
  <2>1. IsFiniteSet(gone)
    BY <1>2, TieredAssumption, FS_Subset
  <2> QED
    BY <2>1, FoldIsFreed
<1>7. pool' = f[gone]
  BY <1>1, <1>6
<1>8. /\ ServesOK(pool', handles', memory, Residents \ gone)
      /\ \A e \in Residents \ gone : pool'.arena.views[Handle(e)] = pool.arena.views[Handle(e)]
  <2> HIDE DEF Residents
  <2>1. ServesOK(pool, handles, memory, Residents) /\ Plain(handles)
        /\ gone \subseteq Residents
    BY <1>2 DEF TieredInv
  <2>2. /\ ServesOK(f[gone], Without(handles, gone), memory, Residents \ gone)
        /\ Unmoved(f[gone], pool, Residents \ gone)
    <3> DEFINE S == Residents
               p == pool
               hs == handles
               mem == memory
    <3>1. /\ S \subseteq Tensors /\ ServesOK(p, hs, mem, S) /\ gone \subseteq S /\ Freed(f, p, gone)
          /\ Plain(hs)
      BY <1>2, <1>6, <2>1
    <3> HIDE DEF S, p, hs, mem
    <3>2. /\ ServesOK(f[gone], Without(hs, gone), mem, S \ gone)
          /\ Unmoved(f[gone], p, S \ gone)
      BY <3>1, FreedServes, Zenon
    <3> QED
      BY <3>2 DEF S, p, hs, mem
  <2> QED
    BY <1>1, <1>7, <2>2 DEF Unmoved
<1>9. Plain(handles')
  BY <1>1 DEF Without, Restrict, Plain
<1>10. spoiled' = FALSE /\ DOMAIN memory' = 0..(Capacity - 1) /\ memory' = memory
  BY <1>1 DEF TieredInv
<1> QED
  BY <1>4, <1>5, <1>8, <1>9, <1>10 DEF TieredInv, gone

(* A step of the manager is a rebalance, or evicts nothing.                  *)
LEMMA TieredSteps ==
  ASSUME TieredInv, TieredNext
  PROVE  \/ NoneGo
         \/ \E now \in Times, limit \in Nat : Rebalance(now, limit)
<1>1. ASSUME NEW d \in Tensors, NEW priority \in Priorities, NEW pinned \in BOOLEAN,
             NEW time \in Times, AdmitAnew(d, priority, pinned, time)
      PROVE  NoneGo
  BY <1>1, AdmitAnewServes DEF NoneGo
<1>2. ASSUME NEW d \in Tensors, NEW priority \in Priorities, NEW pinned \in BOOLEAN,
             NEW time \in Times, AdmitAgain(d, priority, pinned, time)
      PROVE  NoneGo
  BY <1>2, AdmitAgainServes DEF NoneGo
<1>3. ASSUME NEW level, NEW hint, SetHints(level, hint)
      PROVE  NoneGo
  <2>1. UNCHANGED <<pool, memory, handles, spoiled, records>>
    BY <1>3 DEF SetHints, pool_vars
  <2>2. Residents' = Residents
    BY <2>1 DEF Residents, Held, OnRecord
  <2>3. RecordsOK'
    BY <2>1 DEF TieredInv, RecordsOK, RecordOK
  <2>4. TieredInv'
    BY <2>1, <2>2, <2>3 DEF TieredInv
  <2> QED
    BY <2>1, <2>2, <2>4 DEF NoneGo
<1>4. ASSUME NEW now \in Times, NEW limit \in 0..Cardinality(Tensors), Rebalance(now, limit)
      PROVE  \E n \in Times, l \in Nat : Rebalance(n, l)
  <2>1. Cardinality(Tensors) \in Nat
    BY TieredAssumption, FS_CardinalityType
  <2>2. limit \in Nat
    BY <2>1
  <2> QED
    BY <1>4, <2>2
<1> QED
  BY <1>1, <1>2, <1>3, <1>4, LeaseServes, CloseLeaseServes, PinServes DEF TieredNext

LEMMA TieredKept ==
  ASSUME TieredInv, [TieredNext]_tiered_vars
  PROVE  TieredInv'
<1>1. CASE TieredNext
  BY <1>1, TieredSteps, RebalanceServes DEF NoneGo
<1>2. CASE UNCHANGED tiered_vars
  <2>1. UNCHANGED <<pool, memory, handles, spoiled, records>>
    BY <1>2 DEF tiered_vars, pool_vars
  <2>2. Residents' = Residents
    BY <2>1 DEF Residents, Held, OnRecord
  <2>3. RecordsOK'
    BY <2>1 DEF TieredInv, RecordsOK, RecordOK
  <2> QED
    BY <2>1, <2>2, <2>3 DEF TieredInv
<1> QED
  BY <1>1, <1>2

THEOREM TieredInvariance == TieredSpec => []TieredInv
<1> QED
  BY TieredInitOK, TieredKept, PTL DEF TieredSpec

(* TieredResidencyManager over its pool, for every set of tensors, sizes,     *)
(* capacity and alignment: the pool holds the resident tensors, each with one *)
(* handle and read as it was admitted, and nothing of those evicted.         *)
THEOREM ResidentsStaySound == TieredSpec => []PoolHoldsResidents
<1>1. TieredInv => PoolHoldsResidents
  <2> SUFFICES ASSUME TieredInv PROVE PoolHoldsResidents
    OBVIOUS
  <2>1. /\ PoolOK(pool, handles, memory, FALSE) /\ Positive(pool) /\ DOMAIN pool.entries = Residents
        /\ DOMAIN handles = {Handle(d) : d \in Residents}
        /\ pool.arena.live = SumFunctionOnSet(SizeOf, Residents)
        /\ spoiled = FALSE /\ DOMAIN memory = 0..(Capacity - 1) /\ RecordsOK
    BY DEF TieredInv, ServesOK
  <2>2. PoolInv
    BY <2>1 DEF PoolInv
  <2>3. PoolHolds
    <3>1. ArenaOK(pool.arena)
      BY <2>1 DEF PoolOK
    <3>2. BufferPartitioned
      BY <3>1, ArenaPartitioned DEF BufferPartitioned
    <3> QED
      BY <2>2, <3>2, PoolIsTyped, ReadersAreServed, EntriesAreSound DEF PoolHolds, PoolSound
  <2>4. RecordsTypeOK
    BY <2>1 DEF RecordsOK, RecordOK, RecordsTypeOK, Tiers
  <2>5. ASSUME NEW d \in DOMAIN pool.entries
        PROVE  pool.entries[d].handles = 1 /\ Open(Handle(d))
    <3> DEFINE S == Residents
               p == pool
               hs == handles
               mem == memory
    <3>1. S \subseteq Tensors /\ ServesOK(p, hs, mem, S) /\ d \in S /\ Handle(d) \in DOMAIN hs
      BY <2>1 DEF TieredInv, Residents
    <3> HIDE DEF S, p, hs, mem
    <3>2. p.entries[d].handles = 1 /\ Live(p.arena, Handle(d))
      BY <3>1, OneHandle
    <3> QED
      BY <3>1, <3>2 DEF Open, p, hs
  <2>6. DOMAIN handles = {Handle(d) : d \in DOMAIN pool.entries}
    BY <2>1
  <2> QED
    BY <2>1, <2>3, <2>4, <2>5, <2>6 DEF PoolHoldsResidents, Residents
<1> QED
  BY <1>1, TieredInvariance, PTL

(* A tensor under a lease keeps its bytes and its place in every step.        *)
THEOREM LeasesHold == TieredSpec => LeasedStay
<1>1. TieredInv /\ [TieredNext]_tiered_vars => [LeasedKept]_tiered_vars
  <2> SUFFICES ASSUME TieredInv, TieredNext PROVE LeasedKept
    BY DEF LeasedKept
  <2>1. ASSUME NEW d \in Tensors, OnRecord(d), records[d].active_leases > 0
        PROVE  d \in Residents
    BY <2>1 DEF TieredInv, RecordsOK, RecordOK, Residents, Held, OnRecord
  <2>2. CASE NoneGo
    <3> SUFFICES ASSUME NEW d \in Tensors, OnRecord(d), records[d].active_leases > 0
                 PROVE  Held(d)' /\ pool'.arena.views[Handle(d)] = pool.arena.views[Handle(d)]
      BY DEF LeasedKept
    <3>1. d \in Residents /\ d \in Residents'
      BY <2>1, <2>2 DEF NoneGo
    <3>2. Held(d)'
      BY <3>1 DEF Residents
    <3> QED
      BY <2>2, <3>1, <3>2 DEF NoneGo
  <2>3. ASSUME NEW now \in Times, NEW limit \in Nat, Rebalance(now, limit)
        PROVE  LeasedKept
    <3> SUFFICES ASSUME NEW d \in Tensors, OnRecord(d), records[d].active_leases > 0
                 PROVE  Held(d)' /\ pool'.arena.views[Handle(d)] = pool.arena.views[Handle(d)]
      BY DEF LeasedKept
    <3>1. d \notin Reclaimed(now, limit)
      <4>1. d \in Reclaimed(now, limit) => records[d].active_leases = 0
        BY DEF Reclaimed, Candidates
      <4> QED
        BY <4>1
    <3>2. d \in Residents /\ d \in Residents'
      BY <2>1, <2>3, <3>1, RebalanceServes
    <3>3. Held(d)'
      BY <3>2 DEF Residents
    <3> QED
      BY <2>3, <3>2, <3>3, RebalanceServes
  <2> QED
    BY <2>2, <2>3, TieredSteps
<1>2. TieredSpec => [][LeasedKept]_tiered_vars
  BY <1>1, TieredInvariance, PTL DEF TieredSpec
<1> QED
  BY <1>2 DEF LeasedStay, LeasedKept

LEMMA ScoreIsInt ==
  ASSUME TieredInv, NEW now \in Times, NEW d \in DOMAIN records
  PROVE  Score(d, now) \in Int
<1>1. /\ records[d].last_access_ns \in Int /\ now \in Int /\ records[d].priority \in Int
      /\ records[d].access_count \in Int /\ cold_after_ns \in Int
  BY TieredAssumption DEF TieredInv, RecordsOK, RecordOK, Times
<1>2. Age(d, now) \in Int
  <2> DEFINE n == now - records[d].last_access_ns
             m == IF n >= 0 THEN n ELSE 0
  <2>1. n \in Int
    BY <1>1
  <2>2. m \in {0, n} /\ \A k \in {0, n} : m >= k
    BY <2>1
  <2>3. Max({0, n}) \in {0, n}
    <3> HIDE DEF n, m
    <3> QED
      BY <2>2 DEF Max
  <2> QED
    BY <2>1, <2>3 DEF Age
<1> QED
  BY <1>1, <1>2 DEF Score

(* Those that go before a tensor go before one of a lower score as well.     *)
LEMMA ReclaimedFirst ==
  ASSUME TieredInv, NEW now \in Times, NEW limit \in Nat, NEW d \in Reclaimed(now, limit),
         NEW e \in Candidates(now), e \notin Reclaimed(now, limit)
  PROVE  Score(d, now) >= Score(e, now)
<1> DEFINE P(x) == {c \in Candidates(now) : GoesBefore(c, x, now)}
<1>1. d \in Candidates(now) /\ \A c \in Candidates(now) : Score(c, now) \in Int
  BY ScoreIsInt DEF Reclaimed, Candidates
<1>2. Cardinality(P(d)) < limit /\ ~(Cardinality(P(e)) < limit)
  BY DEF Reclaimed
<1>3. IsFiniteSet(Candidates(now))
  <2>1. Candidates(now) \subseteq Tensors
    BY DEF Candidates, TieredInv, RecordsOK
  <2> QED
    BY <2>1, TieredAssumption, FS_Subset
<1>4. SUFFICES ASSUME Score(d, now) < Score(e, now) PROVE FALSE
  BY <1>1
<1>5. P(e) \subseteq P(d)
  <2> SUFFICES ASSUME NEW c \in Candidates(now), GoesBefore(c, e, now)
               PROVE  GoesBefore(c, d, now)
    OBVIOUS
  <2> QED
    BY <1>1, <1>4 DEF GoesBefore
<1>6. IsFiniteSet(P(d)) /\ IsFiniteSet(P(e))
  BY <1>3, FS_Subset
<1>7. Cardinality(P(e)) <= Cardinality(P(d)) /\ Cardinality(P(e)) \in Nat /\ Cardinality(P(d)) \in Nat
  <2> HIDE DEF P
  <2> QED
    BY <1>5, <1>6, FS_Subset, FS_CardinalityType
<1> QED
  BY <1>2, <1>7

(* A rebalance evicts candidates only, and none warmer than one it spares.    *)
THEOREM ColderGoFirst == TieredSpec => EvictsTheColder
<1> DEFINE Colder ==
             Leaving # {} =>
               \E now \in Times :
                 /\ Leaving \subseteq Candidates(now)
                 /\ \A d \in Leaving, e \in Candidates(now) \ Leaving : Score(d, now) >= Score(e, now)
<1>1. TieredInv /\ [TieredNext]_tiered_vars => [Colder]_tiered_vars
  <2> SUFFICES ASSUME TieredInv, TieredNext PROVE Colder
    OBVIOUS
  <2>1. Leaving = Residents \ Residents'
    <3>1. DOMAIN records \subseteq Tensors
      BY DEF TieredInv, RecordsOK
    <3> QED
      BY <3>1 DEF Leaving, Residents, Held, OnRecord
  <2>2. ASSUME NoneGo PROVE Colder
    BY <2>1, <2>2 DEF NoneGo
  <2>3. ASSUME NEW now \in Times, NEW limit \in Nat, Rebalance(now, limit)
        PROVE  Colder
    <3>1. Leaving = Reclaimed(now, limit)
      <4>1. Reclaimed(now, limit) \subseteq Residents
        BY DEF Reclaimed, Candidates, Residents, Held, OnRecord, TieredInv, RecordsOK
      <4>2. Residents' = Residents \ Reclaimed(now, limit)
        BY <2>3, RebalanceServes
      <4> QED
        BY <2>1, <4>1, <4>2
    <3>2. Leaving \subseteq Candidates(now)
      BY <3>1 DEF Reclaimed
    <3>3. \A d \in Leaving, e \in Candidates(now) \ Leaving : Score(d, now) >= Score(e, now)
      BY <3>1, ReclaimedFirst
    <3> QED
      BY <3>2, <3>3
  <2> QED
    BY <2>2, <2>3, TieredSteps
<1> HIDE DEF Colder
<1>2. TieredSpec => [][Colder]_tiered_vars
  BY <1>1, TieredInvariance, PTL DEF TieredSpec
<1> QED
  BY <1>2 DEF Colder, EvictsTheColder

(* The evictions of the three ledgers, together: blocks go in the order of    *)
(* their last use and protected ones never, leased tensors stay where they    *)
(* are, and a rebalance evicts the colder first.                             *)
THEOREM ReclaimStaysFair == KvSpec /\ TieredSpec => ReclaimIsFair
BY BlockEvictionFollowsUse, LeasesHold, ColderGoFirst DEF ReclaimIsFair
=============================================================================
