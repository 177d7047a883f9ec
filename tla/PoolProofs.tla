------------------------------- MODULE PoolProofs -------------------------------
(***************************************************************************)
(* Proofs about SharedTensorPool, for any keys, handles, tensors, arena      *)
(* capacity and alignment.  Free ranges neither overlap nor touch, a byte is *)
(* free or in one block and never both, the bytes counted are those of the   *)
(* blocks, every reader reads what it was given, and the pool's entries are  *)
(* the blocks of its handles.                                                *)
(***************************************************************************)
EXTENDS SharedTensorPool, SumProofs

-----------------------------------------------------------------------------
(* Numbers: least and greatest elements, and alignment.                      *)
LEMMA MinOfSome ==
  ASSUME NEW S, S \subseteq Nat, S # {}
  PROVE  Min(S) \in S
<1>1. PICK m \in S : \A k \in S : m <= k
  BY HasLeast
<1> QED
  BY <1>1 DEF Min

LEMMA MaxOfTwo ==
  ASSUME NEW x \in Nat, NEW y \in Nat
  PROVE  Max({x, y}) \in Nat /\ Max({x, y}) = IF x >= y THEN x ELSE y
<1> DEFINE m == IF x >= y THEN x ELSE y
<1>1. m \in {x, y} /\ (\A k \in {x, y} : m >= k) /\ \A n \in {x, y} : (\A k \in {x, y} : n >= k) => n = m
  OBVIOUS
<1> HIDE DEF m
<1>2. Max({x, y}) = m
  BY <1>1 DEF Max
<1> QED
  BY <1>1, <1>2 DEF m

LEMMA AlignedFacts ==
  ASSUME NEW n \in Nat
  PROVE  Aligned(n) \in Nat /\ Aligned(n) >= n /\ Aligned(n) % Alignment = 0
<1>1. CASE Alignment = 1
  BY <1>1 DEF Aligned
<1>2. CASE Alignment = 2
  BY <1>2 DEF Aligned
<1>3. CASE Alignment = 4
  BY <1>3 DEF Aligned
<1>4. CASE Alignment = 8
  BY <1>4 DEF Aligned
<1>5. CASE Alignment = 16
  BY <1>5 DEF Aligned
<1>6. CASE Alignment = 32
  BY <1>6 DEF Aligned
<1>7. CASE Alignment = 64
  BY <1>7 DEF Aligned
<1> QED
  BY <1>1, <1>2, <1>3, <1>4, <1>5, <1>6, <1>7, ArenaAssumption
-----------------------------------------------------------------------------
(* The free list: ranges of at least one byte within the buffer, of which no  *)
(* two overlap or touch.                                                     *)
Spans == Nat \X Nat
End(r) == r[1] + r[2]
InFree(f, b) == \E i \in DOMAIN f : f[i][1] <= b /\ b < End(f[i])

FreeOK(f) == /\ f \in Seq(Spans)
             /\ \A i \in DOMAIN f : f[i][2] >= 1 /\ End(f[i]) <= Capacity
             /\ \A i, j \in DOMAIN f : i # j => End(f[i]) < f[j][1] \/ End(f[j]) < f[i][1]

(* The element at i of f replaced by the elements of p.                      *)
Splice(f, i, p) == SubSeq(f, 1, i - 1) \o p \o SubSeq(f, i + 1, Len(f))

IsSplice(g, f, i, p) ==
  /\ Len(g) = Len(f) - 1 + Len(p)
  /\ \A j \in 1..(i - 1) : g[j] = f[j]
  /\ \A j \in 1..Len(p) : g[i - 1 + j] = p[j]
  /\ \A j \in (i + 1)..Len(f) : g[j - 1 + Len(p)] = f[j]

LEMMA Spliced ==
  ASSUME NEW T, NEW f \in Seq(T), NEW i \in 1..Len(f), NEW p \in Seq(T)
  PROVE  Splice(f, i, p) \in Seq(T) /\ IsSplice(Splice(f, i, p), f, i, p)
<1> DEFINE g == Splice(f, i, p)
           A == SubSeq(f, 1, i - 1)
           C == SubSeq(f, i + 1, Len(f))
           B == A \o p
<1>1. A \in Seq(T) /\ Len(A) = i - 1 /\ \A j \in 1..(i - 1) : A[j] = f[j]
  OBVIOUS
<1>2. C \in Seq(T) /\ Len(C) = Len(f) - i /\ \A j \in 1..(Len(f) - i) : C[j] = f[i + j]
  OBVIOUS
<1>3. g = B \o C /\ B = A \o p /\ A \in Seq(T) /\ C \in Seq(T)
  BY DEF Splice
<1> HIDE DEF g, A, B, C
<1>4. /\ B \in Seq(T) /\ Len(B) = Len(A) + Len(p)
      /\ \A j \in 1..Len(A) : B[j] = A[j]
      /\ \A j \in 1..Len(p) : B[Len(A) + j] = p[j]
  BY ONLY <1>3, p \in Seq(T)
<1>5. /\ g \in Seq(T) /\ Len(g) = Len(B) + Len(C)
      /\ \A j \in 1..Len(B) : g[j] = B[j]
      /\ \A j \in 1..Len(C) : g[Len(B) + j] = C[j]
  <2>1. B \in Seq(T)
    BY <1>4
  <2> QED
    BY ONLY <1>3, <2>1
<1>6. ASSUME NEW j \in 1..(i - 1) PROVE g[j] = f[j]
  <2>1. j \in 1..Len(A) /\ j \in 1..Len(B)
    BY <1>1, <1>4
  <2> QED
    BY <1>1, <1>4, <1>5, <2>1
<1>7. ASSUME NEW j \in 1..Len(p) PROVE g[i - 1 + j] = p[j]
  <2>1. Len(A) + j = i - 1 + j /\ i - 1 + j \in 1..Len(B)
    BY <1>1, <1>4
  <2> QED
    BY <1>4, <1>5, <2>1
<1>8. ASSUME NEW j \in (i + 1)..Len(f) PROVE g[j - 1 + Len(p)] = f[j]
  <2>1. j - i \in 1..Len(C) /\ Len(B) + (j - i) = j - 1 + Len(p) /\ i + (j - i) = j
    BY <1>1, <1>2, <1>4
  <2> QED
    BY <1>2, <1>5, <2>1
<1>9. Len(g) = Len(f) - 1 + Len(p)
  <2>1. Len(f) \in Nat /\ Len(p) \in Nat
    OBVIOUS
  <2> QED
    BY ONLY <1>1, <1>2, <1>4, <1>5, <2>1, i \in 1..Len(f)
<1>10. g \in Seq(T) /\ IsSplice(g, f, i, p)
  BY <1>5, <1>6, <1>7, <1>8, <1>9 DEF IsSplice
<1> QED
  BY <1>10 DEF g

(* Where the elements of the spliced sequence come from and go to.            *)
Others(f, i) == (1..Len(f)) \ {i}
FromBoth(g, f, i, p) ==
  /\ \A j \in 1..Len(g) : (\E k \in Others(f, i) : g[j] = f[k]) \/ \E k \in 1..Len(p) : g[j] = p[k]
  /\ \A j, k \in 1..Len(g) : j # k =>
       \/ \E u, v \in Others(f, i) : u # v /\ g[j] = f[u] /\ g[k] = f[v]
       \/ \E u, v \in 1..Len(p) : u # v /\ g[j] = p[u] /\ g[k] = p[v]
       \/ \E u \in Others(f, i), v \in 1..Len(p) : g[j] = f[u] /\ g[k] = p[v]
       \/ \E u \in 1..Len(p), v \in Others(f, i) : g[j] = p[u] /\ g[k] = f[v]
  /\ \A k \in Others(f, i) : \E j \in 1..Len(g) : g[j] = f[k]
  /\ \A k \in 1..Len(p) : \E j \in 1..Len(g) : g[j] = p[k]

LEMMA Origins ==
  ASSUME NEW f, NEW p, NEW g, Len(f) \in Nat, Len(p) \in Nat, NEW i \in 1..Len(f), IsSplice(g, f, i, p)
  PROVE  FromBoth(g, f, i, p)
<1> DEFINE m == Len(f)
           n == Len(p)
           q == Len(g)
           others == Others(f, i)
<1>a. /\ q = m - 1 + n /\ others = (1..m) \ {i} /\ m \in Nat /\ n \in Nat /\ i \in 1..m
      /\ \A j \in 1..(i - 1) : g[j] = f[j]
      /\ \A j \in 1..n : g[i - 1 + j] = p[j]
      /\ \A j \in (i + 1)..m : g[j - 1 + n] = f[j]
  BY DEF IsSplice, Others
<1> HIDE DEF m, n, q, others
<1> USE <1>a
<1> DEFINE isOld(j) == j < i \/ j > i - 1 + n
           old(j) == IF j < i THEN j ELSE j + 1 - n
           new(j) == j - (i - 1)
<1>1. ASSUME NEW j \in 1..q, isOld(j) PROVE old(j) \in others /\ g[j] = f[old(j)]
  <2>1. CASE j < i
    <3>1. old(j) = j /\ j \in 1..(i - 1) /\ j \in others
      BY <2>1
    <3>2. g[j] = f[j]
      BY <3>1
    <3> HIDE DEF old
    <3> QED
      BY ONLY <3>1, <3>2
  <2>2. CASE j > i - 1 + n
    <3>1. old(j) \in (i + 1)..m /\ old(j) - 1 + n = j
      BY <2>2
    <3>2. g[old(j) - 1 + n] = f[old(j)]
      BY <3>1
    <3> HIDE DEF old
    <3> QED
      BY <3>1, <3>2
  <2> QED
    BY <1>1, <2>1, <2>2
<1>2. ASSUME NEW j \in 1..q, ~isOld(j) PROVE new(j) \in 1..n /\ g[j] = p[new(j)]
  <2>1. new(j) \in 1..n /\ i - 1 + new(j) = j
    BY <1>2
  <2>2. g[i - 1 + new(j)] = p[new(j)]
    BY <2>1
  <2> HIDE DEF new
  <2> QED
    BY <2>1, <2>2
<1>3. ASSUME NEW j \in 1..q, NEW k \in 1..q, j # k
      PROVE  /\ isOld(j) /\ isOld(k) => old(j) # old(k)
             /\ ~isOld(j) /\ ~isOld(k) => new(j) # new(k)
  BY <1>3
<1>4. ASSUME NEW k \in others PROVE \E j \in 1..q : g[j] = f[k]
  <2>1. CASE k < i
    <3>1. k \in 1..(i - 1) /\ k \in 1..q
      BY <2>1
    <3> QED
      BY <3>1
  <2>2. CASE k > i
    <3>1. k \in (i + 1)..m /\ k - 1 + n \in 1..q
      BY <2>2
    <3> QED
      BY <3>1
  <2> QED
    BY <2>1, <2>2
<1>5. ASSUME NEW k \in 1..n PROVE \E j \in 1..q : g[j] = p[k]
  <2>1. i - 1 + k \in 1..q
    OBVIOUS
  <2> QED
    BY <2>1
<1> HIDE DEF isOld, old, new
<1>6. /\ \A j \in 1..q : (\E k \in others : g[j] = f[k]) \/ \E k \in 1..n : g[j] = p[k]
      /\ \A j, k \in 1..q : j # k =>
           \/ \E u, v \in others : u # v /\ g[j] = f[u] /\ g[k] = f[v]
           \/ \E u, v \in 1..n : u # v /\ g[j] = p[u] /\ g[k] = p[v]
           \/ \E u \in others, v \in 1..n : g[j] = f[u] /\ g[k] = p[v]
           \/ \E u \in 1..n, v \in others : g[j] = p[u] /\ g[k] = f[v]
      /\ \A k \in others : \E j \in 1..q : g[j] = f[k]
      /\ \A k \in 1..n : \E j \in 1..q : g[j] = p[k]
  BY ONLY <1>1, <1>2, <1>3, <1>4, <1>5
<1> QED
  BY ONLY <1>6 DEF m, n, q, others, FromBoth

(* A free range is replaced by ranges within it.                             *)
Apart(r, s) == End(r) < s[1] \/ End(s) < r[1]
Holds(r, b) == r[1] <= b /\ b < End(r)
Inside(p, r) ==
  /\ p \in Seq(Spans)
  /\ \A k \in 1..Len(p) : p[k][2] >= 1 /\ r[1] <= p[k][1] /\ End(p[k]) <= End(r)
  /\ \A k, l \in 1..Len(p) : k # l => Apart(p[k], p[l])

LEMMA Replaced ==
  ASSUME NEW f, FreeOK(f), NEW i \in 1..Len(f), NEW p, Inside(p, f[i])
  PROVE  /\ FreeOK(Splice(f, i, p))
         /\ \A b \in Int : InFree(Splice(f, i, p), b) <=> (InFree(f, b) /\ ~Holds(f[i], b)) \/ InFree(p, b)
<1> DEFINE others == Others(f, i)
           g == Splice(f, i, p)
<1>0. f \in Seq(Spans) /\ p \in Seq(Spans)
  BY DEF FreeOK, Inside
<1>1. f \in Seq(Spans) /\ p \in Seq(Spans) /\ g \in Seq(Spans) /\ IsSplice(g, f, i, p)
  BY <1>0, Spliced
<1> HIDE DEF g
<1>2. /\ \A j \in 1..Len(g) : (\E k \in others : g[j] = f[k]) \/ \E k \in 1..Len(p) : g[j] = p[k]
      /\ \A j, k \in 1..Len(g) : j # k =>
           \/ \E u, v \in others : u # v /\ g[j] = f[u] /\ g[k] = f[v]
           \/ \E u, v \in 1..Len(p) : u # v /\ g[j] = p[u] /\ g[k] = p[v]
           \/ \E u \in others, v \in 1..Len(p) : g[j] = f[u] /\ g[k] = p[v]
           \/ \E u \in 1..Len(p), v \in others : g[j] = p[u] /\ g[k] = f[v]
      /\ \A k \in others : \E j \in 1..Len(g) : g[j] = f[k]
      /\ \A k \in 1..Len(p) : \E j \in 1..Len(g) : g[j] = p[k]
  <2>1. Len(f) \in Nat /\ Len(p) \in Nat
    BY <1>1
  <2> QED
    <3>1. FromBoth(g, f, i, p)
      BY <1>1, <2>1, Origins
    <3> QED
      BY ONLY <3>1 DEF FromBoth
<1>x. others = (1..Len(f)) \ {i}
  BY DEF Others
<1> HIDE DEF others
<1> USE <1>x
<1>3. DOMAIN f = 1..Len(f) /\ DOMAIN g = 1..Len(g) /\ DOMAIN p = 1..Len(p)
  BY <1>1
<1>4. \A k \in 1..Len(f) : /\ f[k][1] \in Nat /\ f[k][2] \in Nat /\ f[k][2] >= 1
                           /\ End(f[k]) \in Nat /\ End(f[k]) <= Capacity /\ f[k][1] < End(f[k])
  <2> SUFFICES ASSUME NEW k \in 1..Len(f)
               PROVE  /\ f[k][1] \in Nat /\ f[k][2] \in Nat /\ f[k][2] >= 1
                      /\ End(f[k]) \in Nat /\ End(f[k]) <= Capacity /\ f[k][1] < End(f[k])
    OBVIOUS
  <2>1. f[k] \in Spans /\ f[k][2] >= 1 /\ End(f[k]) <= Capacity
    BY <1>1, <1>3 DEF FreeOK
  <2> QED
    BY <2>1 DEF Spans, End
<1>5. \A k \in 1..Len(p) : /\ p[k][1] \in Nat /\ p[k][2] \in Nat /\ p[k][2] >= 1
                           /\ End(p[k]) \in Nat /\ p[k][1] < End(p[k])
                           /\ f[i][1] <= p[k][1] /\ End(p[k]) <= End(f[i])
  <2> SUFFICES ASSUME NEW k \in 1..Len(p)
               PROVE  /\ p[k][1] \in Nat /\ p[k][2] \in Nat /\ p[k][2] >= 1
                      /\ End(p[k]) \in Nat /\ p[k][1] < End(p[k])
                      /\ f[i][1] <= p[k][1] /\ End(p[k]) <= End(f[i])
    OBVIOUS
  <2>1. p[k] \in Spans /\ p[k][2] >= 1 /\ f[i][1] <= p[k][1] /\ End(p[k]) <= End(f[i])
    BY <1>1 DEF Inside
  <2>2. p[k][1] \in Nat /\ p[k][2] \in Nat /\ End(p[k]) \in Nat /\ p[k][1] < End(p[k])
    BY <2>1 DEF Spans, End
  <2> QED
    BY <2>1, <2>2
<1>6. \A u, v \in 1..Len(f) : u # v => Apart(f[u], f[v])
  BY <1>3 DEF FreeOK, Apart
<1>7. \A u, v \in 1..Len(p) : u # v => Apart(p[u], p[v])
  BY DEF Inside
<1>8. ASSUME NEW u \in others, NEW v \in 1..Len(p) PROVE Apart(f[u], p[v]) /\ Apart(p[v], f[u])
  <2>1. Apart(f[u], f[i])
    BY <1>6
  <2>2. /\ f[u][1] \in Nat /\ End(f[u]) \in Nat /\ p[v][1] \in Nat /\ End(p[v]) \in Nat
        /\ f[i][1] \in Nat /\ End(f[i]) \in Nat /\ f[i][1] <= p[v][1] /\ End(p[v]) <= End(f[i])
    BY <1>4, <1>5
  <2> QED
    BY ONLY <2>1, <2>2 DEF Apart
<1>9. ASSUME NEW j \in 1..Len(g) PROVE g[j][2] >= 1 /\ End(g[j]) <= Capacity
  <2>1. CASE \E k \in others : g[j] = f[k]
    BY <1>4, <2>1
  <2>2. CASE \E k \in 1..Len(p) : g[j] = p[k]
    <3>1. PICK k \in 1..Len(p) : g[j] = p[k]
      BY <2>2
    <3>2. /\ End(p[k]) \in Nat /\ End(f[i]) \in Nat /\ p[k][2] >= 1
          /\ End(p[k]) <= End(f[i]) /\ End(f[i]) <= Capacity /\ Capacity \in Nat
      BY <1>4, <1>5, ArenaAssumption
    <3> QED
      BY ONLY <3>1, <3>2
  <2> QED
    BY <1>2, <2>1, <2>2
<1>10. ASSUME NEW j \in 1..Len(g), NEW k \in 1..Len(g), j # k PROVE Apart(g[j], g[k])
  <2>1. \/ \E u, v \in others : u # v /\ g[j] = f[u] /\ g[k] = f[v]
        \/ \E u, v \in 1..Len(p) : u # v /\ g[j] = p[u] /\ g[k] = p[v]
        \/ \E u \in others, v \in 1..Len(p) : g[j] = f[u] /\ g[k] = p[v]
        \/ \E u \in 1..Len(p), v \in others : g[j] = p[u] /\ g[k] = f[v]
    BY ONLY <1>2, <1>10, j \in 1..Len(g), k \in 1..Len(g), Zenon
  <2>2. \A u, v \in others : u # v => Apart(f[u], f[v])
    BY <1>6
  <2> QED
    BY ONLY <2>1, <2>2, <1>7, <1>8
<1>11. FreeOK(g)
  BY <1>1, <1>3, <1>9, <1>10 DEF FreeOK, Apart
<1>12. ASSUME NEW b \in Int
       PROVE  InFree(g, b) <=> (InFree(f, b) /\ ~Holds(f[i], b)) \/ InFree(p, b)
  <2>1. /\ InFree(g, b) <=> \E j \in 1..Len(g) : Holds(g[j], b)
        /\ InFree(f, b) <=> \E j \in 1..Len(f) : Holds(f[j], b)
        /\ InFree(p, b) <=> \E j \in 1..Len(p) : Holds(p[j], b)
    BY <1>3 DEF InFree, Holds
  <2>2. ASSUME NEW k \in others, Holds(f[k], b) PROVE ~Holds(f[i], b)
    <3>1. Apart(f[k], f[i])
      BY <1>6
    <3>2. f[k][1] \in Nat /\ End(f[k]) \in Nat /\ f[i][1] \in Nat /\ End(f[i]) \in Nat
      BY <1>4
    <3> QED
      BY ONLY <2>2, <3>1, <3>2, b \in Int DEF Apart, Holds
  <2>3. others \subseteq 1..Len(f) /\ \A k \in 1..Len(f) : k = i \/ k \in others
    OBVIOUS
  <2> QED
    BY ONLY <1>2, <2>1, <2>2, <2>3
<1> QED
  BY <1>11, <1>12 DEF g

(* What allocation leaves of a free range, around the block it takes.        *)
LEMMA RestFacts ==
  ASSUME NEW r \in Spans, NEW n \in Nat, n >= 1, HasRoom(r, n),
         NEW o, o = Aligned(r[1])
  PROVE  /\ o \in Nat /\ r[1] <= o /\ o + n <= End(r) /\ o % Alignment = 0
         /\ Inside(Rest(r, n), r)
         /\ \A b \in Int : InFree(Rest(r, n), b) <=> Holds(r, b) /\ ~(o <= b /\ b < o + n)
<1> DEFINE start == r[1]
           size == r[2]
           padding == o - start
           tail == o + n
           left == size - padding - n
           p == Part(start, padding)
           t == Part(tail, left)
           rest == p \o t
<1>1. start \in Nat /\ size \in Nat /\ End(r) = start + size
  BY DEF Spans, End
<1>2. o \in Nat /\ start <= o /\ o % Alignment = 0
  BY <1>1, AlignedFacts
<1>3. padding \in Nat /\ left \in Nat /\ tail \in Nat /\ start + padding = o /\ tail + left = End(r)
  <2>1. size - padding >= n
    BY <1>1, <1>2 DEF HasRoom
  <2> QED
    BY <1>1, <1>2, <2>1
<1>4. o + n <= End(r)
  BY <1>3
<1>5. Rest(r, n) = rest
  BY <1>1, <1>2, <1>3 DEF Rest
<1> HIDE DEF start, size, padding, tail, left
<1>6. /\ padding > 0 => p = << <<start, padding>> >>
      /\ padding = 0 => p = <<>>
      /\ left > 0 => t = << <<tail, left>> >>
      /\ left = 0 => t = <<>>
  BY <1>3 DEF Part
<1> DEFINE x == <<start, padding>>
           y == <<tail, left>>
<1>7. /\ x \in Spans /\ y \in Spans
      /\ x[1] = start /\ x[2] = padding /\ End(x) = o
      /\ y[1] = tail /\ y[2] = left /\ End(y) = End(r)
  BY <1>1, <1>3 DEF Spans, End
<1>8. End(x) < y[1] /\ start = r[1] /\ tail = o + n
  BY <1>2, <1>3, <1>7 DEF tail, start
<1> HIDE DEF x, y, p, t, rest
<1>9. \/ padding > 0 /\ left > 0 /\ rest = <<x, y>>
      \/ padding > 0 /\ left = 0 /\ rest = <<x>>
      \/ padding = 0 /\ left > 0 /\ rest = <<y>>
      \/ padding = 0 /\ left = 0 /\ rest = <<>>
  <2>1. padding > 0 \/ padding = 0
    BY <1>3
  <2>2. left > 0 \/ left = 0
    BY <1>3
  <2>3. /\ <<x>> \o <<y>> = <<x, y>> /\ <<x>> \o <<>> = <<x>>
        /\ <<>> \o <<y>> = <<y>> /\ <<>> \o <<>> = <<>>
    <3>1. <<x>> \in Seq(Spans) /\ <<y>> \in Seq(Spans) /\ <<>> \in Seq(Spans)
      BY <1>7
    <3>2. <<x>> \o <<>> = <<x>>
      BY <3>1, ConcatEmptySeq
    <3>3. <<>> \o <<y>> = <<y>>
      BY <3>1, ConcatEmptySeq
    <3>4. <<>> \o <<>> = <<>>
      BY <3>1, ConcatEmptySeq
    <3>5. <<x>> \o <<y>> = <<x, y>>
      <4> DEFINE u == <<x>> \o <<y>>
                 v == <<x, y>>
      <4>1. u \in Seq(Spans) /\ Len(u) = 2 /\ u[1] = x /\ u[2] = y
        BY <1>7
      <4>2. v \in Seq(Spans) /\ Len(v) = 2 /\ v[1] = x /\ v[2] = y
        BY <1>7
      <4> HIDE DEF u, v
      <4>3. Len(u) = Len(v) /\ \A i \in 1..Len(u) : u[i] = v[i]
        BY <4>1, <4>2
      <4> QED
        BY <4>1, <4>2, <4>3, SeqEqual DEF u, v
    <3> QED
      BY <3>2, <3>3, <3>4, <3>5
  <2> QED
    BY <1>6, <2>1, <2>2, <2>3 DEF rest, x, y
<1> DEFINE Good(q) == /\ Inside(q, r)
                      /\ \A b \in Int : InFree(q, b) <=> Holds(r, b) /\ ~(o <= b /\ b < o + n)
<1>10. /\ r[1] \in Nat /\ End(r) \in Nat /\ o \in Nat /\ r[1] <= o /\ o + n <= End(r)
       /\ x[1] = r[1] /\ End(x) = o /\ y[1] = o + n /\ End(y) = End(r)
       /\ (padding = 0 => o = r[1]) /\ (left = 0 => o + n = End(r))
  BY <1>1, <1>2, <1>3, <1>7, <1>8
<1>11. ASSUME NEW b \in Int
       PROVE  /\ Holds(x, b) <=> r[1] <= b /\ b < o
              /\ Holds(y, b) <=> o + n <= b /\ b < End(r)
              /\ Holds(r, b) <=> r[1] <= b /\ b < End(r)
  BY <1>10 DEF Holds
<1>12. ASSUME padding > 0 /\ left > 0 /\ rest = <<x, y>> PROVE Good(rest)
  <2>1. Inside(<<x, y>>, r)
    <3>1. <<x, y>> \in Seq(Spans) /\ Len(<<x, y>>) = 2 /\ <<x, y>>[1] = x /\ <<x, y>>[2] = y
      BY <1>7
    <3>2. \A k \in 1..2 : k = 1 \/ k = 2
      OBVIOUS
    <3>3. /\ x[2] >= 1 /\ r[1] <= x[1] /\ End(x) <= End(r)
          /\ y[2] >= 1 /\ r[1] <= y[1] /\ End(y) <= End(r) /\ End(x) < y[1]
      BY <1>3, <1>7, <1>10, <1>12
    <3> QED
      BY <3>1, <3>2, <3>3 DEF Inside, Apart
  <2>2. \A b \in Int : InFree(<<x, y>>, b) <=> Holds(x, b) \/ Holds(y, b)
    BY DEF InFree, Holds
  <2>3. ASSUME NEW b \in Int
        PROVE Holds(x, b) \/ Holds(y, b) <=> Holds(r, b) /\ ~(o <= b /\ b < o + n)
    BY <1>10, <1>11
  <2> QED
    BY <1>12, <2>1, <2>2, <2>3
<1>13. ASSUME padding > 0 /\ left = 0 /\ rest = <<x>> PROVE Good(rest)
  <2>1. Inside(<<x>>, r)
    <3>1. <<x>> \in Seq(Spans) /\ Len(<<x>>) = 1 /\ <<x>>[1] = x
      BY <1>7
    <3>2. \A k \in 1..1 : k = 1
      OBVIOUS
    <3>3. x[2] >= 1 /\ r[1] <= x[1] /\ End(x) <= End(r)
      BY <1>3, <1>7, <1>10, <1>13
    <3> QED
      BY <3>1, <3>2, <3>3 DEF Inside, Apart
  <2>2. \A b \in Int : InFree(<<x>>, b) <=> Holds(x, b)
    BY DEF InFree, Holds
  <2>3. ASSUME NEW b \in Int
        PROVE Holds(x, b) <=> Holds(r, b) /\ ~(o <= b /\ b < o + n)
    BY <1>10, <1>11, <1>13
  <2> QED
    BY <1>13, <2>1, <2>2, <2>3
<1>14. ASSUME padding = 0 /\ left > 0 /\ rest = <<y>> PROVE Good(rest)
  <2>1. Inside(<<y>>, r)
    <3>1. <<y>> \in Seq(Spans) /\ Len(<<y>>) = 1 /\ <<y>>[1] = y
      BY <1>7
    <3>2. \A k \in 1..1 : k = 1
      OBVIOUS
    <3>3. y[2] >= 1 /\ r[1] <= y[1] /\ End(y) <= End(r)
      BY <1>3, <1>7, <1>10, <1>14
    <3> QED
      BY <3>1, <3>2, <3>3 DEF Inside, Apart
  <2>2. \A b \in Int : InFree(<<y>>, b) <=> Holds(y, b)
    BY DEF InFree, Holds
  <2>3. ASSUME NEW b \in Int
        PROVE Holds(y, b) <=> Holds(r, b) /\ ~(o <= b /\ b < o + n)
    BY <1>10, <1>11, <1>14
  <2> QED
    BY <1>14, <2>1, <2>2, <2>3
<1>15. ASSUME padding = 0 /\ left = 0 /\ rest = <<>> PROVE Good(rest)
  <2>1. Inside(<<>>, r)
    BY DEF Inside
  <2>2. \A b \in Int : ~InFree(<<>>, b)
    BY DEF InFree
  <2>3. ASSUME NEW b \in Int PROVE ~(Holds(r, b) /\ ~(o <= b /\ b < o + n))
    BY <1>10, <1>11, <1>15
  <2> QED
    BY <1>15, <2>1, <2>2, <2>3
<1>16. Good(rest)
  BY <1>9, <1>12, <1>13, <1>14, <1>15
<1> QED
  BY <1>2, <1>4, <1>5, <1>8, <1>16

-----------------------------------------------------------------------------
(* Ranges that do not overlap, but may touch, in any order.                  *)
Disjoint(r, s) == End(r) <= s[1] \/ End(s) <= r[1]
Loose(f) == /\ f \in Seq(Spans)
            /\ \A i \in 1..Len(f) : f[i][2] >= 1 /\ End(f[i]) <= Capacity
            /\ \A i, j \in 1..Len(f) : i # j => Disjoint(f[i], f[j])

(* The same ranges by their starts.                                          *)
Sorted(s, f) ==
  /\ s \in Seq(Spans) /\ Len(s) = Len(f)
  /\ \A k \in 1..Len(s) : \E i \in 1..Len(f) : s[k] = f[i]
  /\ \A i \in 1..Len(f) : \E k \in 1..Len(s) : s[k] = f[i]
  /\ \A j, k \in 1..Len(s) : j < k => End(s[j]) <= s[k][1]

LEMMA InOrderSorts ==
  ASSUME NEW f, Loose(f)
  PROVE  Sorted(InOrder(f), f)
<1> DEFINE n == Len(f)
           T == ToSet(f)
           below(r) == {s \in T : s[1] < r[1]}
           s == InOrder(f)
<1>1. /\ f \in Seq(Spans) /\ n \in Nat /\ DOMAIN f = 1..n
      /\ \A i \in 1..n : f[i] \in T /\ f[i] \in Spans
      /\ \A r \in T : \E i \in 1..n : r = f[i]
  BY DEF Loose, ToSet
<1>2. \A i \in 1..n : f[i][1] \in Nat /\ End(f[i]) \in Nat /\ f[i][1] < End(f[i])
  <2> SUFFICES ASSUME NEW i \in 1..n
               PROVE  f[i][1] \in Nat /\ End(f[i]) \in Nat /\ f[i][1] < End(f[i])
    OBVIOUS
  <2>1. f[i] \in Spans /\ f[i][2] >= 1
    BY <1>1 DEF Loose
  <2> QED
    BY <2>1 DEF Spans, End
<1>3. \A i, j \in 1..n : i # j => Disjoint(f[i], f[j])
  BY DEF Loose
<1>4. \A i, j \in 1..n : i # j => f[i][1] # f[j][1]
  BY <1>2, <1>3 DEF Disjoint
<1>5. IsFiniteSet(T) /\ Cardinality(T) = n
  <2>1. f \in Bijection(1..n, T)
    <3>1. f \in [1..n -> T]
      BY <1>1
    <3>2. \A i, j \in 1..n : f[i] = f[j] => i = j
      BY <1>4
    <3>3. \A t \in T : \E i \in 1..n : f[i] = t
      BY <1>1
    <3> HIDE DEF n, T
    <3> QED
      BY <3>1, <3>2, <3>3 DEF Bijection, Injection, Surjection, IsInjective
  <2>2. IsFiniteSet(1..n) /\ Cardinality(1..n) = n
    BY <1>1, FS_Interval
  <2>3. ExistsBijection(1..n, T)
    BY <2>1 DEF ExistsBijection
  <2> HIDE DEF n, T
  <2> QED
    BY <2>2, <2>3, FS_Bijection
<1>6. \A r \in T : r[1] \in Nat /\ r \in Spans
  BY <1>1, <1>2
<1>7. \A r, t \in T : r # t => r[1] # t[1]
  BY <1>1, <1>4
<1>8. \A r, t \in T : r # t => Disjoint(r, t)
  BY <1>1, <1>3
<1>9. \A k \in 1..n : s[k] = CHOOSE r \in T : Cardinality(below(r)) = k - 1
  BY <1>1 DEF InOrder
<1>10. DOMAIN s = 1..n
  BY <1>1 DEF InOrder
<1> HIDE DEF T, s
<1> DEFINE c == [r \in T |-> Cardinality(below(r))]
<1>11. ASSUME NEW r \in T
       PROVE  IsFiniteSet(below(r)) /\ c[r] = Cardinality(below(r)) /\ c[r] \in Nat /\ c[r] + 1 \in 1..n
  <2>1. below(r) \subseteq T /\ r \notin below(r)
    BY <1>6
  <2>2. /\ IsFiniteSet(below(r)) /\ Cardinality(below(r)) \in Nat
        /\ Cardinality(below(r)) <= Cardinality(T) /\ Cardinality(below(r)) # Cardinality(T)
    BY <1>5, <2>1, FS_Subset, FS_CardinalityType
  <2>3. c[r] = Cardinality(below(r))
    OBVIOUS
  <2> QED
    BY <1>1, <1>5, <2>2, <2>3
<1>12. ASSUME NEW r \in T, NEW t \in T, r[1] < t[1]
       PROVE  c[r] < c[t]
  <2>1. below(r) \subseteq below(t) /\ r \in below(t) /\ r \notin below(r)
    BY <1>6, <1>12
  <2>2. /\ Cardinality(below(r)) <= Cardinality(below(t))
        /\ Cardinality(below(r)) # Cardinality(below(t))
    BY <1>11, <2>1, FS_Subset
  <2>3. c[r] = Cardinality(below(r)) /\ c[t] = Cardinality(below(t)) /\ c[r] \in Nat /\ c[t] \in Nat
    BY <1>11
  <2> HIDE DEF c, below
  <2> QED
    BY <2>2, <2>3
<1>9a. \A k \in 1..n : s[k] = CHOOSE r \in T : c[r] = k - 1
  <2>1. ASSUME NEW k \in 1..n PROVE s[k] = CHOOSE r \in T : c[r] = k - 1
    <3>1. \A r \in T : c[r] = k - 1 <=> Cardinality(below(r)) = k - 1
      OBVIOUS
    <3> HIDE DEF c, below
    <3> QED
      BY <1>9, <3>1
  <2> QED
    BY <2>1
<1>11a. \A r \in T : c[r] \in Nat /\ c[r] + 1 \in 1..n
  BY <1>11
<1> HIDE DEF c, below
<1>12a. ASSUME NEW r \in T, NEW t \in T, c[r] = c[t] PROVE r = t
  <2>1. ~(r[1] < t[1]) /\ ~(t[1] < r[1])
    BY <1>11a, <1>12, <1>12a
  <2>2. r[1] = t[1]
    BY <1>6, <2>1
  <2> QED
    BY <1>7, <2>2
<1> DEFINE rank == [r \in T |-> c[r] + 1]
<1>13. rank \in Injection(T, 1..n)
  <2>1. rank \in [T -> 1..n]
    BY <1>11a
  <2>2. ASSUME NEW r \in T, NEW t \in T, rank[r] = rank[t] PROVE r = t
    BY <1>11a, <1>12a, <2>2
  <2> HIDE DEF rank
  <2> QED
    BY <2>1, <2>2 DEF Injection, IsInjective
<1>14. rank \in Surjection(T, 1..n)
  <2>1. IsFiniteSet(1..n) /\ Cardinality(1..n) = n
    BY <1>1, FS_Interval
  <2> HIDE DEF rank, n
  <2> QED
    BY <1>5, <1>13, <2>1, FS_Injection
<1>15. ASSUME NEW k \in 1..n PROVE \E r \in T : c[r] = k - 1
  <2>1. PICK r \in T : rank[r] = k
    BY <1>14 DEF Surjection
  <2>2. c[r] + 1 = k /\ c[r] \in Nat
    BY <1>11a, <2>1
  <2>3. c[r] = k - 1
    BY <2>2
  <2> QED
    BY <2>3
<1>16. ASSUME NEW k \in 1..n PROVE s[k] \in T /\ c[s[k]] = k - 1
  BY <1>9a, <1>15
<1>17. ASSUME NEW j \in 1..n, NEW k \in 1..n, j < k PROVE s[j][1] < s[k][1]
  <2>1. s[j] \in T /\ c[s[j]] = j - 1 /\ s[k] \in T /\ c[s[k]] = k - 1
    BY <1>16
  <2>2. ~(c[s[k]] < c[s[j]]) /\ c[s[j]] # c[s[k]]
    BY <1>1, <1>17, <2>1
  <2>3. ~(s[k][1] < s[j][1])
    BY <1>12, <2>1, <2>2
  <2>4. s[j][1] # s[k][1]
    BY <1>7, <2>1, <2>2
  <2> QED
    BY <1>6, <2>1, <2>3, <2>4
<1>18. ASSUME NEW r \in T PROVE \E k \in 1..n : s[k] = r
  <2> DEFINE k == c[r] + 1
  <2>1. k \in 1..n /\ k - 1 = c[r]
    BY <1>11a
  <2> HIDE DEF k
  <2>2. s[k] \in T /\ c[s[k]] = c[r]
    BY <1>16, <2>1
  <2>3. s[k] = r
    BY <1>12a, <2>2
  <2> QED
    BY <2>1, <2>3
<1>19. s \in Seq(Spans) /\ Len(s) = n
  <2>1. \A k \in 1..n : s[k] \in Spans
    BY <1>6, <1>16
  <2>2. s = [k \in 1..n |-> s[k]]
    <3>1. s = [k \in 1..n |-> CHOOSE r \in T : Cardinality(below(r)) = k - 1]
      BY <1>1 DEF s, InOrder, below, T
    <3> HIDE DEF n
    <3> QED
      BY <3>1
  <2> HIDE DEF n
  <2> QED
    BY <1>1, <1>10, <2>1, <2>2
<1>20. ASSUME NEW j \in 1..n, NEW k \in 1..n, j < k PROVE End(s[j]) <= s[k][1]
  <2>1. s[j] \in T /\ s[k] \in T /\ s[j][1] < s[k][1]
    BY <1>16, <1>17, <1>20
  <2>2. Disjoint(s[j], s[k])
    <3>1. s[j] # s[k]
      BY <1>6, <2>1
    <3> QED
      BY <1>8, <2>1, <3>1
  <2>3. s[j][1] \in Nat /\ s[k][1] \in Nat /\ End(s[k]) \in Nat /\ s[k][1] < End(s[k])
    BY <1>1, <1>2, <2>1
  <2> QED
    BY ONLY <2>1, <2>2, <2>3 DEF Disjoint
<1>21. /\ \A k \in 1..n : \E i \in 1..n : s[k] = f[i]
       /\ \A i \in 1..n : \E k \in 1..n : s[k] = f[i]
  BY <1>1, <1>16, <1>18
<1> QED
  BY <1>19, <1>20, <1>21 DEF Sorted, s

(* What merging has made of the first k of the ranges s.                     *)
Merged(m, s, k) ==
  /\ m \in Seq(Spans)
  /\ IF k = 0 THEN Len(m) = 0 ELSE Len(m) >= 1 /\ End(m[Len(m)]) = End(s[k])
  /\ \A i \in 1..Len(m) : m[i][2] >= 1 /\ End(m[i]) <= Capacity
  /\ \A i, j \in 1..Len(m) : i < j => End(m[i]) < m[j][1]
  /\ \A b \in Int : (\E i \in 1..Len(m) : Holds(m[i], b)) <=> \E j \in 1..k : Holds(s[j], b)

(* The last range grows to the end of the next one, or the next one is new.   *)
LEMMA MergeCases ==
  ASSUME NEW m \in Seq(Spans), NEW r \in Spans
  PROVE  /\ Merge(m, r) \in Seq(Spans)
         /\ IF Len(m) > 0 /\ End(m[Len(m)]) >= r[1]
            THEN /\ Len(Merge(m, r)) = Len(m)
                 /\ \A i \in 1..(Len(m) - 1) : Merge(m, r)[i] = m[i]
                 /\ Merge(m, r)[Len(m)][1] = m[Len(m)][1]
                 /\ End(Merge(m, r)[Len(m)]) = IF End(m[Len(m)]) >= End(r) THEN End(m[Len(m)]) ELSE End(r)
            ELSE /\ Len(Merge(m, r)) = Len(m) + 1
                 /\ \A i \in 1..Len(m) : Merge(m, r)[i] = m[i]
                 /\ Merge(m, r)[Len(m) + 1] = r
<1> DEFINE p == m[Len(m)]
           f == Front(m)
           top == Max({p[1] + p[2], r[1] + r[2]})
           grown == <<p[1], top - p[1]>>
           g == Merge(m, r)
<1>1. Len(m) \in Nat /\ (m # <<>> <=> Len(m) > 0) /\ (Len(m) > 0 => p \in Spans)
  OBVIOUS
<1>2. r[1] \in Nat /\ r[2] \in Nat /\ End(r) = r[1] + r[2] /\ End(p) = p[1] + p[2]
  BY DEF Spans, End
<1>3. CASE Len(m) > 0 /\ End(p) >= r[1]
  <2>1. p[1] \in Nat /\ p[2] \in Nat /\ p[1] + p[2] \in Nat /\ r[1] + r[2] \in Nat
    BY <1>1, <1>2, <1>3 DEF Spans
  <2>2. top = (IF End(p) >= End(r) THEN End(p) ELSE End(r)) /\ top \in Nat
    BY <1>2, <2>1, MaxOfTwo
  <2>3. g = Append(f, grown)
    BY <1>1, <1>2, <1>3 DEF Merge, Last
  <2>4. top - p[1] \in Nat
    BY <1>2, <2>1, <2>2
  <2> HIDE DEF top
  <2>5. grown \in Spans /\ grown[1] = p[1] /\ End(grown) = top
    <3>1. grown \in Spans /\ grown[1] = p[1] /\ grown[2] = top - p[1]
      BY <2>1, <2>4 DEF Spans
    <3>2. p[1] + (top - p[1]) = top
      BY <2>1, <2>2
    <3> HIDE DEF grown, p
    <3> QED
      BY <3>1, <3>2 DEF End
  <2>6. f \in Seq(Spans) /\ Len(f) = Len(m) - 1 /\ \A i \in 1..(Len(m) - 1) : f[i] = m[i]
    <3>1. ASSUME NEW n \in Nat, n = Len(m) - 1
          PROVE  /\ SubSeq(m, 1, n) \in Seq(Spans) /\ Len(SubSeq(m, 1, n)) = n
                 /\ \A i \in 1..n : SubSeq(m, 1, n)[i] = m[i]
      BY ONLY <1>1, <3>1, n \in Nat, m \in Seq(Spans)
    <3>2. Len(m) - 1 \in Nat
      BY <1>1, <1>3
    <3> QED
      BY <3>1, <3>2 DEF Front
  <2> HIDE DEF f, grown
  <2>7. /\ g \in Seq(Spans) /\ Len(g) = Len(f) + 1 /\ g[Len(f) + 1] = grown
        /\ \A i \in 1..Len(f) : g[i] = f[i]
    <3>1. f \in Seq(Spans)
      BY <2>6
    <3> HIDE DEF g
    <3> QED
      BY ONLY <2>3, <2>5, <3>1, AppendProperties
  <2>8. /\ Len(g) = Len(m) /\ g[Len(m)] = grown
        /\ \A i \in 1..(Len(m) - 1) : g[i] = m[i]
    <3>1. Len(f) + 1 = Len(m)
      BY <1>1, <2>6
    <3> HIDE DEF g
    <3> QED
      BY <2>6, <2>7, <3>1
  <2> HIDE DEF g, p
  <2>9. g[Len(m)][1] = p[1] /\ End(g[Len(m)]) = (IF End(p) >= End(r) THEN End(p) ELSE End(r))
    BY <2>2, <2>5, <2>8
  <2> QED
    BY <1>3, <2>7, <2>8, <2>9 DEF g, p
<1>4. CASE ~(Len(m) > 0 /\ End(p) >= r[1])
  <2>1. g = Append(m, r)
    BY <1>1, <1>2, <1>4 DEF Merge, Last
  <2> HIDE DEF g
  <2>2. /\ g \in Seq(Spans) /\ Len(g) = Len(m) + 1 /\ g[Len(m) + 1] = r
        /\ \A i \in 1..Len(m) : g[i] = m[i]
    BY <2>1, AppendProperties
  <2> QED
    BY <1>4, <2>2 DEF g
<1> QED
  BY <1>3, <1>4

LEMMA MergeStep ==
  ASSUME NEW f, Loose(f), NEW s, Sorted(s, f), NEW k \in 1..Len(s), NEW m, Merged(m, s, k - 1)
  PROVE  Merged(Merge(m, s[k]), s, k)
<1> DEFINE r == s[k]
           g == Merge(m, r)
           n == Len(m)
<1>1. \A j \in 1..Len(s) : /\ s[j] \in Spans /\ s[j][1] \in Nat /\ s[j][2] >= 1
                           /\ End(s[j]) \in Nat /\ End(s[j]) <= Capacity /\ s[j][1] < End(s[j])
  <2> SUFFICES ASSUME NEW j \in 1..Len(s)
               PROVE  /\ s[j] \in Spans /\ s[j][1] \in Nat /\ s[j][2] >= 1
                      /\ End(s[j]) \in Nat /\ End(s[j]) <= Capacity /\ s[j][1] < End(s[j])
    OBVIOUS
  <2>1. PICK i \in 1..Len(f) : s[j] = f[i]
    BY DEF Sorted
  <2>2. s[j] \in Spans /\ s[j][2] >= 1 /\ End(s[j]) <= Capacity
    BY <2>1 DEF Sorted, Loose
  <2> QED
    BY <2>2 DEF Spans, End
<1>2. \A i, j \in 1..Len(s) : i < j => End(s[i]) <= s[j][1]
  BY DEF Sorted
<1>3. /\ m \in Seq(Spans) /\ n \in Nat
      /\ IF k - 1 = 0 THEN n = 0 ELSE n >= 1 /\ End(m[n]) = End(s[k - 1])
      /\ \A i \in 1..n : m[i][2] >= 1 /\ End(m[i]) <= Capacity
      /\ \A i, j \in 1..n : i < j => End(m[i]) < m[j][1]
      /\ \A b \in Int : (\E i \in 1..n : Holds(m[i], b)) <=> \E j \in 1..(k - 1) : Holds(s[j], b)
  BY DEF Merged
<1>4. \A i \in 1..n : m[i][1] \in Nat /\ m[i][2] \in Nat /\ End(m[i]) \in Nat /\ m[i][1] < End(m[i])
  <2> SUFFICES ASSUME NEW i \in 1..n
               PROVE  m[i][1] \in Nat /\ m[i][2] \in Nat /\ End(m[i]) \in Nat /\ m[i][1] < End(m[i])
    OBVIOUS
  <2>1. m[i] \in Spans /\ m[i][2] >= 1
    BY <1>3
  <2> QED
    BY <2>1 DEF Spans, End
<1>5. Len(s) \in Nat /\ k \in Nat /\ (k > 1 => k - 1 \in 1..Len(s))
  BY DEF Sorted
<1>6. /\ r \in Spans /\ r[1] \in Nat /\ r[2] >= 1 /\ End(r) \in Nat /\ End(r) <= Capacity /\ r[1] < End(r)
  BY <1>1
<1>7. n > 0 => k > 1 /\ n \in 1..n /\ End(m[n]) = End(s[k - 1]) /\ End(m[n]) <= r[1]
  <2>1. n > 0 => k > 1 /\ n \in 1..n /\ End(m[n]) = End(s[k - 1])
    BY <1>3, <1>5
  <2>2. k > 1 => End(s[k - 1]) <= r[1]
    BY <1>2, <1>5
  <2> QED
    BY <2>1, <2>2
<1>8. \A b \in Int : (\E j \in 1..k : Holds(s[j], b)) <=> Holds(r, b) \/ \E j \in 1..(k - 1) : Holds(s[j], b)
  <2>1. \A j \in 1..k : j = k \/ j \in 1..(k - 1)
    BY <1>5
  <2>2. k \in 1..k /\ \A j \in 1..(k - 1) : j \in 1..k
    BY <1>5
  <2> QED
    BY <2>1, <2>2
<1>9. CASE n > 0 /\ End(m[n]) >= r[1]
  <2>1. /\ g \in Seq(Spans) /\ Len(g) = n /\ \A i \in 1..(n - 1) : g[i] = m[i]
        /\ g[n][1] = m[n][1] /\ End(g[n]) = IF End(m[n]) >= End(r) THEN End(m[n]) ELSE End(r)
    BY <1>3, <1>6, <1>9, MergeCases
  <2> HIDE DEF g, r, n
  <2>2. /\ End(m[n]) = r[1] /\ End(g[n]) = End(r) /\ n \in 1..n
        /\ m[n][1] \in Nat /\ m[n][1] < r[1] /\ End(m[n]) \in Nat
    <3>1. n \in 1..n /\ End(m[n]) \in Nat /\ m[n][1] \in Nat /\ m[n][1] < End(m[n]) /\ End(m[n]) <= r[1]
      BY <1>4, <1>7, <1>9
    <3> QED
      BY ONLY <1>6, <1>9, <2>1, <3>1
  <2>3. g[n] \in Spans
    BY <2>1, <2>2
  <2>4. g[n][2] >= 1 /\ End(g[n]) <= Capacity
    <3>1. g[n][1] \in Nat /\ g[n][2] \in Nat /\ End(g[n]) = g[n][1] + g[n][2]
      BY <2>3 DEF Spans, End
    <3> QED
      BY ONLY <1>6, <2>1, <2>2, <3>1
  <2>5. \A i \in 1..n : i = n \/ i \in 1..(n - 1)
    BY <1>3
  <2>6. \A i \in 1..n : g[i][2] >= 1 /\ End(g[i]) <= Capacity
    BY <1>3, <2>1, <2>4, <2>5
  <2>7. \A i, j \in 1..n : i < j => End(g[i]) < g[j][1]
    <3> SUFFICES ASSUME NEW i \in 1..n, NEW j \in 1..n, i < j PROVE End(g[i]) < g[j][1]
      OBVIOUS
    <3>1. i \in 1..(n - 1) /\ g[i] = m[i] /\ End(m[i]) < m[j][1]
      BY <1>3, <2>1
    <3>2. g[j][1] = m[j][1]
      BY <2>1, <2>5
    <3> QED
      BY <3>1, <3>2
  <2>8. ASSUME NEW b \in Int
        PROVE (\E i \in 1..n : Holds(g[i], b)) <=> Holds(r, b) \/ \E i \in 1..n : Holds(m[i], b)
    <3>1. Holds(g[n], b) <=> Holds(r, b) \/ Holds(m[n], b)
      BY <1>6, <2>1, <2>2 DEF Holds
    <3> QED
      BY <2>1, <2>2, <2>5, <3>1
  <2>9. \A b \in Int : (\E i \in 1..n : Holds(g[i], b)) <=> \E j \in 1..k : Holds(s[j], b)
    BY <1>3, <1>8, <2>8
  <2>10. Len(g) = n /\ n >= 1 /\ End(g[Len(g)]) = End(s[k]) /\ k # 0
    BY <1>3, <1>5, <1>9, <2>1, <2>2 DEF r
  <2>11. Merged(g, s, k)
    BY <2>1, <2>6, <2>7, <2>9, <2>10 DEF Merged
  <2> QED
    BY <2>11 DEF g, r
<1>10. CASE ~(n > 0 /\ End(m[n]) >= r[1])
  <2>1. /\ g \in Seq(Spans) /\ Len(g) = n + 1 /\ \A i \in 1..n : g[i] = m[i]
        /\ g[n + 1] = r
    BY <1>3, <1>6, <1>10, MergeCases
  <2> HIDE DEF g, r, n
  <2>2. \A i \in 1..(n + 1) : i = n + 1 \/ i \in 1..n
    BY <1>3
  <2>3. \A i \in 1..n : i \in 1..(n + 1)
    BY <1>3
  <2>4. n + 1 \in 1..(n + 1)
    BY <1>3
  <2>5. \A i \in 1..(n + 1) : g[i][2] >= 1 /\ End(g[i]) <= Capacity
    BY <1>3, <1>6, <2>1, <2>2
  <2>6. \A i \in 1..n : End(m[i]) < r[1]
    <3> SUFFICES ASSUME NEW i \in 1..n PROVE End(m[i]) < r[1]
      OBVIOUS
    <3>1. n > 0 /\ n \in 1..n /\ End(m[n]) \in Nat /\ End(m[i]) \in Nat /\ m[n][1] \in Nat /\ m[n][1] < End(m[n])
      BY <1>3, <1>4
    <3>2. End(m[n]) < r[1]
      BY <1>6, <1>10, <3>1
    <3>3. i = n \/ i < n
      BY <1>3
    <3>4. i < n => End(m[i]) < m[n][1]
      BY <1>3, <3>1
    <3> QED
      BY ONLY <1>6, <3>1, <3>2, <3>3, <3>4
  <2>7. \A i, j \in 1..(n + 1) : i < j => End(g[i]) < g[j][1]
    <3> SUFFICES ASSUME NEW i \in 1..(n + 1), NEW j \in 1..(n + 1), i < j PROVE End(g[i]) < g[j][1]
      OBVIOUS
    <3>1. i \in 1..n /\ g[i] = m[i]
      BY <1>3, <2>1
    <3>2. CASE j = n + 1
      BY <2>1, <2>6, <3>1, <3>2
    <3>3. CASE j \in 1..n
      BY <1>3, <2>1, <3>1, <3>3
    <3> QED
      BY <2>2, <3>2, <3>3
  <2>8. ASSUME NEW b \in Int
        PROVE (\E i \in 1..(n + 1) : Holds(g[i], b)) <=> Holds(r, b) \/ \E i \in 1..n : Holds(m[i], b)
    BY <2>1, <2>2, <2>3, <2>4
  <2>9. \A b \in Int : (\E i \in 1..(n + 1) : Holds(g[i], b)) <=> \E j \in 1..k : Holds(s[j], b)
    BY <1>3, <1>8, <2>8
  <2>10. n + 1 >= 1 /\ End(g[Len(g)]) = End(s[k]) /\ k # 0
    BY <1>3, <1>5, <2>1 DEF r
  <2>11. Merged(g, s, k)
    BY <2>1, <2>5, <2>7, <2>9, <2>10 DEF Merged
  <2> QED
    BY <2>11 DEF g, r
<1> QED
  BY <1>9, <1>10

Merges(F, s) == F[0] = <<>> /\ \A k \in 1..Len(s) : F[k] = Merge(F[k - 1], s[k])

LEMMA MergeWalks ==
  ASSUME NEW s \in Seq(Spans)
  PROVE  \E F : Merges(F, s) /\ FoldLeft(Merge, <<>>, s) = F[Len(s)]
<1> DEFINE D == DOMAIN s
           Rule(f) == [t \in SUBSET D |-> IF t = {} THEN <<>> ELSE Merge(f[t \ {Max(t)}], s[Max(t)])]
           c == [t \in SUBSET D |-> Max(t)]
           step == [p \in Seq(Spans) \X D |-> Merge(p[1], s[p[2]])]
<1>1. D = 1..Len(s) /\ Len(s) \in Nat /\ IsFiniteSet(D)
  BY FS_Interval
<1>2. \A t \in SUBSET D : t # {} => c[t] \in t
  BY <1>1, MaxOfPositions
<1>3. step \in [Seq(Spans) \X D -> Seq(Spans)]
  <2>1. ASSUME NEW p \in Seq(Spans) \X D PROVE Merge(p[1], s[p[2]]) \in Seq(Spans)
    BY MergeCases
  <2> QED
    BY <2>1
<1>4. PICK f \in [SUBSET D -> Seq(Spans)] : Folds(f, SUBSET D, <<>>, c, step)
  <2>1. <<>> \in Seq(Spans)
    OBVIOUS
  <2> HIDE DEF c, step, D
  <2> QED
    BY <1>1, <1>2, <1>3, <2>1, FoldExists
<1>5. f = Rule(f)
  <2>1. ASSUME NEW t \in SUBSET D, t # {}
        PROVE f[t] = Merge(f[t \ {Max(t)}], s[Max(t)])
    <3>1. c[t] = Max(t) /\ Max(t) \in D
      BY <1>2, <2>1
    <3>2. f[t] = step[<<f[t \ {c[t]}], c[t]>>]
      BY <1>4, <2>1 DEF Folds
    <3>3. f[t \ {Max(t)}] \in Seq(Spans)
      BY <1>4
    <3> QED
      BY <3>1, <3>2, <3>3
  <2>2. f[{}] = <<>>
    BY <1>4 DEF Folds
  <2> HIDE DEF D
  <2> QED
    BY <1>4, <2>1, <2>2
<1> DEFINE g == CHOOSE f_1 : f_1 = Rule(f_1)
<1>6. g = Rule(g)
  BY <1>5, Zenon
<1>7. FoldLeft(Merge, <<>>, s) = g[D]
  BY DEF FoldLeft, MapThenFoldSet
<1> HIDE DEF g
<1> DEFINE F == [k \in 0..Len(s) |-> g[1..k]]
<1>8. F[0] = <<>>
  <2>1. 1..0 = {} /\ {} \in SUBSET D
    OBVIOUS
  <2>2. g[{}] = <<>>
    BY <1>6, <2>1
  <2> QED
    BY <1>1, <2>1, <2>2
<1>9. ASSUME NEW k \in 1..Len(s)
      PROVE  F[k] = Merge(F[k - 1], s[k])
  <2>1. /\ 1..k \in SUBSET D /\ 1..k # {} /\ (1..k) \ {k} = 1..(k - 1)
        /\ k \in 0..Len(s) /\ k - 1 \in 0..Len(s)
    BY <1>1
  <2>2. Max(1..k) = k
    BY <1>1, MaxOfPositions
  <2>3. g[1..k] = Merge(g[(1..k) \ {k}], s[k])
    <3> DEFINE t == 1..k
    <3>1. g[t] = IF t = {} THEN <<>> ELSE Merge(g[t \ {Max(t)}], s[Max(t)])
      <4> HIDE DEF t, D
      <4> USE <1>6
      <4>1. t \in SUBSET D
        BY <2>1 DEF t
      <4> QED
        BY <4>1
    <3> QED
      BY ONLY <2>1, <2>2, <3>1
  <2> QED
    BY <2>1, <2>3
<1>10. F[Len(s)] = g[D]
  BY <1>1
<1> HIDE DEF F
<1> QED
  BY <1>7, <1>8, <1>9, <1>10 DEF Merges

(* Coalescing leaves the same bytes free, in ranges that do not touch.        *)
LEMMA CoalesceFacts ==
  ASSUME NEW f, Loose(f)
  PROVE  FreeOK(Coalesce(f)) /\ \A b \in Int : InFree(Coalesce(f), b) <=> InFree(f, b)
<1> DEFINE s == InOrder(f)
           n == Len(s)
           m == Coalesce(f)
<1>1. Sorted(s, f)
  BY InOrderSorts
<1> HIDE DEF s
<1>2. s \in Seq(Spans) /\ n \in Nat
  BY <1>1 DEF Sorted
<1>3. PICK F : Merges(F, s) /\ m = F[n]
  BY <1>2, MergeWalks DEF Coalesce, s
<1> DEFINE Bad == {k \in 0..n : ~Merged(F[k], s, k)}
<1>4. Bad = {}
  <2>1. SUFFICES ASSUME Bad # {} PROVE FALSE
    OBVIOUS
  <2>2. PICK k \in Bad : \A j \in Bad : k <= j
    <3>1. Bad \subseteq Nat
      BY <1>2
    <3> HIDE DEF Bad
    <3> QED
      BY <2>1, <3>1, HasLeast
  <2>3. k # 0
    <3>1. Merged(<<>>, s, 0)
      BY DEF Merged
    <3> QED
      BY <1>3, <2>2, <3>1 DEF Merges
  <2>4. k \in 1..n /\ k - 1 \in 0..n /\ k - 1 \notin Bad
    BY <1>2, <2>2, <2>3
  <2>5. Merged(F[k - 1], s, k - 1)
    BY <2>4
  <2>6. F[k] = Merge(F[k - 1], s[k])
    BY <1>3, <2>4 DEF Merges
  <2>7. Merged(F[k], s, k)
    BY <1>1, <2>4, <2>5, <2>6, MergeStep
  <2> QED
    BY <2>2, <2>7
<1>5. Merged(m, s, n)
  BY <1>2, <1>3, <1>4
<1> HIDE DEF m, n
<1>6. /\ m \in Seq(Spans) /\ DOMAIN m = 1..Len(m) /\ Len(m) \in Nat
      /\ \A i \in 1..Len(m) : m[i][2] >= 1 /\ End(m[i]) <= Capacity
      /\ \A i, j \in 1..Len(m) : i < j => End(m[i]) < m[j][1]
      /\ \A b \in Int : (\E i \in 1..Len(m) : Holds(m[i], b)) <=> \E j \in 1..n : Holds(s[j], b)
  BY <1>5 DEF Merged
<1>7. \A i, j \in 1..Len(m) : i # j => End(m[i]) < m[j][1] \/ End(m[j]) < m[i][1]
  <2>1. \A i, j \in 1..Len(m) : i # j => i < j \/ j < i
    BY <1>6
  <2> QED
    BY <1>6, <2>1
<1>8. FreeOK(m)
  BY <1>6, <1>7 DEF FreeOK
<1>9. ASSUME NEW b \in Int PROVE InFree(m, b) <=> InFree(f, b)
  <2>1. InFree(m, b) <=> \E j \in 1..n : Holds(s[j], b)
    BY <1>6 DEF InFree, Holds
  <2>2. InFree(f, b) <=> \E i \in 1..Len(f) : Holds(f[i], b)
    BY DEF InFree, Holds, Loose
  <2>3. /\ \A k \in 1..n : \E i \in 1..Len(f) : s[k] = f[i]
        /\ \A i \in 1..Len(f) : \E k \in 1..n : s[k] = f[i]
    BY <1>1 DEF Sorted, n
  <2> QED
    BY <2>1, <2>2, <2>3
<1> QED
  BY <1>8, <1>9 DEF m

-----------------------------------------------------------------------------
(* The views: aligned blocks of the buffer, of which two are the same or do   *)
(* not overlap.                                                              *)
Start(views, v) == views[v].offset
Stop(views, v) == views[v].offset + views[v].size
InView(views, v, b) == Start(views, v) <= b /\ b < Stop(views, v)
Same(views, v, w) == Start(views, v) = Start(views, w) /\ views[v].size = views[w].size
Away(views, v, w) == Stop(views, v) <= Start(views, w) \/ Stop(views, w) <= Start(views, v)

ViewOK(view) == /\ view.offset \in Nat /\ view.size \in Nat /\ view.size >= 1
                /\ view.offset + view.size <= Capacity /\ view.offset % Alignment = 0
                /\ view.readonly \in BOOLEAN

ViewsOK(views) == /\ IsFiniteSet(DOMAIN views)
                  /\ \A v \in DOMAIN views : ViewOK(views[v])
                  /\ \A v, w \in DOMAIN views : Same(views, v, w) \/ Away(views, v, w)

(* A byte is free or viewed, and not both.                                   *)
Covered(f, views) ==
  \A b \in 0..(Capacity - 1) : InFree(f, b) <=> ~\E v \in DOMAIN views : InView(views, v, b)

At(views, o) == {v \in DOMAIN views : Start(views, v) = o}
BlocksOf(views) == {<<views[v].offset, views[v].size>> : v \in DOMAIN views}
SizeSum(B) == SumFunction([b \in B |-> b[2]])

RefsOK(refs, views) == /\ DOMAIN refs = {Start(views, v) : v \in DOMAIN views}
                       /\ \A o \in DOMAIN refs : refs[o] = Cardinality(At(views, o))

ArenaOK(a) == /\ FreeOK(a.free) /\ ViewsOK(a.views) /\ Covered(a.free, a.views)
              /\ RefsOK(a.refs, a.views) /\ a.live = SizeSum(BlocksOf(a.views))

LEMMA EmptyArenaOK == ArenaOK(EmptyArena) /\ DOMAIN EmptyArena.views = {}
<1> DEFINE r == <<0, Capacity>>
           f == <<r>>
           v == <<>>
<1>1. EmptyArena.free = f /\ EmptyArena.views = v /\ EmptyArena.refs = v /\ EmptyArena.live = 0
  BY DEF EmptyArena
<1>2. r \in Spans /\ r[1] = 0 /\ r[2] = Capacity /\ End(r) = Capacity /\ Capacity \in Nat /\ Capacity >= 1
  BY ArenaAssumption DEF Spans, End
<1>3. DOMAIN v = {}
  OBVIOUS
<1>4. IsFiniteSet({}) /\ BlocksOf(v) = {}
  BY <1>3, FS_EmptySet DEF BlocksOf
<1> HIDE DEF r, v
<1>5. f \in Seq(Spans) /\ Len(f) = 1 /\ f[1] = r /\ DOMAIN f = {1}
  BY <1>2
<1> HIDE DEF f
<1>6. FreeOK(f)
  BY <1>2, <1>5 DEF FreeOK
<1>7. ViewsOK(v)
  BY <1>3, <1>4 DEF ViewsOK
<1>8. Covered(f, v)
  BY <1>2, <1>3, <1>5 DEF Covered, InFree
<1>9. RefsOK(v, v)
  BY <1>3 DEF RefsOK
<1>10. SizeSum({}) = 0
  <2> DEFINE w == [b \in {} |-> b[2]]
  <2>1. DOMAIN w = {}
    OBVIOUS
  <2> HIDE DEF w
  <2>2. SumFunction(w) = SumFunctionOnSet(w, {})
    BY <2>1 DEF SumFunction
  <2> QED
    BY <2>2, SumOfNone DEF SizeSum, w
<1> QED
  BY <1>1, <1>3, <1>4, <1>6, <1>7, <1>8, <1>9, <1>10 DEF ArenaOK

(* Sums of sizes: one block more, one less.                                  *)
BlockSet(B) == IsFiniteSet(B) /\ \A b \in B : b[2] \in Nat

LEMMA BlocksAreFinite ==
  ASSUME NEW views, ViewsOK(views)
  PROVE  BlockSet(BlocksOf(views))
<1> DEFINE Block(v) == <<views[v].offset, views[v].size>>
           D == DOMAIN views
<1>1. IsFiniteSet(D)
  BY DEF ViewsOK
<1>2. IsFiniteSet({Block(v) : v \in D})
  <2> DEFINE T == {Block(v) : v \in D}
             h == [v \in D |-> Block(v)]
  <2>1. h \in Surjection(D, T)
    BY DEF Surjection
  <2> HIDE DEF h, T, D
  <2>2. IsFiniteSet(T)
    BY <1>1, <2>1, FS_Surjection
  <2> QED
    BY <2>2 DEF T
<1>3. \A b \in BlocksOf(views) : b[2] \in Nat
  BY DEF BlocksOf, ViewsOK, ViewOK
<1> QED
  BY <1>2, <1>3 DEF BlocksOf, BlockSet

LEMMA SizeSumFacts ==
  ASSUME NEW B, BlockSet(B)
  PROVE  /\ SizeSum(B) \in Nat
         /\ \A x : x \notin B /\ x[2] \in Nat => SizeSum(B \cup {x}) = SizeSum(B) + x[2]
         /\ \A x \in B : SizeSum(B \ {x}) = SizeSum(B) - x[2]
<1> DEFINE w(C) == [b \in C |-> b[2]]
<1>1. ASSUME NEW C PROVE SizeSum(C) = SumFunctionOnSet(w(C), C)
  BY DEF SizeSum, SumFunction
<1>2. Summable(w(B), B)
  BY DEF Summable, BlockSet
<1>3. SizeSum(B) \in Nat
  BY <1>1, <1>2, SumNat
<1>4. ASSUME NEW x, x \notin B, x[2] \in Nat PROVE SizeSum(B \cup {x}) = SizeSum(B) + x[2]
  <2> DEFINE v == w(B \cup {x})
  <2>1. v[x] = x[2] /\ \A b \in B : v[b] = w(B)[b]
    OBVIOUS
  <2>2. SizeSum(B \cup {x}) = SumFunctionOnSet(v, B \cup {x})
    BY <1>1
  <2> HIDE DEF v, w
  <2>3. SumFunctionOnSet(v, B \cup {x}) = SumFunctionOnSet(w(B), B) + v[x]
    BY <1>2, <1>4, <2>1, SumJoined
  <2> QED
    BY <1>1, <2>1, <2>2, <2>3
<1>5. ASSUME NEW x \in B PROVE SizeSum(B \ {x}) = SizeSum(B) - x[2]
  <2> DEFINE v == w(B \ {x})
  <2>1. w(B)[x] = x[2] /\ \A b \in B \ {x} : v[b] = w(B)[b]
    OBVIOUS
  <2>2. SizeSum(B \ {x}) = SumFunctionOnSet(v, B \ {x}) /\ SizeSum(B) = SumFunctionOnSet(w(B), B)
    BY <1>1
  <2>3. x[2] \in Nat
    BY DEF BlockSet
  <2> HIDE DEF v, w
  <2>4. /\ SumFunctionOnSet(v, B \ {x}) \in Nat /\ SumFunctionOnSet(w(B), B) \in Nat
        /\ SumFunctionOnSet(v, B \ {x}) + w(B)[x] = SumFunctionOnSet(w(B), B)
    BY <1>2, <2>1, SumLeft
  <2> QED
    BY <2>1, <2>2, <2>3, <2>4
<1> QED
  BY <1>3, <1>4, <1>5

(* The views with one more.                                                  *)
With(views, v, view) == [w \in DOMAIN views \cup {v} |-> IF w = v THEN view ELSE views[w]]

LEMMA WithViewsOK ==
  ASSUME NEW views, ViewsOK(views), NEW v, v \notin DOMAIN views, NEW view, ViewOK(view),
         \A w \in DOMAIN views : \/ view.offset = Start(views, w) /\ view.size = views[w].size
                                 \/ Stop(views, w) <= view.offset
                                 \/ view.offset + view.size <= Start(views, w)
  PROVE  /\ ViewsOK(With(views, v, view))
         /\ BlocksOf(With(views, v, view)) = BlocksOf(views) \cup {<<view.offset, view.size>>}
<1> DEFINE m == With(views, v, view)
<1>1. /\ DOMAIN m = DOMAIN views \cup {v} /\ m[v] = view
      /\ \A w \in DOMAIN views : m[w] = views[w] /\ w # v
  BY DEF With
<1> HIDE DEF m
<1>2. IsFiniteSet(DOMAIN m)
  BY <1>1, FS_AddElement DEF ViewsOK
<1>3. \A w \in DOMAIN m : ViewOK(m[w])
  BY <1>1 DEF ViewsOK
<1>4. ASSUME NEW w \in DOMAIN m, NEW u \in DOMAIN m PROVE Same(m, w, u) \/ Away(m, w, u)
  <2>1. CASE w = v /\ u = v
    BY <1>1, <2>1 DEF Same
  <2>2. CASE w = v /\ u \in DOMAIN views
    BY <1>1, <2>2 DEF Same, Away, Start, Stop
  <2>3. CASE w \in DOMAIN views /\ u = v
    BY <1>1, <2>3 DEF Same, Away, Start, Stop
  <2>4. CASE w \in DOMAIN views /\ u \in DOMAIN views
    <3>1. Same(views, w, u) \/ Away(views, w, u)
      BY <2>4 DEF ViewsOK
    <3> QED
      BY <1>1, <2>4, <3>1 DEF Same, Away, Start, Stop
  <2> QED
    BY <1>1, <2>1, <2>2, <2>3, <2>4
<1>5. BlocksOf(m) = BlocksOf(views) \cup {<<view.offset, view.size>>}
  BY <1>1 DEF BlocksOf
<1> QED
  BY <1>2, <1>3, <1>4, <1>5 DEF ViewsOK, m

(* What an allocation gives: a block of its own, away from all others.       *)
Grew(a, b, v, n, readonly) ==
  /\ ArenaOK(b) /\ DOMAIN b.views = DOMAIN a.views \cup {v}
  /\ \A w \in DOMAIN a.views : b.views[w] = a.views[w] /\ Away(b.views, v, w)
  /\ b.views[v].size = n /\ b.views[v].readonly = readonly

LEMMA AllocatedFacts ==
  ASSUME NEW a, ArenaOK(a), NEW v, v \notin DOMAIN a.views, NEW n \in Nat, n >= 1,
         NEW readonly \in BOOLEAN, Fitting(a, n) # {}
  PROVE  Grew(a, Allocated(a, v, n, readonly), v, n, readonly)
<1> DEFINE i == Min(Fitting(a, n))
           f == a.free
           views == a.views
           r == f[i]
           o == Aligned(r[1])
           view == [offset |-> o, size |-> n, readonly |-> readonly]
           b == Allocated(a, v, n, readonly)
           block == <<o, n>>
<1>1. FreeOK(f) /\ ViewsOK(views) /\ Covered(f, views) /\ RefsOK(a.refs, views)
      /\ a.live = SizeSum(BlocksOf(views))
  BY DEF ArenaOK
<1>2. f \in Seq(Spans) /\ DOMAIN f = 1..Len(f) /\ Len(f) \in Nat
  BY <1>1 DEF FreeOK
<1>3. i \in Fitting(a, n)
  <2>1. Fitting(a, n) \subseteq Nat
    BY <1>2 DEF Fitting
  <2> QED
    BY <2>1, MinOfSome
<1>4. /\ b.free = Splice(f, i, Rest(r, n))
      /\ b.views = With(views, v, view)
      /\ b.refs = [x \in DOMAIN a.refs \cup {o} |-> IF x = o THEN 1 ELSE a.refs[x]]
      /\ b.live = a.live + n
  BY DEF Allocated, Splice, With
<1>5. i \in 1..Len(f) /\ HasRoom(r, n)
  BY <1>2, <1>3 DEF Fitting
<1> HIDE DEF i
<1>6. r \in Spans /\ End(r) <= Capacity /\ r[2] >= 1
  BY <1>1, <1>2, <1>5 DEF FreeOK
<1>6a. r[1] \in Nat /\ End(r) \in Nat
  BY <1>6 DEF Spans, End
<1> HIDE DEF r
<1>7. /\ o \in Nat /\ r[1] <= o /\ o + n <= End(r) /\ o % Alignment = 0
      /\ Inside(Rest(r, n), r)
      /\ \A x \in Int : InFree(Rest(r, n), x) <=> Holds(r, x) /\ ~(o <= x /\ x < o + n)
  BY <1>5, <1>6, RestFacts
<1>8. /\ FreeOK(b.free)
      /\ \A x \in Int : InFree(b.free, x) <=> (InFree(f, x) /\ ~Holds(r, x)) \/ InFree(Rest(r, n), x)
  <2>1. Inside(Rest(r, n), f[i])
    BY <1>7 DEF r
  <2>2. /\ FreeOK(Splice(f, i, Rest(r, n)))
        /\ \A x \in Int : InFree(Splice(f, i, Rest(r, n)), x)
                            <=> (InFree(f, x) /\ ~Holds(f[i], x)) \/ InFree(Rest(r, n), x)
    BY <1>1, <1>5, <2>1, Replaced
  <2> QED
    BY <1>4, <2>2 DEF r
<1> HIDE DEF b, view, o
<1>9. \A x \in Int : Holds(r, x) => InFree(f, x)
  BY <1>2, <1>5 DEF Holds, InFree, r
<1>10. \A x \in Int : InFree(b.free, x) <=> InFree(f, x) /\ ~(o <= x /\ x < o + n)
  <2> SUFFICES ASSUME NEW x \in Int
               PROVE  InFree(b.free, x) <=> InFree(f, x) /\ ~(o <= x /\ x < o + n)
    OBVIOUS
  <2>1. o <= x /\ x < o + n => Holds(r, x)
    BY <1>6a, <1>7 DEF Holds
  <2> QED
    BY <1>7, <1>8, <1>9, <2>1
<1>11. \A x \in Int : o <= x /\ x < o + n => InFree(f, x) /\ x \in 0..(Capacity - 1)
  <2> SUFFICES ASSUME NEW x \in Int, o <= x, x < o + n PROVE InFree(f, x) /\ x \in 0..(Capacity - 1)
    OBVIOUS
  <2>1. Capacity \in Nat
    BY ArenaAssumption
  <2>2. Holds(r, x) /\ x \in 0..(Capacity - 1)
    BY <1>6, <1>6a, <1>7, <2>1 DEF Holds
  <2> QED
    BY <1>9, <2>2
<1>12. view.offset = o /\ view.size = n /\ view.readonly = readonly
  BY DEF view
<1>13. ViewOK(view)
  <2>1. o + n <= Capacity
    BY <1>6, <1>6a, <1>7, ArenaAssumption
  <2> QED
    BY <1>7, <1>12, <2>1 DEF ViewOK
<1>14. ASSUME NEW w \in DOMAIN views
       PROVE  Stop(views, w) <= o \/ o + n <= Start(views, w)
  <2>1. Start(views, w) \in Nat /\ Stop(views, w) \in Nat /\ Start(views, w) < Stop(views, w)
    <3>1. ViewOK(views[w])
      BY <1>1 DEF ViewsOK
    <3> QED
      BY <3>1 DEF ViewOK, Start, Stop
  <2> DEFINE x == IF o >= Start(views, w) THEN o ELSE Start(views, w)
  <2>2. SUFFICES ASSUME o < Stop(views, w), Start(views, w) < o + n PROVE FALSE
    BY <1>7, <2>1
  <2>3. x \in Int /\ o <= x /\ x < o + n /\ Start(views, w) <= x /\ x < Stop(views, w)
    BY <1>7, <2>1, <2>2
  <2>4. InFree(f, x) /\ x \in 0..(Capacity - 1)
    BY <1>11, <2>3
  <2> HIDE DEF x
  <2>5. ~InView(views, w, x)
    BY <1>1, <2>4 DEF Covered
  <2> QED
    BY <2>3, <2>5 DEF InView
<1>15. ViewsOK(b.views) /\ BlocksOf(b.views) = BlocksOf(views) \cup {block}
  BY <1>1, <1>4, <1>12, <1>13, <1>14, WithViewsOK
<1>16. /\ DOMAIN b.views = DOMAIN views \cup {v} /\ b.views[v] = view
       /\ \A w \in DOMAIN views : b.views[w] = views[w] /\ w # v
  BY <1>4 DEF With
<1>17. \A w \in DOMAIN views : Away(b.views, v, w)
  BY <1>12, <1>14, <1>16 DEF Away, Start, Stop
<1>18. Covered(b.free, b.views)
  <2> SUFFICES ASSUME NEW x \in 0..(Capacity - 1)
               PROVE  InFree(b.free, x) <=> ~\E w \in DOMAIN b.views : InView(b.views, w, x)
    BY DEF Covered
  <2>1. InView(b.views, v, x) <=> o <= x /\ x < o + n
    BY <1>12, <1>16 DEF InView, Start, Stop
  <2>2. \A w \in DOMAIN views : InView(b.views, w, x) <=> InView(views, w, x)
    BY <1>16 DEF InView, Start, Stop
  <2>3. InFree(f, x) <=> ~\E w \in DOMAIN views : InView(views, w, x)
    BY <1>1 DEF Covered
  <2>4. InFree(b.free, x) <=> InFree(f, x) /\ ~(o <= x /\ x < o + n)
    BY <1>10
  <2> QED
    BY ONLY <1>16, <2>1, <2>2, <2>3, <2>4
<1>19. \A w \in DOMAIN views : Start(views, w) # o
  <2> SUFFICES ASSUME NEW w \in DOMAIN views, Start(views, w) = o PROVE FALSE
    OBVIOUS
  <2>1. Stop(views, w) \in Nat /\ Start(views, w) < Stop(views, w) /\ Start(views, w) \in Nat
    <3>1. ViewOK(views[w])
      BY <1>1 DEF ViewsOK
    <3> QED
      BY <3>1 DEF ViewOK, Start, Stop
  <2> QED
    BY <1>7, <1>14, <2>1
<1>20. RefsOK(b.refs, b.views)
  <2>1. DOMAIN b.refs = DOMAIN a.refs \cup {o} /\ DOMAIN a.refs = {Start(views, w) : w \in DOMAIN views}
    BY <1>1, <1>4 DEF RefsOK
  <2>2. DOMAIN b.refs = {Start(b.views, w) : w \in DOMAIN b.views}
    BY <1>12, <1>16, <2>1 DEF Start
  <2>3. At(b.views, o) = {v}
    BY <1>12, <1>16, <1>19 DEF At, Start
  <2>4. ASSUME NEW x \in DOMAIN b.refs, x # o PROVE At(b.views, x) = At(views, x)
    BY <1>12, <1>16, <2>4 DEF At, Start
  <2>5. ASSUME NEW x \in DOMAIN b.refs PROVE b.refs[x] = Cardinality(At(b.views, x))
    <3>1. CASE x = o
      <4>1. b.refs[x] = 1
        BY <1>4, <2>1, <3>1
      <4> QED
        BY <2>3, <3>1, <4>1, FS_Singleton
    <3>2. CASE x # o
      <4>1. x \in DOMAIN a.refs /\ b.refs[x] = a.refs[x]
        BY <1>4, <2>1, <3>2
      <4>2. a.refs[x] = Cardinality(At(views, x))
        BY <1>1, <4>1 DEF RefsOK
      <4> QED
        BY <2>4, <3>2, <4>1, <4>2
    <3> QED
      BY <3>1, <3>2
  <2> QED
    BY <2>2, <2>5 DEF RefsOK
<1>21. b.live = SizeSum(BlocksOf(b.views))
  <2>1. block \notin BlocksOf(views)
    BY <1>19 DEF BlocksOf, Start
  <2>2. BlockSet(BlocksOf(views)) /\ block[2] = n
    BY <1>1, BlocksAreFinite
  <2> HIDE DEF block
  <2>3. SizeSum(BlocksOf(views) \cup {block}) = SizeSum(BlocksOf(views)) + block[2]
    BY <2>1, <2>2, SizeSumFacts
  <2> QED
    BY <1>1, <1>4, <1>15, <2>2, <2>3
<1>22. ArenaOK(b)
  BY <1>8, <1>15, <1>18, <1>20, <1>21 DEF ArenaOK
<1> QED
  BY <1>12, <1>16, <1>17, <1>22 DEF Grew, b

(* What an alias gives: one view more, of the bytes of v.                     *)
Shared(a, b, v, w, readonly) ==
  /\ ArenaOK(b) /\ DOMAIN b.views = DOMAIN a.views \cup {w}
  /\ \A u \in DOMAIN a.views : b.views[u] = a.views[u]
  /\ b.views[w].offset = a.views[v].offset /\ b.views[w].size = a.views[v].size
  /\ b.views[w].readonly = readonly

LEMMA AliasedFacts ==
  ASSUME NEW a, ArenaOK(a), NEW v \in DOMAIN a.views, NEW w, w \notin DOMAIN a.views,
         NEW readonly \in BOOLEAN
  PROVE  Shared(a, Aliased(a, v, w, readonly), v, w, readonly)
<1> DEFINE views == a.views
           o == views[v].offset
           view == [offset |-> o, size |-> views[v].size, readonly |-> readonly]
           b == Aliased(a, v, w, readonly)
<1>1. FreeOK(a.free) /\ ViewsOK(views) /\ Covered(a.free, views) /\ RefsOK(a.refs, views)
      /\ a.live = SizeSum(BlocksOf(views))
  BY DEF ArenaOK
<1>2. /\ b.free = a.free /\ b.views = With(views, w, view) /\ b.live = a.live
      /\ b.refs = [a.refs EXCEPT ![o] = @ + 1]
  BY DEF Aliased, With
<1>3. ViewOK(views[v])
  BY <1>1 DEF ViewsOK
<1>4. ViewOK(view) /\ view.offset = o /\ view.size = views[v].size /\ view.readonly = readonly
  BY <1>3 DEF ViewOK
<1> HIDE DEF b, view
<1>5. \A u \in DOMAIN views : \/ view.offset = Start(views, u) /\ view.size = views[u].size
                              \/ Stop(views, u) <= view.offset
                              \/ view.offset + view.size <= Start(views, u)
  <2> SUFFICES ASSUME NEW u \in DOMAIN views
               PROVE  \/ view.offset = Start(views, u) /\ view.size = views[u].size
                      \/ Stop(views, u) <= view.offset
                      \/ view.offset + view.size <= Start(views, u)
    OBVIOUS
  <2>1. Same(views, v, u) \/ Away(views, v, u)
    BY <1>1 DEF ViewsOK
  <2> QED
    BY <1>4, <2>1 DEF Same, Away, Start, Stop
<1>6. ViewsOK(b.views) /\ BlocksOf(b.views) = BlocksOf(views) \cup {<<view.offset, view.size>>}
  BY <1>1, <1>2, <1>4, <1>5, WithViewsOK
<1>7. BlocksOf(b.views) = BlocksOf(views)
  BY <1>4, <1>6 DEF BlocksOf
<1>8. /\ DOMAIN b.views = DOMAIN views \cup {w} /\ b.views[w] = view
      /\ \A u \in DOMAIN views : b.views[u] = views[u] /\ u # w
  BY <1>2 DEF With
<1>9. Covered(b.free, b.views)
  <2> SUFFICES ASSUME NEW x \in 0..(Capacity - 1)
               PROVE  InFree(b.free, x) <=> ~\E u \in DOMAIN b.views : InView(b.views, u, x)
    BY DEF Covered
  <2>1. InView(b.views, w, x) <=> InView(views, v, x)
    BY <1>4, <1>8 DEF InView, Start, Stop
  <2>2. \A u \in DOMAIN views : InView(b.views, u, x) <=> InView(views, u, x)
    BY <1>8 DEF InView, Start, Stop
  <2>3. InFree(b.free, x) <=> ~\E u \in DOMAIN views : InView(views, u, x)
    BY <1>1, <1>2 DEF Covered
  <2> QED
    BY <1>8, <2>1, <2>2, <2>3
<1>10. RefsOK(b.refs, b.views)
  <2>1. DOMAIN b.refs = DOMAIN a.refs /\ DOMAIN a.refs = {Start(views, u) : u \in DOMAIN views}
    BY <1>1, <1>2 DEF RefsOK
  <2>2. o \in DOMAIN a.refs
    BY <2>1 DEF Start
  <2>3. DOMAIN b.refs = {Start(b.views, u) : u \in DOMAIN b.views}
    BY <1>4, <1>8, <2>1 DEF Start
  <2>4. At(b.views, o) = At(views, o) \cup {w} /\ w \notin At(views, o)
    BY <1>4, <1>8 DEF At, Start
  <2>5. \A x : x # o => At(b.views, x) = At(views, x)
    BY <1>4, <1>8 DEF At, Start
  <2>6. IsFiniteSet(At(views, o))
    BY <1>1, FS_Subset DEF ViewsOK, At
  <2>7. Cardinality(At(b.views, o)) = Cardinality(At(views, o)) + 1
    BY <2>4, <2>6, FS_AddElement
  <2>8. ASSUME NEW x \in DOMAIN b.refs PROVE b.refs[x] = Cardinality(At(b.views, x))
    <3>1. a.refs[x] = Cardinality(At(views, x)) /\ x \in DOMAIN a.refs
      BY <1>1, <2>1 DEF RefsOK
    <3>2. b.refs[x] = IF x = o THEN a.refs[o] + 1 ELSE a.refs[x]
      BY <1>2, <2>2, <3>1
    <3> QED
      BY <2>5, <2>7, <3>1, <3>2
  <2> QED
    BY <2>3, <2>8 DEF RefsOK
<1>11. ArenaOK(b)
  BY <1>1, <1>2, <1>6, <1>7, <1>9, <1>10 DEF ArenaOK
<1> QED
  BY <1>4, <1>8, <1>11 DEF Shared, b

(* What a release gives: one view less.                                      *)
Dropped(a, b, v) ==
  /\ ArenaOK(b) /\ DOMAIN b.views = DOMAIN a.views \ {v}
  /\ \A w \in DOMAIN b.views : b.views[w] = a.views[w]

LEMMA DroppedViews ==
  ASSUME NEW views, ViewsOK(views), NEW v \in DOMAIN views,
         NEW others, others = Restrict(views, DOMAIN views \ {v})
  PROVE  /\ ViewsOK(others) /\ DOMAIN others = DOMAIN views \ {v}
         /\ \A w \in DOMAIN others : others[w] = views[w] /\ w \in DOMAIN views
<1>1. /\ DOMAIN others = DOMAIN views \ {v}
      /\ \A w \in DOMAIN others : others[w] = views[w] /\ w \in DOMAIN views
  BY DEF Restrict
<1>2. IsFiniteSet(DOMAIN others)
  BY <1>1, FS_Subset DEF ViewsOK
<1>3. \A w \in DOMAIN others : ViewOK(others[w])
  BY <1>1 DEF ViewsOK
<1>4. ASSUME NEW w \in DOMAIN others, NEW u \in DOMAIN others
      PROVE  Same(others, w, u) \/ Away(others, w, u)
  <2>1. Same(views, w, u) \/ Away(views, w, u)
    BY <1>1 DEF ViewsOK
  <2> QED
    BY <1>1, <2>1 DEF Same, Away, Start, Stop
<1> QED
  BY <1>1, <1>2, <1>3, <1>4 DEF ViewsOK

(* A view whose block is seen by others too: the block stays.                *)
LEMMA ReleasedShared ==
  ASSUME NEW a, ArenaOK(a), NEW v \in DOMAIN a.views, a.refs[a.views[v].offset] > 1
  PROVE  Dropped(a, Released(a, v), v)
<1> DEFINE views == a.views
           o == views[v].offset
           others == Restrict(views, DOMAIN views \ {v})
           b == Released(a, v)
<1>1. FreeOK(a.free) /\ ViewsOK(views) /\ Covered(a.free, views) /\ RefsOK(a.refs, views)
      /\ a.live = SizeSum(BlocksOf(views))
  BY DEF ArenaOK
<1>2. /\ b.free = a.free /\ b.views = others /\ b.live = a.live
      /\ b.refs = [a.refs EXCEPT ![o] = @ - 1]
  BY DEF Released
<1>3. /\ ViewsOK(others) /\ DOMAIN others = DOMAIN views \ {v}
      /\ \A w \in DOMAIN others : others[w] = views[w] /\ w \in DOMAIN views
  BY <1>1, DroppedViews
<1> HIDE DEF others, b
<1>4. DOMAIN a.refs = {Start(views, u) : u \in DOMAIN views} /\ o \in DOMAIN a.refs
      /\ \A x \in DOMAIN a.refs : a.refs[x] = Cardinality(At(views, x))
  BY <1>1 DEF RefsOK, Start
<1>5. v \in At(views, o) /\ IsFiniteSet(At(views, o))
  BY <1>1, FS_Subset DEF ViewsOK, At, Start
<1>6. PICK u \in At(views, o) : u # v
  <2>1. Cardinality(At(views, o)) > 1
    BY <1>4
  <2>2. Cardinality({v}) = 1
    BY FS_Singleton
  <2>3. At(views, o) # {v}
    BY <2>1, <2>2
  <2> QED
    BY <1>5, <2>3
<1>7. u \in DOMAIN others /\ Start(views, u) = o /\ u \in DOMAIN views /\ Start(views, v) = o
  BY <1>3, <1>6 DEF At, Start
<1>8. Same(views, u, v)
  <2>1. Same(views, u, v) \/ Away(views, u, v)
    BY <1>1, <1>7 DEF ViewsOK
  <2>2. ViewOK(views[u]) /\ ViewOK(views[v])
    BY <1>1, <1>7 DEF ViewsOK
  <2> QED
    BY <1>7, <2>1, <2>2 DEF Away, Stop, Start, ViewOK
<1>9. BlocksOf(others) = BlocksOf(views)
  <2>1. BlocksOf(others) \subseteq BlocksOf(views)
    BY <1>3 DEF BlocksOf
  <2>2. ASSUME NEW w \in DOMAIN views
        PROVE  <<views[w].offset, views[w].size>> \in BlocksOf(others)
    <3>1. CASE w = v
      BY <1>3, <1>7, <1>8, <3>1 DEF BlocksOf, Same, Start
    <3>2. CASE w # v
      BY <1>3, <3>2 DEF BlocksOf
    <3> QED
      BY <3>1, <3>2
  <2> QED
    BY <2>1, <2>2 DEF BlocksOf
<1>10. Covered(b.free, b.views)
  <2> SUFFICES ASSUME NEW x \in 0..(Capacity - 1)
               PROVE  InFree(a.free, x) <=> ~\E w \in DOMAIN others : InView(others, w, x)
    BY <1>2 DEF Covered
  <2>1. InFree(a.free, x) <=> ~\E w \in DOMAIN views : InView(views, w, x)
    BY <1>1 DEF Covered
  <2>2. \A w \in DOMAIN others : InView(others, w, x) <=> InView(views, w, x)
    BY <1>3 DEF InView, Start, Stop
  <2>3. InView(views, v, x) <=> InView(views, u, x)
    BY <1>7, <1>8 DEF InView, Same, Start, Stop
  <2> QED
    BY <1>3, <1>7, <2>1, <2>2, <2>3
<1>11. RefsOK(b.refs, b.views)
  <2>1. DOMAIN b.refs = {Start(others, w) : w \in DOMAIN others}
    <3>1. DOMAIN b.refs = DOMAIN a.refs
      BY <1>2
    <3>2. {Start(others, w) : w \in DOMAIN others} \subseteq DOMAIN a.refs
      BY <1>3, <1>4 DEF Start
    <3>3. ASSUME NEW w \in DOMAIN views PROVE Start(views, w) \in {Start(others, z) : z \in DOMAIN others}
      BY <1>3, <1>7 DEF Start
    <3> QED
      BY <1>4, <3>1, <3>2, <3>3
  <2>2. At(others, o) = At(views, o) \ {v}
    BY <1>3 DEF At, Start
  <2>3. \A x : x # o => At(others, x) = At(views, x)
    BY <1>3 DEF At, Start
  <2>4. Cardinality(At(others, o)) = Cardinality(At(views, o)) - 1
    BY <1>5, <2>2, FS_RemoveElement
  <2>5. ASSUME NEW x \in DOMAIN b.refs PROVE b.refs[x] = Cardinality(At(others, x))
    <3>1. x \in DOMAIN a.refs /\ b.refs[x] = IF x = o THEN a.refs[o] - 1 ELSE a.refs[x]
      BY <1>2, <1>4
    <3> QED
      BY <1>4, <2>3, <2>4, <3>1
  <2> QED
    BY <1>2, <2>1, <2>5 DEF RefsOK
<1>12. ArenaOK(b)
  BY <1>1, <1>2, <1>3, <1>9, <1>10, <1>11 DEF ArenaOK
<1> QED
  BY <1>2, <1>3, <1>12 DEF Dropped, b

(* The free list with the block of a view that nobody shares.                *)
LEMMA LooseWithBlock ==
  ASSUME NEW f, FreeOK(f), NEW views, ViewsOK(views), Covered(f, views), NEW v \in DOMAIN views,
         NEW block, block = <<views[v].offset, views[v].size>>
  PROVE  /\ Loose(Append(f, block))
         /\ \A x \in Int : InFree(Append(f, block), x) <=> InFree(f, x) \/ InView(views, v, x)
<1> DEFINE g == Append(f, block)
           n == Len(f)
<1>1. ViewOK(views[v])
  BY DEF ViewsOK
<1>2. /\ block \in Spans /\ block[1] = Start(views, v) /\ block[2] >= 1 /\ End(block) = Stop(views, v)
      /\ block[1] \in Nat /\ End(block) \in Nat /\ End(block) <= Capacity /\ block[1] < End(block)
  BY <1>1, ArenaAssumption DEF ViewOK, Spans, Start, Stop, End
<1>3. f \in Seq(Spans) /\ n \in Nat /\ DOMAIN f = 1..n
  BY DEF FreeOK
<1> HIDE DEF n
<1>4. g \in Seq(Spans) /\ DOMAIN g = 1..(n + 1) /\ Len(g) = n + 1 /\ g[n + 1] = block
      /\ \A i \in 1..n : g[i] = f[i]
  BY <1>2, <1>3 DEF n
<1> HIDE DEF g
<1>5. \A i \in 1..n : /\ f[i] \in Spans /\ f[i][1] \in Nat /\ End(f[i]) \in Nat
                      /\ f[i][2] >= 1 /\ End(f[i]) <= Capacity /\ f[i][1] < End(f[i])
  <2> SUFFICES ASSUME NEW i \in 1..n
               PROVE  /\ f[i] \in Spans /\ f[i][1] \in Nat /\ End(f[i]) \in Nat
                      /\ f[i][2] >= 1 /\ End(f[i]) <= Capacity /\ f[i][1] < End(f[i])
    OBVIOUS
  <2>1. f[i] \in Spans /\ f[i][2] >= 1 /\ End(f[i]) <= Capacity
    BY <1>3 DEF FreeOK
  <2>2. f[i][1] \in Nat /\ f[i][2] \in Nat
    BY <2>1 DEF Spans
  <2> QED
    BY <2>1, <2>2 DEF End
<1>6. ASSUME NEW i \in 1..n PROVE Disjoint(f[i], block)
  <2>1. SUFFICES ASSUME block[1] < End(f[i]), f[i][1] < End(block) PROVE FALSE
    BY <1>2, <1>5 DEF Disjoint
  <2> DEFINE x == IF block[1] >= f[i][1] THEN block[1] ELSE f[i][1]
  <2>2. /\ x \in Int /\ block[1] <= x /\ x < End(block) /\ f[i][1] <= x /\ x < End(f[i])
        /\ 0 <= x /\ x < Capacity
    BY <1>2, <1>5, <2>1, ArenaAssumption
  <2> HIDE DEF x
  <2>3. InFree(f, x)
    BY <1>3, <2>2 DEF InFree
  <2>4. x \in 0..(Capacity - 1)
    BY <2>2, ArenaAssumption
  <2>5. ~InView(views, v, x)
    BY <2>3, <2>4 DEF Covered
  <2> QED
    BY <1>2, <2>2, <2>5 DEF InView
<1>7. ASSUME NEW i \in 1..(n + 1), NEW j \in 1..(n + 1), i # j PROVE Disjoint(g[i], g[j])
  <2>1. CASE i \in 1..n /\ j \in 1..n
    <3>1. End(f[i]) < f[j][1] \/ End(f[j]) < f[i][1]
      BY <1>3, <1>7, <2>1 DEF FreeOK
    <3>2. End(f[i]) <= f[j][1] \/ End(f[j]) <= f[i][1]
      BY <1>5, <2>1, <3>1
    <3> QED
      BY <1>4, <2>1, <3>2 DEF Disjoint
  <2>2. CASE i \in 1..n /\ j = n + 1
    BY <1>4, <1>6, <2>2
  <2>3. CASE i = n + 1 /\ j \in 1..n
    BY <1>4, <1>6, <2>3 DEF Disjoint
  <2> QED
    BY <1>3, <1>7, <2>1, <2>2, <2>3
<1>8. ASSUME NEW i \in 1..(n + 1) PROVE g[i][2] >= 1 /\ End(g[i]) <= Capacity
  <2>1. CASE i \in 1..n
    <3>1. g[i] = f[i]
      BY <1>4, <2>1
    <3> QED
      BY <1>5, <2>1, <3>1
  <2>2. CASE i = n + 1
    <3>1. g[i] = block
      BY <1>4, <2>2
    <3> QED
      BY <1>2, <3>1
  <2> QED
    BY <1>3, <2>1, <2>2
<1>9. Loose(g)
  BY <1>4, <1>7, <1>8 DEF Loose
<1>10. ASSUME NEW x \in Int PROVE InFree(g, x) <=> InFree(f, x) \/ InView(views, v, x)
  <2>1. Holds(block, x) <=> InView(views, v, x)
    BY <1>2 DEF Holds, InView
  <2>2. InFree(g, x) <=> \E i \in 1..(n + 1) : Holds(g[i], x)
    BY <1>4 DEF InFree, Holds
  <2>3. InFree(f, x) <=> \E i \in 1..n : Holds(f[i], x)
    BY <1>3 DEF InFree, Holds
  <2>4. \A i : i \in 1..(n + 1) <=> i \in 1..n \/ i = n + 1
    BY <1>3
  <2> QED
    BY ONLY <1>4, <2>1, <2>2, <2>3, <2>4
<1> QED
  BY <1>9, <1>10 DEF g

(* The last view of a block: the block is free again.                        *)
LEMMA ReleasedAlone ==
  ASSUME NEW a, ArenaOK(a), NEW v \in DOMAIN a.views, ~(a.refs[a.views[v].offset] > 1)
  PROVE  Dropped(a, Released(a, v), v)
<1> DEFINE views == a.views
           o == views[v].offset
           block == <<o, views[v].size>>
           others == Restrict(views, DOMAIN views \ {v})
           b == Released(a, v)
<1>1. FreeOK(a.free) /\ ViewsOK(views) /\ Covered(a.free, views) /\ RefsOK(a.refs, views)
      /\ a.live = SizeSum(BlocksOf(views))
  BY DEF ArenaOK
<1>2. /\ b.free = Coalesce(Append(a.free, block)) /\ b.views = others /\ b.live = a.live - block[2]
      /\ b.refs = Restrict(a.refs, DOMAIN a.refs \ {o})
  BY DEF Released
<1>3. /\ ViewsOK(others) /\ DOMAIN others = DOMAIN views \ {v}
      /\ \A w \in DOMAIN others : others[w] = views[w] /\ w \in DOMAIN views
  BY <1>1, DroppedViews
<1>4. /\ Loose(Append(a.free, block))
      /\ \A x \in Int : InFree(Append(a.free, block), x) <=> InFree(a.free, x) \/ InView(views, v, x)
  BY <1>1, LooseWithBlock
<1>4a. block[2] = views[v].size /\ block[1] = o /\ block \in BlocksOf(views)
  BY DEF BlocksOf
<1> HIDE DEF others, b, block
<1>5. FreeOK(b.free) /\ \A x \in Int : InFree(b.free, x) <=> InFree(a.free, x) \/ InView(views, v, x)
  BY <1>2, <1>4, CoalesceFacts
<1>6. DOMAIN a.refs = {Start(views, u) : u \in DOMAIN views} /\ o \in DOMAIN a.refs
      /\ \A x \in DOMAIN a.refs : a.refs[x] = Cardinality(At(views, x))
  BY <1>1 DEF RefsOK, Start
<1>7. v \in At(views, o) /\ IsFiniteSet(At(views, o))
  BY <1>1, FS_Subset DEF ViewsOK, At, Start
<1>8. At(views, o) = {v}
  <2>1. Cardinality(At(views, o)) \in Nat /\ ~(Cardinality(At(views, o)) > 1)
    BY <1>6, <1>7, FS_CardinalityType
  <2>2. /\ IsFiniteSet(At(views, o) \ {v})
        /\ Cardinality(At(views, o) \ {v}) = Cardinality(At(views, o)) - 1
    BY <1>7, FS_RemoveElement
  <2>3. Cardinality(At(views, o) \ {v}) \in Nat
    BY <2>2, FS_CardinalityType
  <2>4. Cardinality(At(views, o) \ {v}) = 0
    BY <2>1, <2>2, <2>3
  <2>5. At(views, o) \ {v} = {}
    BY <2>2, <2>4, FS_EmptySet
  <2> QED
    BY <1>7, <2>5
<1>9. \A w \in DOMAIN others : Start(views, w) # o /\ w # v /\ w \in DOMAIN views
  BY <1>3, <1>8 DEF At
<1>10. ASSUME NEW w \in DOMAIN others, NEW x \in Int, InView(views, v, x) PROVE ~InView(others, w, x)
  <2>1. Same(views, w, v) \/ Away(views, w, v)
    BY <1>1, <1>9 DEF ViewsOK
  <2>2. Away(views, w, v)
    BY <1>9, <2>1 DEF Same, Start
  <2>3. ViewOK(views[w]) /\ ViewOK(views[v])
    BY <1>1, <1>9 DEF ViewsOK
  <2>4. /\ Start(views, w) \in Nat /\ Stop(views, w) \in Nat
        /\ Start(views, v) \in Nat /\ Stop(views, v) \in Nat
    BY <2>3 DEF Start, Stop, ViewOK
  <2>5. ~InView(views, w, x)
    BY <1>10, <2>2, <2>4 DEF Away, InView
  <2> QED
    BY <1>3, <2>5 DEF InView, Start, Stop
<1>11. Covered(b.free, b.views)
  <2> SUFFICES ASSUME NEW x \in 0..(Capacity - 1)
               PROVE  InFree(b.free, x) <=> ~\E w \in DOMAIN others : InView(others, w, x)
    BY <1>2 DEF Covered
  <2>1. InFree(a.free, x) <=> ~\E w \in DOMAIN views : InView(views, w, x)
    BY <1>1 DEF Covered
  <2>2. \A w \in DOMAIN others : InView(others, w, x) <=> InView(views, w, x)
    BY <1>3 DEF InView, Start, Stop
  <2>3. InFree(b.free, x) <=> InFree(a.free, x) \/ InView(views, v, x)
    BY <1>5
  <2>4. InView(views, v, x) => ~\E w \in DOMAIN others : InView(others, w, x)
    BY <1>10
  <2> QED
    BY <1>3, <2>1, <2>2, <2>3, <2>4
<1>12. RefsOK(b.refs, b.views)
  <2>1. DOMAIN b.refs = DOMAIN a.refs \ {o} /\ \A x \in DOMAIN b.refs : b.refs[x] = a.refs[x]
    BY <1>2 DEF Restrict
  <2>2. DOMAIN b.refs = {Start(others, w) : w \in DOMAIN others}
    <3>1. {Start(others, w) : w \in DOMAIN others} \subseteq DOMAIN b.refs
      BY <1>3, <1>6, <1>9, <2>1 DEF Start
    <3>2. ASSUME NEW x \in DOMAIN b.refs PROVE x \in {Start(others, w) : w \in DOMAIN others}
      <4>1. PICK w \in DOMAIN views : x = Start(views, w)
        BY <1>6, <2>1
      <4>2. w \in DOMAIN others
        BY <1>3, <2>1, <4>1 DEF Start
      <4> QED
        BY <1>3, <4>1, <4>2 DEF Start
    <3> QED
      BY <3>1, <3>2
  <2>3. \A x : x # o => At(others, x) = At(views, x)
    BY <1>3 DEF At, Start
  <2>4. \A x \in DOMAIN b.refs : b.refs[x] = Cardinality(At(others, x))
    BY <1>6, <2>1, <2>3
  <2> QED
    BY <1>2, <2>2, <2>4 DEF RefsOK
<1>13. BlocksOf(others) = BlocksOf(views) \ {block}
  <2>1. ASSUME NEW w \in DOMAIN others
        PROVE  <<others[w].offset, others[w].size>> \in BlocksOf(views) \ {block}
    BY <1>3, <1>9, <2>1 DEF BlocksOf, Start, block
  <2>2. ASSUME NEW w \in DOMAIN views, <<views[w].offset, views[w].size>> # block
        PROVE  <<views[w].offset, views[w].size>> \in BlocksOf(others)
    BY <1>3, <2>2 DEF BlocksOf, block
  <2>3. BlocksOf(others) \subseteq BlocksOf(views) \ {block}
    BY <2>1 DEF BlocksOf
  <2>4. BlocksOf(views) \ {block} \subseteq BlocksOf(others)
    BY <2>2 DEF BlocksOf
  <2> QED
    BY <2>3, <2>4
<1>14. b.live = SizeSum(BlocksOf(others))
  BY <1>1, <1>2, <1>4a, <1>13, BlocksAreFinite, SizeSumFacts
<1>15. ArenaOK(b)
  BY <1>2, <1>3, <1>5, <1>11, <1>12, <1>14 DEF ArenaOK
<1> QED
  BY <1>2, <1>3, <1>15 DEF Dropped, b

LEMMA ReleasedFacts ==
  ASSUME NEW a, ArenaOK(a), NEW v \in DOMAIN a.views
  PROVE  Dropped(a, Released(a, v), v)
BY ReleasedShared, ReleasedAlone

-----------------------------------------------------------------------------
(* The invariant of the pool. Views are named by the keys of the entries and  *)
(* by handles; an entry's bytes and those a caller can read are as they were  *)
(* interned.                                                                 *)
Named(p, hs) ==
  /\ DOMAIN p.arena.views \subseteq Keys \cup Handles
  /\ DOMAIN p.entries \subseteq Keys /\ DOMAIN hs \subseteq Handles
  /\ \A k \in Keys : k \in DOMAIN p.arena.views <=> k \in DOMAIN p.entries
  /\ \A k \in DOMAIN p.entries : p.entries[k] \in [data : Tensors, handles : Nat]

Written(mem, view, d) == \A b \in Bytes(<<view.offset, view.size>>) : mem[b] = d

Sealed(p, mem) ==
  \A k \in DOMAIN p.entries : /\ p.arena.views[k].readonly
                              /\ Written(mem, p.arena.views[k], p.entries[k].data)

Readable(p, hs, mem) ==
  \A h \in DOMAIN hs : Live(p.arena, h) => Written(mem, p.arena.views[h], hs[h].data)

(* No two entries share a block, and the handles on the block of an entry    *)
(* were given out for it.                                                    *)
Beside(p, v, w) == Start(p.arena.views, v) = Start(p.arena.views, w)
HeldOn(p, k) == {h \in Handles : Live(p.arena, h) /\ Beside(p, h, k)}

Owned(p, hs) ==
  \A k \in DOMAIN p.entries :
    /\ \A l \in DOMAIN p.entries : Beside(p, k, l) => k = l
    /\ \A h \in HeldOn(p, k) : h \in DOMAIN hs /\ hs[h].key = k

(* An entry counts no more handles than there are views of its block, and    *)
(* exactly those as long as no handle from before a clear met a later entry.  *)
HandlesOf(p) == [k \in DOMAIN p.entries |-> p.entries[k].handles]

Counted(p) == /\ \A k \in DOMAIN p.entries : p.entries[k].handles <= Cardinality(HeldOn(p, k))
              /\ IsFiniteSet(DOMAIN p.entries) /\ p.count = SumFunction(HandlesOf(p))

Exact(p, hs) ==
  /\ \A h \in Handles : Live(p.arena, h) => /\ h \in DOMAIN hs /\ hs[h].key \in DOMAIN p.entries
                                            /\ Beside(p, h, hs[h].key)
  /\ \A k \in DOMAIN p.entries : p.entries[k].handles = Cardinality(HeldOn(p, k))

(* All entries are held, between the actions.                                *)
Positive(p) == \A k \in DOMAIN p.entries : p.entries[k].handles >= 1

PoolOK(p, hs, mem, stale) ==
  /\ ArenaOK(p.arena) /\ Named(p, hs) /\ Sealed(p, mem) /\ Readable(p, hs, mem)
  /\ Owned(p, hs) /\ Counted(p) /\ (~stale => Exact(p, hs))

PoolInv == /\ PoolOK(pool, handles, memory, spoiled) /\ Positive(pool)
           /\ DOMAIN memory = 0..(Capacity - 1) /\ spoiled \in BOOLEAN

(* The total of a function, after a change at one of its arguments.           *)
Naturals(f) == Summable(f, DOMAIN f)

LEMMA TotalJoined ==
  ASSUME NEW f, Naturals(f), NEW x, x \notin DOMAIN f, NEW g, DOMAIN g = DOMAIN f \cup {x},
         g[x] \in Nat, \A i \in DOMAIN f : g[i] = f[i]
  PROVE  Naturals(g) /\ SumFunction(g) = SumFunction(f) + g[x]
BY SumJoined DEF Naturals, SumFunction

LEMMA TotalLeft ==
  ASSUME NEW f, Naturals(f), NEW x \in DOMAIN f, NEW g, DOMAIN g = DOMAIN f \ {x},
         \A i \in DOMAIN g : g[i] = f[i]
  PROVE  Naturals(g) /\ SumFunction(g) = SumFunction(f) - f[x] /\ SumFunction(f) \in Nat
<1>1. /\ Summable(g, DOMAIN f \ {x})
      /\ SumFunctionOnSet(g, DOMAIN f \ {x}) \in Nat /\ SumFunctionOnSet(f, DOMAIN f) \in Nat
      /\ SumFunctionOnSet(g, DOMAIN f \ {x}) + f[x] = SumFunctionOnSet(f, DOMAIN f)
  BY SumLeft DEF Naturals
<1>2. f[x] \in Nat
  BY DEF Naturals, Summable
<1> QED
  BY <1>1, <1>2 DEF Naturals, SumFunction

LEMMA TotalChanged ==
  ASSUME NEW f, Naturals(f), NEW x \in DOMAIN f, NEW g, DOMAIN g = DOMAIN f, g[x] \in Nat,
         \A i \in DOMAIN f : i # x => g[i] = f[i]
  PROVE  Naturals(g) /\ SumFunction(g) = SumFunction(f) - f[x] + g[x]
<1> DEFINE S == DOMAIN f \ {x}
<1>1. /\ Summable(f, S) /\ SumFunctionOnSet(f, S) \in Nat
      /\ SumFunctionOnSet(f, S) + f[x] = SumFunctionOnSet(f, DOMAIN f) /\ f[x] \in Nat
  <2>1. f[x] \in Nat
    BY DEF Naturals, Summable
  <2>2. \A i \in DOMAIN f \ {x} : f[i] = f[i]
    OBVIOUS
  <2> QED
    BY <2>1, <2>2, SumLeft DEF Naturals
<1>2. \A i \in S : g[i] = f[i]
  OBVIOUS
<1>3. Summable(g, S \cup {x}) /\ SumFunctionOnSet(g, S \cup {x}) = SumFunctionOnSet(f, S) + g[x]
  <2> DEFINE T == S
  <2>1. x \notin T
    OBVIOUS
  <2> HIDE DEF T
  <2>2. T = S
    BY DEF T
  <2>3. Summable(f, T) /\ \A i \in T : g[i] = f[i]
    BY <1>1, <1>2, <2>2
  <2>4. Summable(g, T \cup {x}) /\ SumFunctionOnSet(g, T \cup {x}) = SumFunctionOnSet(f, T) + g[x]
    BY <2>1, <2>3, SumJoined
  <2> QED
    BY <2>2, <2>4
<1>4. S \cup {x} = DOMAIN g
  OBVIOUS
<1> QED
  BY <1>1, <1>3, <1>4 DEF Naturals, SumFunction

LEMMA TotalOfNone ==
  ASSUME NEW f, DOMAIN f = {}
  PROVE  Naturals(f) /\ SumFunction(f) = 0
BY FS_EmptySet, SumOfNone DEF Naturals, Summable, SumFunction

-----------------------------------------------------------------------------
(* Bytes of views away from another are not its bytes.                        *)
LEMMA AwayBytes ==
  ASSUME NEW views, ViewsOK(views), NEW v \in DOMAIN views, NEW w \in DOMAIN views, Away(views, v, w),
         NEW b \in Bytes(<<views[w].offset, views[w].size>>)
  PROVE  b \notin Bytes(<<views[v].offset, views[v].size>>)
<1>1. ViewOK(views[v]) /\ ViewOK(views[w])
  BY DEF ViewsOK
<1> QED
  BY <1>1 DEF ViewOK, Away, Start, Stop, Bytes

LEMMA ViewBytes ==
  ASSUME NEW views, ViewsOK(views), NEW v \in DOMAIN views
  PROVE  Bytes(<<views[v].offset, views[v].size>>) \subseteq 0..(Capacity - 1)
<1>1. ViewOK(views[v])
  BY DEF ViewsOK
<1> QED
  BY <1>1, ArenaAssumption DEF ViewOK, Bytes

(* The handles on the block of an entry are finitely many.                   *)
LEMMA HeldFinite ==
  ASSUME NEW p, ArenaOK(p.arena), NEW k
  PROVE  IsFiniteSet(HeldOn(p, k))
<1>1. IsFiniteSet(DOMAIN p.arena.views)
  BY DEF ArenaOK, ViewsOK
<1>2. HeldOn(p, k) \subseteq DOMAIN p.arena.views
  BY DEF HeldOn, Live
<1> QED
  BY <1>1, <1>2, FS_Subset

(* A new entry, before its handle.                                           *)
Mastered(p, d, k) == [arena |-> Allocated(p.arena, k, SizeOf[d], TRUE),
                   entries |-> [i \in DOMAIN p.entries \cup {k} |->
                                  IF i = k THEN [data |-> d, handles |-> 0] ELSE p.entries[i]],
                   count |-> p.count]

Filled(mem, view, d) ==
  [b \in DOMAIN mem |-> IF b \in Bytes(<<view.offset, view.size>>) THEN d ELSE mem[b]]

LEMMA MasteredOK ==
  ASSUME NEW p, NEW hs, NEW mem, NEW stale, PoolOK(p, hs, mem, stale), DOMAIN mem = 0..(Capacity - 1),
         NEW d \in Tensors, NEW k \in Keys, k \notin DOMAIN p.entries, Fitting(p.arena, SizeOf[d]) # {}
  PROVE  /\ PoolOK(Mastered(p, d, k), hs, Filled(mem, Mastered(p, d, k).arena.views[k], d), stale)
         /\ DOMAIN Mastered(p, d, k).entries = DOMAIN p.entries \cup {k}
         /\ Mastered(p, d, k).entries[k].data = d /\ Mastered(p, d, k).entries[k].handles = 0
         /\ \A l \in DOMAIN p.entries : Mastered(p, d, k).entries[l] = p.entries[l]
         /\ DOMAIN Mastered(p, d, k).arena.views = DOMAIN p.arena.views \cup {k}
<1> DEFINE q == Mastered(p, d, k)
           view == q.arena.views[k]
           mem2 == Filled(mem, view, d)
           views == p.arena.views
           all == q.arena.views
           old == DOMAIN p.entries
<1>1. /\ ArenaOK(p.arena) /\ Named(p, hs) /\ Sealed(p, mem) /\ Readable(p, hs, mem)
      /\ Owned(p, hs) /\ Counted(p) /\ (~stale => Exact(p, hs))
  BY DEF PoolOK
<1>2. k \notin DOMAIN views /\ SizeOf[d] \in Nat /\ SizeOf[d] >= 1
  BY <1>1, PoolAssumption DEF Named
<1>3. Grew(p.arena, q.arena, k, SizeOf[d], TRUE)
  <2>1. q.arena = Allocated(p.arena, k, SizeOf[d], TRUE)
    BY DEF Mastered
  <2> QED
    BY <1>1, <1>2, <2>1, AllocatedFacts
<1>4. /\ DOMAIN q.entries = old \cup {k} /\ q.count = p.count
      /\ q.entries[k].data = d /\ q.entries[k].handles = 0
      /\ q.entries[k] \in [data : Tensors, handles : Nat]
      /\ \A l \in old : q.entries[l] = p.entries[l] /\ l # k
  BY DEF Mastered
<1> HIDE DEF q
<1>5. /\ ArenaOK(q.arena) /\ ViewsOK(all) /\ DOMAIN all = DOMAIN views \cup {k}
      /\ \A w \in DOMAIN views : all[w] = views[w] /\ Away(all, k, w) /\ w # k
      /\ view.readonly
  BY <1>2, <1>3 DEF Grew, ArenaOK
<1>6. old \subseteq DOMAIN views /\ old \subseteq Keys /\ k \notin Handles /\ \A h \in Handles : h # k
  BY <1>1, PoolAssumption DEF Named, Keys
<1>7. \A b \in DOMAIN mem : mem2[b] = IF b \in Bytes(<<view.offset, view.size>>) THEN d ELSE mem[b]
  BY DEF Filled
<1> HIDE DEF mem2
<1>8. Written(mem2, view, d)
  <2>1. Bytes(<<view.offset, view.size>>) \subseteq DOMAIN mem
    BY <1>5, ViewBytes
  <2> QED
    BY <1>7, <2>1 DEF Written
<1>9. ASSUME NEW w \in DOMAIN views, NEW e, Written(mem, views[w], e) PROVE Written(mem2, all[w], e)
  <2> SUFFICES ASSUME NEW b \in Bytes(<<all[w].offset, all[w].size>>) PROVE mem2[b] = e
    BY DEF Written
  <2>1. b \in DOMAIN mem /\ b \notin Bytes(<<view.offset, view.size>>)
    BY <1>5, AwayBytes, ViewBytes
  <2>2. all[w] = views[w]
    BY <1>5
  <2>3. mem[b] = e
    BY <1>9, <2>2 DEF Written
  <2> QED
    BY <1>7, <2>1, <2>3
<1>10. Named(q, hs)
  BY <1>1, <1>4, <1>5 DEF Named
<1>11. Sealed(q, mem2)
  BY <1>1, <1>4, <1>5, <1>6, <1>8, <1>9 DEF Sealed
<1>12. Readable(q, hs, mem2)
  <2> SUFFICES ASSUME NEW h \in DOMAIN hs, Live(q.arena, h) PROVE Written(mem2, all[h], hs[h].data)
    BY DEF Readable
  <2>1. h \in DOMAIN views
    BY <1>1, <1>5, <1>6 DEF Live, Named
  <2> QED
    BY <1>1, <1>9, <2>1 DEF Readable, Live
<1>13. /\ \A v, w \in DOMAIN views : Beside(q, v, w) <=> Beside(p, v, w)
       /\ \A w \in DOMAIN views : ~Beside(q, k, w) /\ ~Beside(q, w, k)
  <2>1. \A v, w \in DOMAIN views : Beside(q, v, w) <=> Beside(p, v, w)
    BY <1>5 DEF Beside, Start
  <2>2. ASSUME NEW w \in DOMAIN views PROVE ~Beside(q, k, w) /\ ~Beside(q, w, k)
    <3>1. ViewOK(all[k]) /\ ViewOK(all[w]) /\ Away(all, k, w)
      BY <1>5 DEF ViewsOK
    <3> QED
      BY <3>1 DEF ViewOK, Away, Beside, Start, Stop
  <2> QED
    BY <2>1, <2>2
<1>14. \A h \in Handles : Live(q.arena, h) <=> Live(p.arena, h)
  BY <1>5, <1>6 DEF Live
<1>15. /\ HeldOn(q, k) = {}
       /\ \A l \in old : HeldOn(q, l) = HeldOn(p, l)
  BY <1>6, <1>13, <1>14 DEF HeldOn, Live
<1>16. Owned(q, hs)
  BY <1>1, <1>4, <1>6, <1>13, <1>15 DEF Owned
<1>17. Counted(q)
  <2>1. \A l \in DOMAIN q.entries : q.entries[l].handles <= Cardinality(HeldOn(q, l))
    <3>1. q.entries[k].handles <= Cardinality(HeldOn(q, k))
      BY <1>4, <1>15, FS_EmptySet
    <3>2. \A l \in old : q.entries[l].handles <= Cardinality(HeldOn(q, l))
      BY <1>1, <1>4, <1>15 DEF Counted
    <3> QED
      BY <1>4, <3>1, <3>2
  <2>2. IsFiniteSet(DOMAIN q.entries)
    BY <1>1, <1>4, FS_AddElement DEF Counted
  <2> DEFINE f == HandlesOf(p)
             g == HandlesOf(q)
  <2>3. DOMAIN f = old /\ DOMAIN g = DOMAIN q.entries /\ g[k] = 0 /\ \A l \in old : g[l] = f[l]
    BY <1>4 DEF HandlesOf
  <2>4. Naturals(f)
    BY <1>1 DEF Naturals, Summable, HandlesOf, Counted, Named
  <2>5. SumFunction(f) \in Nat
    BY <2>3, <2>4, SumNat DEF Naturals, SumFunction
  <2> HIDE DEF f, g
  <2>6. SumFunction(g) = SumFunction(f) + g[k]
    <3>1. DOMAIN g = DOMAIN f \cup {k} /\ k \notin DOMAIN f /\ g[k] \in Nat
          /\ \A l \in DOMAIN f : g[l] = f[l]
      BY <1>4, <2>3
    <3> QED
      BY <2>4, <3>1, TotalJoined
  <2>7. q.count = SumFunction(g)
    BY <1>1, <1>4, <2>3, <2>5, <2>6 DEF Counted, f
  <2> QED
    BY <2>1, <2>2, <2>7 DEF Counted, g
<1>18. ASSUME ~stale PROVE Exact(q, hs)
  <2>1. Exact(p, hs)
    BY <1>1, <1>18
  <2>2. \A l \in DOMAIN q.entries : q.entries[l].handles = Cardinality(HeldOn(q, l))
    BY <1>4, <1>15, <2>1, FS_EmptySet DEF Exact
  <2>3. ASSUME NEW h \in Handles, Live(q.arena, h)
        PROVE  h \in DOMAIN hs /\ hs[h].key \in DOMAIN q.entries /\ Beside(q, h, hs[h].key)
    <3>1. h \in DOMAIN hs /\ hs[h].key \in old /\ Beside(p, h, hs[h].key) /\ h \in DOMAIN views
      BY <1>14, <2>1, <2>3 DEF Exact, Live
    <3> QED
      BY <1>4, <1>6, <1>13, <3>1
  <2> QED
    BY <2>2, <2>3 DEF Exact
<1> QED
  BY <1>4, <1>5, <1>10, <1>11, <1>12, <1>16, <1>17, <1>18 DEF PoolOK, q, mem2

(* One more handle, on an entry of the contents asked for.                   *)
Handed(hs, h, k, d) ==
  [i \in DOMAIN hs \cup {h} |-> IF i = h THEN [key |-> k, data |-> d] ELSE hs[i]]

LEMMA InternedOK ==
  ASSUME NEW p, NEW hs, NEW mem, NEW stale, PoolOK(p, hs, mem, stale),
         NEW k \in DOMAIN p.entries, NEW d, p.entries[k].data = d,
         NEW h \in Handles, h \notin DOMAIN hs, ~Live(p.arena, h)
  PROVE  /\ PoolOK(Interned(p, k, h), Handed(hs, h, k, d), mem, stale)
         /\ DOMAIN Interned(p, k, h).entries = DOMAIN p.entries
         /\ Interned(p, k, h).entries[k].handles = p.entries[k].handles + 1
         /\ \A l \in DOMAIN p.entries : l # k => Interned(p, k, h).entries[l] = p.entries[l]
         /\ Interned(p, k, h).arena.views[k] = p.arena.views[k]
<1> DEFINE q == Interned(p, k, h)
           hs2 == Handed(hs, h, k, d)
           views == p.arena.views
           all == q.arena.views
           old == DOMAIN p.entries
<1>1. /\ ArenaOK(p.arena) /\ Named(p, hs) /\ Sealed(p, mem) /\ Readable(p, hs, mem)
      /\ Owned(p, hs) /\ Counted(p) /\ (~stale => Exact(p, hs))
  BY DEF PoolOK
<1>2. h \notin DOMAIN views /\ old \subseteq DOMAIN views /\ old \subseteq Keys
  BY <1>1 DEF Named, Live
<1>3. Shared(p.arena, q.arena, k, h, TRUE)
  <2>1. q.arena = Aliased(p.arena, k, h, TRUE)
    BY DEF Interned
  <2> QED
    BY <1>1, <1>2, <2>1, AliasedFacts
<1>4. \A l \in old : p.entries[l] \in [data : Tensors, handles : Nat]
  BY <1>1 DEF Named
<1>5. /\ DOMAIN q.entries = old /\ q.count = p.count + 1
      /\ \A l \in old : /\ q.entries[l].data = p.entries[l].data
                        /\ q.entries[l] \in [data : Tensors, handles : Nat]
                        /\ p.entries[l].handles \in Nat
                        /\ q.entries[l].handles = IF l = k THEN p.entries[l].handles + 1
                                                           ELSE p.entries[l].handles
                        /\ (l # k => q.entries[l] = p.entries[l])
  <2>1. q.entries = [p.entries EXCEPT ![k].handles = @ + 1] /\ q.count = p.count + 1
    BY DEF Interned
  <2>2. \A l \in old : l # k => q.entries[l] = p.entries[l]
    BY <2>1
  <2>3. q.entries[k] = [p.entries[k] EXCEPT !.handles = @ + 1]
    BY <2>1
  <2>4. \A l \in old : p.entries[l].handles \in Nat
    BY <1>4
  <2>5. /\ q.entries[k] \in [data : Tensors, handles : Nat] /\ q.entries[k].data = p.entries[k].data
        /\ q.entries[k].handles = p.entries[k].handles + 1
    BY <1>4, <2>3
  <2> QED
    BY <1>4, <2>1, <2>2, <2>4, <2>5
<1> HIDE DEF q
<1>6. /\ ArenaOK(q.arena) /\ DOMAIN all = DOMAIN views \cup {h}
      /\ \A w \in DOMAIN views : all[w] = views[w] /\ w # h
      /\ all[h].offset = views[k].offset /\ all[h].size = views[k].size
  BY <1>2, <1>3 DEF Shared
<1>7. /\ DOMAIN hs2 = DOMAIN hs \cup {h} /\ hs2[h].key = k /\ hs2[h].data = d
      /\ \A i \in DOMAIN hs : hs2[i] = hs[i] /\ i # h
  BY DEF Handed
<1> HIDE DEF hs2
<1>8. Named(q, hs2)
  <2>1. h \notin Keys
    BY PoolAssumption DEF Keys
  <2> QED
    BY <1>1, <1>5, <1>6, <1>7, <2>1 DEF Named
<1>9. Sealed(q, mem)
  BY <1>1, <1>2, <1>5, <1>6 DEF Sealed
<1>10. Readable(q, hs2, mem)
  <2>1. Written(mem, all[h], d)
    BY <1>1, <1>6 DEF Sealed, Written
  <2>2. ASSUME NEW i \in DOMAIN hs, Live(q.arena, i) PROVE Written(mem, all[i], hs2[i].data)
    BY <1>1, <1>6, <1>7, <2>2 DEF Readable, Live
  <2> QED
    BY <1>7, <2>1, <2>2 DEF Readable
<1>11. /\ \A v, w \in DOMAIN views : Beside(q, v, w) <=> Beside(p, v, w)
       /\ \A w \in DOMAIN views : Beside(q, h, w) <=> Beside(p, k, w)
  BY <1>2, <1>6 DEF Beside, Start
<1>12. \A i \in Handles : i # h => (Live(q.arena, i) <=> Live(p.arena, i))
  BY <1>6 DEF Live
<1>13. \A l \in old : l # k => ~Beside(p, k, l)
  BY <1>1 DEF Owned
<1>14. Beside(p, k, k) /\ Live(q.arena, h)
  BY <1>6 DEF Beside, Live
<1>15. /\ h \notin HeldOn(p, k) /\ HeldOn(q, k) = HeldOn(p, k) \cup {h}
       /\ \A l \in old : l # k => HeldOn(q, l) = HeldOn(p, l)
  <2>1. \A l \in old, i \in Handles : i # h => (i \in HeldOn(q, l) <=> i \in HeldOn(p, l))
    BY <1>2, <1>11, <1>12 DEF HeldOn, Live
  <2>2. \A l \in old : h \notin HeldOn(p, l) /\ (h \in HeldOn(q, l) <=> l = k)
    BY <1>2, <1>11, <1>13, <1>14 DEF HeldOn, Live
  <2>3. \A l : HeldOn(p, l) \subseteq Handles /\ HeldOn(q, l) \subseteq Handles
    BY DEF HeldOn
  <2> QED
    BY <2>1, <2>2, <2>3
<1>16. Cardinality(HeldOn(q, k)) = Cardinality(HeldOn(p, k)) + 1 /\ Cardinality(HeldOn(p, k)) \in Nat
  BY <1>1, <1>15, HeldFinite, FS_AddElement, FS_CardinalityType
<1>17. Owned(q, hs2)
  <2>1. \A l, m \in old : Beside(q, l, m) => l = m
    BY <1>1, <1>2, <1>11 DEF Owned
  <2>2. \A l \in old : \A i \in HeldOn(q, l) : i \in DOMAIN hs2 /\ hs2[i].key = l
    <3>1. \A l \in old : \A i \in HeldOn(p, l) : i \in DOMAIN hs /\ hs[i].key = l
      BY <1>1 DEF Owned
    <3> QED
      BY <1>7, <1>15, <3>1
  <2> QED
    BY <1>5, <2>1, <2>2 DEF Owned
<1>18. Counted(q)
  <2>1. \A l \in DOMAIN q.entries : q.entries[l].handles <= Cardinality(HeldOn(q, l))
    <3>1. \A l \in old : p.entries[l].handles <= Cardinality(HeldOn(p, l))
      BY <1>1 DEF Counted
    <3>2. q.entries[k].handles <= Cardinality(HeldOn(q, k))
      BY <1>5, <1>16, <3>1
    <3>3. \A l \in old : l # k => q.entries[l].handles <= Cardinality(HeldOn(q, l))
      BY <1>5, <1>15, <3>1
    <3> QED
      BY <1>5, <3>2, <3>3
  <2> DEFINE f == HandlesOf(p)
             g == HandlesOf(q)
  <2>2. /\ DOMAIN f = old /\ DOMAIN g = old /\ g[k] = f[k] + 1 /\ f[k] \in Nat
        /\ \A l \in DOMAIN f : l # k => g[l] = f[l]
    BY <1>5 DEF HandlesOf
  <2>3. Naturals(f)
    BY <1>1, <1>5 DEF Naturals, Summable, HandlesOf, Counted
  <2>4. SumFunction(f) \in Nat
    BY <2>3, SumNat DEF Naturals, SumFunction
  <2> HIDE DEF f, g
  <2>5. SumFunction(g) = SumFunction(f) - f[k] + g[k]
    <3>1. k \in DOMAIN f /\ DOMAIN g = DOMAIN f /\ g[k] \in Nat
      BY <2>2
    <3> QED
      BY <2>2, <2>3, <3>1, TotalChanged
  <2>6. q.count = SumFunction(g)
    <3>1. p.count = SumFunction(f)
      BY <1>1 DEF Counted, f
    <3> QED
      BY <1>5, <2>2, <2>4, <2>5, <3>1
  <2>7. IsFiniteSet(DOMAIN q.entries)
    BY <1>1, <1>5 DEF Counted
  <2> QED
    BY <2>1, <2>6, <2>7 DEF Counted, g
<1>19. ASSUME ~stale PROVE Exact(q, hs2)
  <2>1. Exact(p, hs)
    BY <1>1, <1>19
  <2>2. \A l \in DOMAIN q.entries : q.entries[l].handles = Cardinality(HeldOn(q, l))
    <3>1. \A l \in old : p.entries[l].handles = Cardinality(HeldOn(p, l))
      BY <2>1 DEF Exact
    <3>2. q.entries[k].handles = Cardinality(HeldOn(q, k))
      BY <1>5, <1>16, <3>1
    <3>3. \A l \in old : l # k => q.entries[l].handles = Cardinality(HeldOn(q, l))
      BY <1>5, <1>15, <3>1
    <3> QED
      BY <1>5, <3>2, <3>3
  <2>3. ASSUME NEW i \in Handles, Live(q.arena, i)
        PROVE  i \in DOMAIN hs2 /\ hs2[i].key \in DOMAIN q.entries /\ Beside(q, i, hs2[i].key)
    <3>1. CASE i = h
      BY <1>2, <1>5, <1>7, <1>11, <1>14, <3>1
    <3>2. CASE i # h
      <4>1. Live(p.arena, i) /\ i \in DOMAIN hs /\ hs[i].key \in old /\ Beside(p, i, hs[i].key)
        BY <1>12, <2>1, <2>3, <3>2 DEF Exact
      <4> QED
        BY <1>2, <1>5, <1>7, <1>11, <4>1 DEF Live
    <3> QED
      BY <3>1, <3>2
  <2> QED
    BY <2>2, <2>3 DEF Exact
<1> QED
  BY <1>2, <1>5, <1>6, <1>8, <1>9, <1>10, <1>17, <1>18, <1>19 DEF PoolOK, q, hs2

(* A view released, which may be gone already.                               *)
LEMMA ViewReleasedFacts ==
  ASSUME NEW a, ArenaOK(a), NEW v, NEW b, b = ViewReleased(a, v)
  PROVE  Dropped(a, b, v)
<1>1. CASE Live(a, v)
  BY <1>1, ReleasedFacts DEF ViewReleased, Live
<1>2. CASE ~Live(a, v)
  BY <1>2 DEF ViewReleased, Live, Dropped
<1> QED
  BY <1>1, <1>2

Unhanded(hs, h) == Restrict(hs, DOMAIN hs \ {h})

(* A handle given back: its view goes and its entry counts one less.         *)
Lowered(p, k, h) == [arena |-> ViewReleased(p.arena, h),
                     entries |-> [p.entries EXCEPT ![k].handles = @ - 1],
                     count |-> p.count - 1]

LEMMA LoweredOK ==
  ASSUME NEW p, NEW hs, NEW mem, NEW stale, PoolOK(p, hs, mem, stale), NEW h \in DOMAIN hs,
         NEW k \in DOMAIN p.entries, hs[h].key = k, p.entries[k].handles >= 1,
         NEW later, later <=> (stale \/ ~Live(p.arena, h))
  PROVE  /\ PoolOK(Lowered(p, k, h), Unhanded(hs, h), mem, later)
         /\ DOMAIN Lowered(p, k, h).entries = DOMAIN p.entries
         /\ Lowered(p, k, h).entries[k].handles = p.entries[k].handles - 1
         /\ \A l \in DOMAIN p.entries : l # k => Lowered(p, k, h).entries[l] = p.entries[l]
<1> DEFINE q == Lowered(p, k, h)
           hs2 == Unhanded(hs, h)
           views == p.arena.views
           all == q.arena.views
           old == DOMAIN p.entries
<1>1. /\ ArenaOK(p.arena) /\ Named(p, hs) /\ Sealed(p, mem) /\ Readable(p, hs, mem)
      /\ Owned(p, hs) /\ Counted(p) /\ (~stale => Exact(p, hs))
  BY DEF PoolOK
<1>2. Dropped(p.arena, q.arena, h)
  <2>1. q.arena = ViewReleased(p.arena, h)
    BY DEF Lowered
  <2> QED
    BY <1>1, <2>1, ViewReleasedFacts
<1>3. h \in Handles /\ h \notin Keys /\ old \subseteq DOMAIN views /\ old \subseteq Keys /\ h \notin old
  BY <1>1, PoolAssumption DEF Named, Keys
<1>4. \A l \in old : p.entries[l] \in [data : Tensors, handles : Nat]
  BY <1>1 DEF Named
<1>5. /\ DOMAIN q.entries = old /\ q.count = p.count - 1
      /\ \A l \in old : /\ q.entries[l].data = p.entries[l].data
                        /\ q.entries[l] \in [data : Tensors, handles : Nat]
                        /\ p.entries[l].handles \in Nat
                        /\ q.entries[l].handles = IF l = k THEN p.entries[l].handles - 1
                                                           ELSE p.entries[l].handles
                        /\ (l # k => q.entries[l] = p.entries[l])
  <2>1. q.entries = [p.entries EXCEPT ![k].handles = @ - 1] /\ q.count = p.count - 1
    BY DEF Lowered
  <2>2. \A l \in old : l # k => q.entries[l] = p.entries[l]
    BY <2>1
  <2>3. q.entries[k] = [p.entries[k] EXCEPT !.handles = @ - 1]
    BY <2>1
  <2>4. \A l \in old : p.entries[l].handles \in Nat
    BY <1>4
  <2>5. p.entries[k].handles - 1 \in Nat
    BY <2>4
  <2>6. /\ q.entries[k] \in [data : Tensors, handles : Nat] /\ q.entries[k].data = p.entries[k].data
        /\ q.entries[k].handles = p.entries[k].handles - 1
    BY <1>4, <2>3, <2>5
  <2> QED
    BY <1>4, <2>1, <2>2, <2>4, <2>6
<1> HIDE DEF q
<1>6. /\ ArenaOK(q.arena) /\ DOMAIN all = DOMAIN views \ {h}
      /\ \A w \in DOMAIN all : all[w] = views[w] /\ w \in DOMAIN views /\ w # h
  BY <1>2 DEF Dropped
<1>7. /\ DOMAIN hs2 = DOMAIN hs \ {h}
      /\ \A i \in DOMAIN hs2 : hs2[i] = hs[i] /\ i \in DOMAIN hs /\ i # h
  BY DEF Unhanded, Restrict
<1> HIDE DEF hs2
<1>8. Named(q, hs2)
  BY <1>1, <1>3, <1>5, <1>6, <1>7 DEF Named
<1>9. Sealed(q, mem)
  BY <1>1, <1>3, <1>5, <1>6 DEF Sealed
<1>10. Readable(q, hs2, mem)
  BY <1>1, <1>6, <1>7 DEF Readable, Live
<1>11. \A v, w \in DOMAIN all : Beside(q, v, w) <=> Beside(p, v, w)
  BY <1>6 DEF Beside, Start
<1>12. \A i : Live(q.arena, i) <=> Live(p.arena, i) /\ i # h
  BY <1>6 DEF Live
<1>13. \A l \in old : l \in DOMAIN all
  BY <1>3, <1>6
<1>14. /\ \A l \in old : HeldOn(q, l) = HeldOn(p, l) \ {h}
       /\ \A l \in old : l # k => h \notin HeldOn(p, l)
  <2>1. \A l \in old : HeldOn(q, l) = HeldOn(p, l) \ {h}
    <3> SUFFICES ASSUME NEW l \in old, NEW i \in Handles
                 PROVE  i \in HeldOn(q, l) <=> i \in HeldOn(p, l) /\ i # h
      BY DEF HeldOn
    <3>1. i \in DOMAIN all => (Beside(q, i, l) <=> Beside(p, i, l))
      BY <1>11, <1>13
    <3>2. i \in DOMAIN all <=> Live(p.arena, i) /\ i # h
      BY <1>6 DEF Live
    <3> QED
      BY <1>12, <3>1, <3>2 DEF HeldOn
  <2>2. \A l \in old : l # k => h \notin HeldOn(p, l)
    BY <1>1 DEF Owned
  <2> QED
    BY <2>1, <2>2
<1>15. \A l \in old : l # k => HeldOn(q, l) = HeldOn(p, l)
  BY <1>14
<1>16. /\ Cardinality(HeldOn(p, k)) \in Nat /\ Cardinality(HeldOn(q, k)) \in Nat
       /\ Cardinality(HeldOn(q, k)) >= Cardinality(HeldOn(p, k)) - 1
       /\ h \in HeldOn(p, k) => Cardinality(HeldOn(q, k)) = Cardinality(HeldOn(p, k)) - 1
  <2>1. IsFiniteSet(HeldOn(p, k)) /\ IsFiniteSet(HeldOn(q, k))
    BY <1>1, <1>6, HeldFinite
  <2>2. Cardinality(HeldOn(p, k)) \in Nat /\ Cardinality(HeldOn(q, k)) \in Nat
    BY <2>1, FS_CardinalityType
  <2>3. HeldOn(q, k) = HeldOn(p, k) \ {h}
    BY <1>14
  <2>4. ASSUME h \in HeldOn(p, k)
        PROVE  Cardinality(HeldOn(q, k)) = Cardinality(HeldOn(p, k)) - 1
    BY <2>1, <2>3, <2>4, FS_RemoveElement
  <2>5. ASSUME h \notin HeldOn(p, k) PROVE HeldOn(q, k) = HeldOn(p, k)
    BY <2>3, <2>5
  <2> QED
    BY <2>2, <2>4, <2>5
<1>17. Owned(q, hs2)
  <2>1. \A l, m \in old : Beside(q, l, m) => l = m
    BY <1>1, <1>11, <1>13 DEF Owned
  <2>2. ASSUME NEW l \in old, NEW i \in HeldOn(q, l) PROVE i \in DOMAIN hs2 /\ hs2[i].key = l
    <3>1. i \in HeldOn(p, l) /\ i # h
      BY <1>14, <2>2
    <3>2. i \in DOMAIN hs /\ hs[i].key = l
      BY <1>1, <3>1 DEF Owned
    <3> QED
      BY <1>7, <3>1, <3>2
  <2> QED
    BY <1>5, <2>1, <2>2 DEF Owned
<1>18. Counted(q)
  <2>1. \A l \in DOMAIN q.entries : q.entries[l].handles <= Cardinality(HeldOn(q, l))
    <3>1. \A l \in old : p.entries[l].handles <= Cardinality(HeldOn(p, l))
      BY <1>1 DEF Counted
    <3>2. q.entries[k].handles <= Cardinality(HeldOn(q, k))
      BY <1>5, <1>16, <3>1
    <3>3. \A l \in old : l # k => q.entries[l].handles <= Cardinality(HeldOn(q, l))
      BY <1>5, <1>15, <3>1
    <3> QED
      BY <1>5, <3>2, <3>3
  <2> DEFINE f == HandlesOf(p)
             g == HandlesOf(q)
  <2>2. /\ DOMAIN f = old /\ DOMAIN g = old /\ g[k] = f[k] - 1 /\ f[k] \in Nat /\ f[k] >= 1
        /\ \A l \in DOMAIN f : l # k => g[l] = f[l]
    BY <1>5 DEF HandlesOf
  <2>3. Naturals(f)
    BY <1>1, <1>5 DEF Naturals, Summable, HandlesOf, Counted
  <2>4. SumFunction(f) \in Nat
    BY <2>3, SumNat DEF Naturals, SumFunction
  <2> HIDE DEF f, g
  <2>5. SumFunction(g) = SumFunction(f) - f[k] + g[k]
    <3>1. k \in DOMAIN f /\ DOMAIN g = DOMAIN f /\ g[k] \in Nat
      BY <2>2
    <3> QED
      BY <2>2, <2>3, <3>1, TotalChanged
  <2>6. q.count = SumFunction(g)
    <3>1. p.count = SumFunction(f)
      BY <1>1 DEF Counted, f
    <3> QED
      BY <1>5, <2>2, <2>4, <2>5, <3>1
  <2>7. IsFiniteSet(DOMAIN q.entries)
    BY <1>1, <1>5 DEF Counted
  <2> QED
    BY <2>1, <2>6, <2>7 DEF Counted, g
<1>19. ASSUME ~later PROVE Exact(q, hs2)
  <2>1. Exact(p, hs) /\ Live(p.arena, h)
    BY <1>1, <1>19
  <2>2. h \in HeldOn(p, k)
    BY <1>3, <2>1 DEF Exact, HeldOn
  <2>3. \A l \in DOMAIN q.entries : q.entries[l].handles = Cardinality(HeldOn(q, l))
    <3>1. \A l \in old : p.entries[l].handles = Cardinality(HeldOn(p, l))
      BY <2>1 DEF Exact
    <3>2. q.entries[k].handles = Cardinality(HeldOn(q, k))
      BY <1>5, <1>16, <2>2, <3>1
    <3>3. \A l \in old : l # k => q.entries[l].handles = Cardinality(HeldOn(q, l))
      BY <1>5, <1>15, <3>1
    <3> QED
      BY <1>5, <3>2, <3>3
  <2>4. ASSUME NEW i \in Handles, Live(q.arena, i)
        PROVE  i \in DOMAIN hs2 /\ hs2[i].key \in DOMAIN q.entries /\ Beside(q, i, hs2[i].key)
    <3>1. Live(p.arena, i) /\ i # h
      BY <1>12, <2>4
    <3>2. i \in DOMAIN hs /\ hs[i].key \in old /\ Beside(p, i, hs[i].key)
      BY <2>1, <3>1 DEF Exact
    <3>3. i \in DOMAIN all
      BY <2>4 DEF Live
    <3> QED
      BY <1>5, <1>7, <1>11, <1>13, <3>1, <3>2, <3>3
  <2> QED
    BY <2>3, <2>4 DEF Exact
<1> QED
  BY <1>5, <1>6, <1>8, <1>9, <1>10, <1>17, <1>18, <1>19 DEF PoolOK, q, hs2

(* An entry that counts no handle any more goes, with its view.              *)
Emptied(p, k) == [arena |-> ViewReleased(p.arena, k),
                  entries |-> Restrict(p.entries, DOMAIN p.entries \ {k}), count |-> p.count]

LEMMA EmptiedOK ==
  ASSUME NEW p, NEW hs, NEW mem, NEW stale, PoolOK(p, hs, mem, stale),
         NEW k \in DOMAIN p.entries, p.entries[k].handles = 0
  PROVE  /\ PoolOK(Emptied(p, k), hs, mem, stale)
         /\ DOMAIN Emptied(p, k).entries = DOMAIN p.entries \ {k}
         /\ \A l \in DOMAIN Emptied(p, k).entries : Emptied(p, k).entries[l] = p.entries[l]
<1> DEFINE q == Emptied(p, k)
           views == p.arena.views
           all == q.arena.views
           old == DOMAIN p.entries
           new == DOMAIN q.entries
<1>1. /\ ArenaOK(p.arena) /\ Named(p, hs) /\ Sealed(p, mem) /\ Readable(p, hs, mem)
      /\ Owned(p, hs) /\ Counted(p) /\ (~stale => Exact(p, hs))
  BY DEF PoolOK
<1>2. Dropped(p.arena, q.arena, k)
  <2>1. q.arena = ViewReleased(p.arena, k)
    BY DEF Emptied
  <2> QED
    BY <1>1, <2>1, ViewReleasedFacts
<1>3. old \subseteq DOMAIN views /\ old \subseteq Keys /\ k \notin Handles /\ k \in Keys
  BY <1>1, PoolAssumption DEF Named, Keys
<1>4. /\ new = old \ {k} /\ q.count = p.count
      /\ \A l \in new : q.entries[l] = p.entries[l] /\ l \in old /\ l # k
  BY DEF Emptied, Restrict
<1> HIDE DEF q
<1>5. /\ ArenaOK(q.arena) /\ DOMAIN all = DOMAIN views \ {k}
      /\ \A w \in DOMAIN all : all[w] = views[w] /\ w \in DOMAIN views /\ w # k
  BY <1>2 DEF Dropped
<1>6. Named(q, hs)
  <2>1. DOMAIN all \subseteq Keys \cup Handles /\ new \subseteq Keys /\ DOMAIN hs \subseteq Handles
    BY <1>1, <1>4, <1>5 DEF Named
  <2>2. \A l \in Keys : l \in DOMAIN all <=> l \in new
    BY <1>1, <1>4, <1>5 DEF Named
  <2>3. \A l \in new : q.entries[l] \in [data : Tensors, handles : Nat]
    BY <1>1, <1>4 DEF Named
  <2> QED
    BY <2>1, <2>2, <2>3 DEF Named
<1>7. \A l \in new : l \in DOMAIN all
  BY <1>3, <1>4, <1>5
<1>8. Sealed(q, mem)
  BY <1>1, <1>4, <1>5, <1>7 DEF Sealed
<1>9. Readable(q, hs, mem)
  BY <1>1, <1>5 DEF Readable, Live
<1>10. \A v, w \in DOMAIN all : Beside(q, v, w) <=> Beside(p, v, w)
  BY <1>5 DEF Beside, Start
<1>11. \A i \in Handles : Live(q.arena, i) <=> Live(p.arena, i)
  BY <1>3, <1>5 DEF Live
<1>12. \A l \in new : HeldOn(q, l) = HeldOn(p, l)
  <2> SUFFICES ASSUME NEW l \in new, NEW i \in Handles
               PROVE  i \in HeldOn(q, l) <=> i \in HeldOn(p, l)
    BY DEF HeldOn
  <2>1. i \in DOMAIN all => (Beside(q, i, l) <=> Beside(p, i, l))
    BY <1>7, <1>10
  <2> QED
    BY <1>11, <2>1 DEF HeldOn, Live
<1>13. Owned(q, hs)
  <2>1. \A l, m \in new : Beside(q, l, m) => l = m
    BY <1>1, <1>4, <1>7, <1>10 DEF Owned
  <2>2. \A l \in new : \A i \in HeldOn(q, l) : i \in DOMAIN hs /\ hs[i].key = l
    BY <1>1, <1>4, <1>12 DEF Owned
  <2> QED
    BY <2>1, <2>2 DEF Owned
<1>14. Counted(q)
  <2>1. \A l \in new : q.entries[l].handles <= Cardinality(HeldOn(q, l))
    BY <1>1, <1>4, <1>12 DEF Counted
  <2> DEFINE f == HandlesOf(p)
             g == HandlesOf(q)
  <2>2. DOMAIN f = old /\ DOMAIN g = new /\ f[k] = 0 /\ \A l \in new : g[l] = f[l]
    BY <1>4 DEF HandlesOf
  <2>3. \A l \in old : p.entries[l].handles \in Nat
    <3>1. \A l \in old : p.entries[l] \in [data : Tensors, handles : Nat]
      BY <1>1 DEF Named
    <3> QED
      BY <3>1
  <2>4. Naturals(f)
    BY <1>1, <2>3 DEF Naturals, Summable, HandlesOf, Counted
  <2> HIDE DEF f, g
  <2>5. SumFunction(g) = SumFunction(f) - f[k] /\ SumFunction(f) \in Nat
    <3>1. k \in DOMAIN f /\ DOMAIN g = DOMAIN f \ {k} /\ \A l \in DOMAIN g : g[l] = f[l]
      BY <1>4, <2>2
    <3> QED
      BY <2>4, <3>1, TotalLeft
  <2>6. q.count = SumFunction(g)
    <3>1. p.count = SumFunction(f)
      BY <1>1 DEF Counted, f
    <3> QED
      BY <1>4, <2>2, <2>5, <3>1
  <2>7. IsFiniteSet(new)
    BY <1>1, <1>4, FS_Subset DEF Counted
  <2> QED
    BY <2>1, <2>6, <2>7 DEF Counted, g
<1>15. ASSUME ~stale PROVE Exact(q, hs)
  <2>1. Exact(p, hs)
    BY <1>1, <1>15
  <2>2. \A l \in new : q.entries[l].handles = Cardinality(HeldOn(q, l))
    BY <1>4, <1>12, <2>1 DEF Exact
  <2>3. HeldOn(p, k) = {}
    <3>1. Cardinality(HeldOn(p, k)) = 0
      BY <2>1 DEF Exact
    <3>2. IsFiniteSet(HeldOn(p, k))
      BY <1>1, HeldFinite
    <3> QED
      BY <3>1, <3>2, FS_EmptySet
  <2>4. ASSUME NEW i \in Handles, Live(q.arena, i)
        PROVE  i \in DOMAIN hs /\ hs[i].key \in new /\ Beside(q, i, hs[i].key)
    <3>1. Live(p.arena, i)
      BY <1>11, <2>4
    <3>2. i \in DOMAIN hs /\ hs[i].key \in old /\ Beside(p, i, hs[i].key)
      BY <2>1, <3>1 DEF Exact
    <3>3. hs[i].key # k
      BY <2>3, <3>1, <3>2 DEF HeldOn
    <3>4. hs[i].key \in new /\ i \in DOMAIN all
      BY <1>4, <2>4, <3>2, <3>3 DEF Live
    <3> QED
      BY <1>7, <1>10, <3>2, <3>4
  <2> QED
    BY <2>2, <2>4 DEF Exact
<1> QED
  BY <1>4, <1>5, <1>6, <1>8, <1>9, <1>13, <1>14, <1>15 DEF PoolOK, q

(* A handle the pool refuses: nothing changes for the entries.               *)
LEMMA RefusedOK ==
  ASSUME NEW p, NEW hs, NEW mem, NEW stale, PoolOK(p, hs, mem, stale), NEW h \in DOMAIN hs,
         hs[h].key \notin DOMAIN p.entries
  PROVE  PoolOK(p, Unhanded(hs, h), mem, stale)
<1> DEFINE hs2 == Unhanded(hs, h)
<1>1. /\ ArenaOK(p.arena) /\ Named(p, hs) /\ Sealed(p, mem) /\ Readable(p, hs, mem)
      /\ Owned(p, hs) /\ Counted(p) /\ (~stale => Exact(p, hs))
  BY DEF PoolOK
<1>2. /\ DOMAIN hs2 = DOMAIN hs \ {h}
      /\ \A i \in DOMAIN hs2 : hs2[i] = hs[i] /\ i \in DOMAIN hs
  BY DEF Unhanded, Restrict
<1> HIDE DEF hs2
<1>3. Named(p, hs2)
  BY <1>1, <1>2 DEF Named
<1>4. Readable(p, hs2, mem)
  BY <1>1, <1>2 DEF Readable
<1>5. Owned(p, hs2)
  BY <1>1, <1>2 DEF Owned
<1>6. ASSUME ~stale PROVE Exact(p, hs2)
  BY <1>1, <1>2, <1>6 DEF Exact
<1> QED
  BY <1>1, <1>3, <1>4, <1>5, <1>6 DEF PoolOK, hs2

-----------------------------------------------------------------------------
(* What ArenaOK says of the arena in the terms of its properties.             *)
LEMMA HoldsBytes ==
  ASSUME NEW r, r[1] \in Nat, r[2] \in Nat, NEW b
  PROVE  b \in Bytes(r) <=> b \in Int /\ Holds(r, b)
BY DEF Bytes, Holds, End

LEMMA FreeRanges ==
  ASSUME NEW a, FreeOK(a.free)
  PROVE  /\ \A r \in Ranges(a) : /\ r \in (0..Capacity) \X (1..Capacity)
                                 /\ r[1] \in Nat /\ r[2] \in Nat /\ r[2] >= 1 /\ End(r) <= Capacity
         /\ \A r, s \in Ranges(a) : r[1] + r[2] # s[1] /\ (r # s => Apart(r, s))
         /\ \A i, j \in DOMAIN a.free : a.free[i] = a.free[j] => i = j
         /\ \A b : (\E r \in Ranges(a) : Holds(r, b)) <=> InFree(a.free, b)
<1> DEFINE f == a.free
<1>1. f \in Seq(Spans) /\ \A r : r \in Ranges(a) <=> \E i \in DOMAIN f : r = f[i]
  BY DEF FreeOK, Ranges, ToSet
<1>2. ASSUME NEW i \in DOMAIN f
      PROVE  /\ f[i] \in (0..Capacity) \X (1..Capacity)
             /\ f[i][1] \in Nat /\ f[i][2] \in Nat /\ f[i][2] >= 1 /\ End(f[i]) <= Capacity
  <2>1. f[i] \in Spans /\ f[i][2] >= 1 /\ End(f[i]) <= Capacity
    BY <1>1 DEF FreeOK
  <2>2. f[i] = <<f[i][1], f[i][2]>> /\ f[i][1] \in Nat /\ f[i][2] \in Nat
    BY <2>1 DEF Spans
  <2>3. f[i][1] \in 0..Capacity /\ f[i][2] \in 1..Capacity
    BY <2>1, <2>2, ArenaAssumption DEF End
  <2> QED
    BY <2>1, <2>2, <2>3
<1>3. ASSUME NEW i \in DOMAIN f, NEW j \in DOMAIN f, i # j
      PROVE  Apart(f[i], f[j]) /\ f[i] # f[j] /\ End(f[i]) # f[j][1]
  <2>1. Apart(f[i], f[j])
    BY <1>3 DEF FreeOK, Apart
  <2>2. /\ f[i][1] \in Nat /\ f[i][2] \in Nat /\ f[i][2] >= 1
        /\ f[j][1] \in Nat /\ f[j][2] \in Nat /\ f[j][2] >= 1
    BY <1>2
  <2>3. f[i][1] # f[j][1] /\ End(f[i]) # f[j][1]
    BY <2>1, <2>2 DEF Apart, End
  <2> QED
    BY <2>1, <2>3
<1>4. ASSUME NEW i \in DOMAIN f PROVE End(f[i]) # f[i][1]
  BY <1>2 DEF End
<1>5. \A r, s \in Ranges(a) : End(r) # s[1] /\ (r # s => Apart(r, s))
  <2> SUFFICES ASSUME NEW i \in DOMAIN f, NEW j \in DOMAIN f
               PROVE  End(f[i]) # f[j][1] /\ (f[i] # f[j] => Apart(f[i], f[j]))
    BY <1>1
  <2> QED
    BY <1>3, <1>4
<1>6. \A b : (\E r \in Ranges(a) : Holds(r, b)) <=> InFree(f, b)
  BY <1>1 DEF Holds, InFree
<1>7. \A r \in Ranges(a) : /\ r \in (0..Capacity) \X (1..Capacity)
                           /\ r[1] \in Nat /\ r[2] \in Nat /\ r[2] >= 1 /\ End(r) <= Capacity
  BY <1>1, <1>2
<1>8. \A i, j \in DOMAIN f : f[i] = f[j] => i = j
  BY <1>3
<1>9. \A r, s \in Ranges(a) : r[1] + r[2] # s[1]
  BY <1>5 DEF End
<1> QED
  BY <1>5, <1>6, <1>7, <1>8, <1>9

LEMMA ViewedBlocks ==
  ASSUME NEW a, ViewsOK(a.views)
  PROVE  /\ Blocks(a) = BlocksOf(a.views)
         /\ \A r \in Blocks(a) : /\ r[1] \in Nat /\ r[2] \in Nat /\ r[2] >= 1 /\ End(r) <= Capacity
                                 /\ r[1] % Alignment = 0
         /\ \A r, s \in Blocks(a) : r # s => Disjoint(r, s)
         /\ \A b : (\E r \in Blocks(a) : Holds(r, b)) <=> \E v \in DOMAIN a.views : InView(a.views, v, b)
<1> DEFINE views == a.views
           Block(v) == <<views[v].offset, views[v].size>>
<1>1. \A r : r \in Blocks(a) <=> \E v \in DOMAIN views : r = Block(v)
  BY DEF Blocks
<1>2. ASSUME NEW v \in DOMAIN views
      PROVE  /\ Block(v)[1] = Start(views, v) /\ Block(v)[2] = views[v].size
             /\ End(Block(v)) = Stop(views, v)
             /\ Start(views, v) \in Nat /\ Stop(views, v) \in Nat
             /\ views[v].size \in Nat /\ views[v].size >= 1 /\ Stop(views, v) <= Capacity
             /\ Start(views, v) % Alignment = 0
  <2>1. ViewOK(views[v])
    BY DEF ViewsOK
  <2> QED
    BY <2>1 DEF ViewOK, Start, Stop, End
<1>3. ASSUME NEW v \in DOMAIN views, NEW w \in DOMAIN views, Block(v) # Block(w)
      PROVE  Disjoint(Block(v), Block(w))
  <2>1. Same(views, v, w) \/ Away(views, v, w)
    BY DEF ViewsOK
  <2>2. ~Same(views, v, w)
    BY <1>3 DEF Same, Start
  <2> QED
    BY <1>2, <2>1, <2>2 DEF Away, Disjoint
<1>4. ASSUME NEW b, NEW v \in DOMAIN views PROVE Holds(Block(v), b) <=> InView(views, v, b)
  BY <1>2 DEF Holds, InView
<1> HIDE DEF Block
<1>5. \A r \in Blocks(a) : /\ r[1] \in Nat /\ r[2] \in Nat /\ r[2] >= 1 /\ End(r) <= Capacity
                           /\ r[1] % Alignment = 0
  BY <1>1, <1>2
<1>6. \A r, s \in Blocks(a) : r # s => Disjoint(r, s)
  BY <1>1, <1>3
<1>7. \A b : (\E r \in Blocks(a) : Holds(r, b)) <=> \E v \in DOMAIN views : InView(views, v, b)
  BY <1>1, <1>4
<1>8. Blocks(a) = BlocksOf(views)
  BY DEF Blocks, BlocksOf
<1> QED
  BY <1>5, <1>6, <1>7, <1>8

LEMMA ArenaPartitioned ==
  ASSUME NEW a, ArenaOK(a)
  PROVE  Partition(a) /\ BlocksAligned(a) /\ Accounted(a) /\ ArenaTypeOK(a)
<1>1. FreeOK(a.free) /\ ViewsOK(a.views) /\ Covered(a.free, a.views) /\ RefsOK(a.refs, a.views)
      /\ a.live = SizeSum(BlocksOf(a.views))
  BY DEF ArenaOK
<1> DEFINE R == Ranges(a)
           B == Blocks(a)
<1>2. /\ \A r \in R : /\ r \in (0..Capacity) \X (1..Capacity)
                      /\ r[1] \in Nat /\ r[2] \in Nat /\ r[2] >= 1 /\ End(r) <= Capacity
      /\ \A r, s \in R : r # s => Apart(r, s)
      /\ \A i, j \in DOMAIN a.free : a.free[i] = a.free[j] => i = j
      /\ \A b : (\E r \in R : Holds(r, b)) <=> InFree(a.free, b)
  BY <1>1, FreeRanges
<1>3. /\ B = BlocksOf(a.views)
      /\ \A r \in B : /\ r[1] \in Nat /\ r[2] \in Nat /\ r[2] >= 1 /\ End(r) <= Capacity
                      /\ r[1] % Alignment = 0
      /\ \A r, s \in B : r # s => Disjoint(r, s)
      /\ \A b : (\E r \in B : Holds(r, b)) <=> \E v \in DOMAIN a.views : InView(a.views, v, b)
  BY <1>1, ViewedBlocks
<1> HIDE DEF R, B
<1>4. \A r \in R \cup B : r[1] \in Nat /\ r[2] \in Nat /\ r[2] >= 1 /\ End(r) <= Capacity
  BY <1>2, <1>3
<1>5. ASSUME NEW r \in R \cup B, NEW b
      PROVE  /\ b \in Bytes(r) <=> b \in Int /\ Holds(r, b)
             /\ b \in Bytes(r) => b \in 0..(Capacity - 1)
  <2>1. b \in Bytes(r) <=> b \in Int /\ Holds(r, b)
    BY <1>4, HoldsBytes
  <2>2. b \in Bytes(r) => b \in 0..(Capacity - 1)
    BY <1>4, <2>1, ArenaAssumption DEF Holds, End
  <2> QED
    BY <2>1, <2>2
<1>6. ASSUME NEW r \in R, NEW s \in B, NEW b, b \in Bytes(r), b \in Bytes(s) PROVE FALSE
  <2>1. Holds(r, b) /\ Holds(s, b) /\ b \in 0..(Capacity - 1)
    BY <1>5, <1>6
  <2>2. InFree(a.free, b) /\ \E v \in DOMAIN a.views : InView(a.views, v, b)
    BY <1>2, <1>3, <2>1
  <2> QED
    BY <1>1, <2>1, <2>2 DEF Covered
<1>7. ASSUME NEW r \in R \cup B, NEW s \in R \cup B, r # s PROVE Bytes(r) \cap Bytes(s) = {}
  <2> SUFFICES ASSUME NEW b, b \in Bytes(r), b \in Bytes(s) PROVE FALSE
    OBVIOUS
  <2>1. b \in Int /\ Holds(r, b) /\ Holds(s, b)
    BY <1>5
  <2>2. r[1] \in Nat /\ r[2] \in Nat /\ s[1] \in Nat /\ s[2] \in Nat
    BY <1>4
  <2>3. CASE r \in R /\ s \in R
    <3>1. Apart(r, s)
      BY <1>2, <1>7, <2>3
    <3> QED
      BY <2>1, <2>2, <3>1 DEF Apart, Holds, End
  <2>4. CASE r \in B /\ s \in B
    <3>1. Disjoint(r, s)
      BY <1>3, <1>7, <2>4
    <3> QED
      BY <2>1, <2>2, <3>1 DEF Disjoint, Holds, End
  <2>5. CASE r \in R /\ s \in B
    BY <1>6, <2>5
  <2>6. CASE r \in B /\ s \in R
    BY <1>6, <2>6
  <2> QED
    BY <2>3, <2>4, <2>5, <2>6
<1>8. R \cap B = {}
  <2> SUFFICES ASSUME NEW r \in R, r \in B PROVE FALSE
    OBVIOUS
  <2>1. Holds(r, r[1]) /\ r[1] \in Int
    BY <1>4 DEF Holds, End
  <2>2. r[1] \in Bytes(r)
    BY <1>5, <2>1
  <2> QED
    BY <1>6, <2>2
<1>9. UNION {Bytes(r) : r \in R \cup B} = 0..(Capacity - 1)
  <2>1. ASSUME NEW b, b \in UNION {Bytes(r) : r \in R \cup B} PROVE b \in 0..(Capacity - 1)
    BY <1>5, <2>1
  <2>2. ASSUME NEW b \in 0..(Capacity - 1) PROVE b \in UNION {Bytes(r) : r \in R \cup B}
    <3>1. InFree(a.free, b) \/ \E v \in DOMAIN a.views : InView(a.views, v, b)
      BY <1>1 DEF Covered
    <3>2. \E r \in R \cup B : Holds(r, b)
      BY <1>2, <1>3, <3>1
    <3>3. b \in Int
      OBVIOUS
    <3>4. \E r \in R \cup B : b \in Bytes(r)
      BY <1>5, <3>2, <3>3
    <3> QED
      BY <3>4
  <2> QED
    BY <2>1, <2>2
<1>10. Partition(a)
  BY <1>2, <1>7, <1>8, <1>9 DEF Partition, R, B
<1>11. BlocksAligned(a)
  BY <1>3 DEF BlocksAligned, B
<1>12. Accounted(a)
  <2>1. DOMAIN a.refs = {b[1] : b \in B}
    <3>1. DOMAIN a.refs = {Start(a.views, v) : v \in DOMAIN a.views}
      BY <1>1 DEF RefsOK
    <3>2. \A b : b \in B <=> \E v \in DOMAIN a.views : b = <<a.views[v].offset, a.views[v].size>>
      BY DEF B, Blocks
    <3>3. ASSUME NEW o \in DOMAIN a.refs PROVE \E b \in B : o = b[1]
      <4>1. PICK v \in DOMAIN a.views : o = a.views[v].offset
        BY <3>1 DEF Start
      <4>2. <<a.views[v].offset, a.views[v].size>> \in B
        BY <3>2
      <4> QED
        BY <4>1, <4>2
    <3>4. ASSUME NEW b \in B PROVE b[1] \in DOMAIN a.refs
      <4>1. PICK v \in DOMAIN a.views : b = <<a.views[v].offset, a.views[v].size>>
        BY <3>2
      <4> QED
        BY <3>1, <4>1 DEF Start
    <3> QED
      BY <3>3, <3>4
  <2>2. \A o \in DOMAIN a.refs :
          a.refs[o] = Cardinality({v \in DOMAIN a.views : a.views[v].offset = o})
    BY <1>1 DEF RefsOK, At, Start
  <2>3. a.live = SumFunction([b \in B |-> b[2]])
    BY <1>1, <1>3 DEF SizeSum
  <2> QED
    BY <2>1, <2>2, <2>3 DEF Accounted, B
<1>13. ArenaTypeOK(a)
  BY <1>1, <1>2 DEF ArenaTypeOK, ViewsOK, ViewOK, R
<1> QED
  BY <1>10, <1>11, <1>12, <1>13

-----------------------------------------------------------------------------
(* The invariant holds at first, after a clear, and through every action.     *)
LEMMA EmptyOK ==
  ASSUME NEW hs, DOMAIN hs \subseteq Handles, NEW mem, NEW stale
  PROVE  PoolOK(EmptyPool, hs, mem, stale) /\ Positive(EmptyPool)
<1> DEFINE p == EmptyPool
<1>1. p.arena = EmptyArena /\ DOMAIN p.entries = {} /\ p.count = 0
  BY DEF EmptyPool
<1>2. ArenaOK(p.arena) /\ DOMAIN p.arena.views = {}
  BY <1>1, EmptyArenaOK
<1> HIDE DEF p
<1>3. Named(p, hs) /\ Sealed(p, mem) /\ Readable(p, hs, mem) /\ Owned(p, hs) /\ Exact(p, hs)
  BY <1>1, <1>2 DEF Named, Sealed, Readable, Owned, Exact, Live
<1>4. Counted(p)
  <2> DEFINE f == HandlesOf(p)
  <2>1. DOMAIN f = {}
    BY <1>1 DEF HandlesOf
  <2> HIDE DEF f
  <2>2. SumFunction(f) = 0
    BY <2>1, TotalOfNone
  <2> QED
    BY <1>1, <2>2, FS_EmptySet DEF Counted, f
<1> QED
  BY <1>1, <1>2, <1>3, <1>4 DEF PoolOK, Positive, p

LEMMA PoolInvInit == PoolInit => PoolInv
<1> SUFFICES ASSUME PoolInit PROVE PoolInv
  OBVIOUS
<1>1. pool = EmptyPool /\ DOMAIN handles = {} /\ spoiled = FALSE
  BY DEF PoolInit
<1>2. DOMAIN memory = 0..(Capacity - 1)
  BY DEF PoolInit
<1>3. PoolOK(pool, handles, memory, spoiled) /\ Positive(pool)
  BY <1>1, EmptyOK
<1> QED
  BY <1>1, <1>2, <1>3 DEF PoolInv

LEMMA InternKnownKeeps ==
  ASSUME PoolInv, NEW h \in Handles, NEW d \in Tensors, NEW k, InternKnown(d, k, h)
  PROVE  PoolInv'
<1>1. /\ PoolOK(pool, handles, memory, spoiled) /\ Positive(pool)
      /\ DOMAIN memory = 0..(Capacity - 1) /\ spoiled \in BOOLEAN
  BY DEF PoolInv
<1>2. /\ h \notin DOMAIN handles /\ ~Live(pool.arena, h) /\ k \in DOMAIN pool.entries
      /\ pool.entries[k].data = d
      /\ pool' = Interned(pool, k, h) /\ handles' = Handed(handles, h, k, d)
      /\ memory' = memory /\ spoiled' = spoiled
  BY DEF InternKnown, Free, Known, Hand, Handed
<1>3. /\ PoolOK(pool', handles', memory, spoiled) /\ DOMAIN pool'.entries = DOMAIN pool.entries
      /\ pool'.entries[k].handles = pool.entries[k].handles + 1
      /\ \A l \in DOMAIN pool.entries : l # k => pool'.entries[l] = pool.entries[l]
  BY <1>1, <1>2, InternedOK
<1>4. Positive(pool')
  <2>1. pool.entries[k].handles \in Nat
    <3>1. pool.entries[k] \in [data : Tensors, handles : Nat]
      BY <1>1, <1>2 DEF PoolOK, Named
    <3> QED
      BY <3>1
  <2>2. pool'.entries[k].handles >= 1
    BY <1>3, <2>1
  <2>3. \A l \in DOMAIN pool.entries : l # k => pool'.entries[l].handles >= 1
    BY <1>1, <1>3 DEF Positive
  <2> QED
    BY <1>3, <2>2, <2>3 DEF Positive
<1> QED
  BY <1>1, <1>2, <1>3, <1>4 DEF PoolInv

LEMMA InternNewKeeps ==
  ASSUME PoolInv, NEW h \in Handles, NEW d \in Tensors, NEW k \in Keys, InternNew(d, k, h)
  PROVE  PoolInv'
<1>1. /\ PoolOK(pool, handles, memory, spoiled) /\ Positive(pool)
      /\ DOMAIN memory = 0..(Capacity - 1) /\ spoiled \in BOOLEAN
  BY DEF PoolInv
<1> DEFINE q == Mastered(pool, d, k)
<1>2. /\ h \notin DOMAIN handles /\ ~Live(pool.arena, h) /\ k \notin DOMAIN pool.entries
      /\ Fitting(pool.arena, SizeOf[d]) # {}
      /\ pool' = Interned(q, k, h) /\ handles' = Handed(handles, h, k, d)
      /\ memory' = Filled(memory, pool'.arena.views[k], d) /\ spoiled' = spoiled
  BY DEF InternNew, Free, Known, Hand, Handed, InternedNew, Mastered, Filled
<1> DEFINE mem == Filled(memory, q.arena.views[k], d)
<1>3. /\ PoolOK(q, handles, mem, spoiled) /\ DOMAIN q.entries = DOMAIN pool.entries \cup {k}
      /\ q.entries[k].data = d /\ q.entries[k].handles = 0
      /\ \A l \in DOMAIN pool.entries : q.entries[l] = pool.entries[l]
      /\ DOMAIN q.arena.views = DOMAIN pool.arena.views \cup {k}
  BY <1>1, <1>2, MasteredOK
<1>4. DOMAIN mem = 0..(Capacity - 1)
  BY <1>1 DEF Filled
<1>5. h # k
  BY PoolAssumption DEF Keys
<1>6. ~Live(q.arena, h)
  BY <1>2, <1>3, <1>5 DEF Live
<1> HIDE DEF q, mem
<1>7. /\ PoolOK(pool', handles', mem, spoiled) /\ DOMAIN pool'.entries = DOMAIN q.entries
      /\ pool'.entries[k].handles = q.entries[k].handles + 1
      /\ \A l \in DOMAIN q.entries : l # k => pool'.entries[l] = q.entries[l]
      /\ pool'.arena.views[k] = q.arena.views[k]
  BY <1>2, <1>3, <1>6, InternedOK
<1>8. memory' = mem
  BY <1>2, <1>7 DEF mem
<1>9. Positive(pool')
  <2>1. pool'.entries[k].handles >= 1
    BY <1>3, <1>7
  <2>2. \A l \in DOMAIN pool.entries : pool'.entries[l].handles >= 1
    <3>1. \A l \in DOMAIN pool.entries : pool'.entries[l] = pool.entries[l]
      BY <1>2, <1>3, <1>7
    <3> QED
      BY <1>1, <3>1 DEF Positive
  <2> QED
    BY <1>3, <1>7, <2>1, <2>2 DEF Positive
<1> QED
  BY <1>1, <1>2, <1>4, <1>7, <1>8, <1>9 DEF PoolInv

(* A release, in the terms of its two halves.                                *)
LEMMA HandleReleasedHalves ==
  ASSUME NEW p, NEW k \in DOMAIN p.entries, NEW h, p.entries[k].handles \in Nat
  PROVE  HandleReleased(p, k, h) = IF p.entries[k].handles > 1 THEN Lowered(p, k, h)
                                                              ELSE Emptied(Lowered(p, k, h), k)
<1>1. CASE p.entries[k].handles > 1
  BY <1>1 DEF HandleReleased, Lowered
<1>2. CASE ~(p.entries[k].handles > 1)
  <2> DEFINE lower == [p.entries EXCEPT ![k].handles = @ - 1]
  <2>1. Restrict(lower, DOMAIN lower \ {k}) = Restrict(p.entries, DOMAIN p.entries \ {k})
    <3>1. DOMAIN lower = DOMAIN p.entries /\ \A l \in DOMAIN p.entries \ {k} : lower[l] = p.entries[l]
      OBVIOUS
    <3> HIDE DEF lower
    <3> QED
      BY <3>1 DEF Restrict
  <2>2. /\ Lowered(p, k, h).entries = lower /\ Lowered(p, k, h).count = p.count - 1
        /\ Lowered(p, k, h).arena = ViewReleased(p.arena, h)
    BY DEF Lowered
  <2> HIDE DEF lower
  <2>3. Emptied(Lowered(p, k, h), k)
          = [arena |-> ViewReleased(ViewReleased(p.arena, h), k),
             entries |-> Restrict(p.entries, DOMAIN p.entries \ {k}), count |-> p.count - 1]
    BY <2>1, <2>2 DEF Emptied
  <2> QED
    BY <1>2, <2>3 DEF HandleReleased
<1> QED
  BY <1>1, <1>2

LEMMA ReleaseKeeps ==
  ASSUME PoolInv, NEW h \in Handles, Release(h)
  PROVE  PoolInv'
<1> DEFINE k == handles[h].key
           q == Lowered(pool, k, h)
<1>1. /\ PoolOK(pool, handles, memory, spoiled) /\ Positive(pool)
      /\ DOMAIN memory = 0..(Capacity - 1) /\ spoiled \in BOOLEAN
  BY DEF PoolInv
<1>2. /\ h \in DOMAIN handles /\ handles' = Unhanded(handles, h) /\ memory' = memory
      /\ (k \in DOMAIN pool.entries => pool' = HandleReleased(pool, k, h))
      /\ (k \notin DOMAIN pool.entries => pool' = pool)
      /\ spoiled' = (spoiled \/ (k \in DOMAIN pool.entries /\ ~Live(pool.arena, h)))
  BY DEF Release, Known, Unhanded
<1>3. CASE k \notin DOMAIN pool.entries
  <2>1. PoolOK(pool', handles', memory', spoiled')
    <3>1. spoiled' = spoiled
      BY <1>1, <1>2, <1>3
    <3> QED
      BY <1>1, <1>2, <1>3, <3>1, RefusedOK
  <2> QED
    BY <1>1, <1>2, <1>3, <2>1 DEF PoolInv
<1>4. CASE k \in DOMAIN pool.entries
  <2>1. spoiled' \in BOOLEAN /\ (spoiled' <=> (spoiled \/ ~Live(pool.arena, h)))
    BY <1>1, <1>2, <1>4
  <2>2. pool.entries[k].handles >= 1 /\ pool.entries[k].handles \in Nat
    <3>1. pool.entries[k] \in [data : Tensors, handles : Nat]
      BY <1>1, <1>4 DEF PoolOK, Named
    <3> QED
      BY <1>1, <1>4, <3>1 DEF Positive
  <2>3. /\ PoolOK(q, handles', memory, spoiled') /\ DOMAIN q.entries = DOMAIN pool.entries
        /\ q.entries[k].handles = pool.entries[k].handles - 1
        /\ \A l \in DOMAIN pool.entries : l # k => q.entries[l] = pool.entries[l]
    BY <1>1, <1>2, <1>4, <2>1, <2>2, LoweredOK
  <2>4. pool' = IF pool.entries[k].handles > 1 THEN q ELSE Emptied(q, k)
    BY <1>2, <1>4, <2>2, HandleReleasedHalves
  <2> HIDE DEF q
  <2>5. CASE pool.entries[k].handles > 1
    <3>1. pool' = q
      BY <2>4, <2>5
    <3>2. Positive(pool')
      <4>1. q.entries[k].handles >= 1
        BY <2>2, <2>3, <2>5
      <4>2. \A l \in DOMAIN pool.entries : l # k => q.entries[l].handles >= 1
        BY <1>1, <2>3 DEF Positive
      <4> QED
        BY <2>3, <3>1, <4>1, <4>2 DEF Positive
    <3> QED
      BY <1>1, <1>2, <2>1, <2>3, <3>1, <3>2 DEF PoolInv
  <2>6. CASE ~(pool.entries[k].handles > 1)
    <3>1. pool' = Emptied(q, k) /\ q.entries[k].handles = 0
      BY <2>2, <2>3, <2>4, <2>6
    <3>2. /\ PoolOK(pool', handles', memory, spoiled')
          /\ DOMAIN pool'.entries = DOMAIN q.entries \ {k}
          /\ \A l \in DOMAIN pool'.entries : pool'.entries[l] = q.entries[l]
      BY <1>4, <2>3, <3>1, EmptiedOK
    <3>3. Positive(pool')
      BY <1>1, <2>3, <3>2 DEF Positive
    <3> QED
      BY <1>1, <1>2, <2>1, <3>2, <3>3 DEF PoolInv
  <2> QED
    BY <2>5, <2>6
<1> QED
  BY <1>3, <1>4

LEMMA ClearKeeps ==
  ASSUME PoolInv, Clear
  PROVE  PoolInv'
<1>1. /\ PoolOK(pool, handles, memory, spoiled)
      /\ DOMAIN memory = 0..(Capacity - 1) /\ spoiled \in BOOLEAN
  BY DEF PoolInv
<1>2. pool' = EmptyPool /\ handles' = handles /\ memory' = memory /\ spoiled' = spoiled
  BY DEF Clear
<1>3. DOMAIN handles \subseteq Handles
  BY <1>1 DEF PoolOK, Named
<1>4. PoolOK(pool', handles', memory', spoiled') /\ Positive(pool')
  BY <1>2, <1>3, EmptyOK
<1> QED
  BY <1>1, <1>2, <1>4 DEF PoolInv

LEMMA PoolInvStep ==
  ASSUME PoolInv, [PoolNext]_pool_vars
  PROVE  PoolInv'
<1>1. ASSUME NEW h \in Handles, NEW d \in Tensors, NEW k \in {d} \cup ExplicitKeys, InternKnown(d, k, h)
      PROVE  PoolInv'
  BY <1>1, InternKnownKeeps
<1>2. ASSUME NEW h \in Handles, NEW d \in Tensors, NEW k \in {d} \cup ExplicitKeys, InternNew(d, k, h)
      PROVE  PoolInv'
  <2>1. k \in Keys
    BY DEF Keys
  <2> QED
    BY <1>2, <2>1, InternNewKeeps
<1>3. ASSUME NEW h \in Handles, Release(h) PROVE PoolInv'
  BY <1>3, ReleaseKeeps
<1>4. CASE Clear
  BY <1>4, ClearKeeps
<1>5. CASE UNCHANGED pool_vars
  BY <1>5 DEF pool_vars, PoolInv
<1> QED
  BY <1>1, <1>2, <1>3, <1>4, <1>5 DEF PoolNext

(* intern, release and clear of the pool over its arena keep PoolInv, whatever *)
(* tensors, keys, handles, capacity and alignment.                          *)
THEOREM PoolInvariance == PoolSpec => []PoolInv
<1>1. PoolInv /\ [PoolNext]_pool_vars => PoolInv'
  BY PoolInvStep
<1> QED
  BY PoolInvInit, <1>1, PTL DEF PoolSpec

LEMMA PoolIsTyped ==
  ASSUME PoolInv
  PROVE  PoolTypeOK
<1>1. /\ ArenaOK(pool.arena) /\ Named(pool, handles) /\ Counted(pool)
      /\ Positive(pool) /\ spoiled \in BOOLEAN
  BY DEF PoolInv, PoolOK
<1>2. ArenaTypeOK(pool.arena)
  BY <1>1, ArenaPartitioned
<1>3. ASSUME NEW k \in DOMAIN pool.entries
      PROVE  pool.entries[k].handles \in 1..Cardinality({h \in Handles : Live(pool.arena, h)})
  <2> DEFINE all == {h \in Handles : Live(pool.arena, h)}
  <2>1. IsFiniteSet(DOMAIN pool.arena.views) /\ all \subseteq DOMAIN pool.arena.views
    BY <1>1 DEF ArenaOK, ViewsOK, Live
  <2>2. IsFiniteSet(all)
    BY <2>1, FS_Subset
  <2>3. HeldOn(pool, k) \subseteq all
    BY DEF HeldOn
  <2>4. /\ Cardinality(HeldOn(pool, k)) <= Cardinality(all)
        /\ Cardinality(all) \in Nat /\ Cardinality(HeldOn(pool, k)) \in Nat
    BY <2>2, <2>3, FS_Subset, FS_CardinalityType
  <2>5. pool.entries[k].handles \in Nat
    <3>1. pool.entries[k] \in [data : Tensors, handles : Nat]
      BY <1>1 DEF Named
    <3> QED
      BY <3>1
  <2>6. pool.entries[k].handles >= 1 /\ pool.entries[k].handles <= Cardinality(HeldOn(pool, k))
    BY <1>1 DEF Positive, Counted
  <2> HIDE DEF all
  <2>7. pool.entries[k].handles \in 1..Cardinality(all)
    BY <2>4, <2>5, <2>6
  <2> QED
    BY <2>7 DEF all
<1> QED
  BY <1>1, <1>2, <1>3 DEF PoolTypeOK, Named

LEMMA ReadersAreServed ==
  ASSUME PoolInv
  PROVE  ReadsOwnData
BY DEF PoolInv, PoolOK, Readable, ReadsOwnData, Open, Written

LEMMA EntriesAreSound ==
  ASSUME PoolInv
  PROVE  EntriesSound
<1>1. /\ ArenaOK(pool.arena) /\ Named(pool, handles) /\ Sealed(pool, memory) /\ Owned(pool, handles)
      /\ Counted(pool) /\ (~spoiled => Exact(pool, handles)) /\ Positive(pool)
  BY DEF PoolInv, PoolOK
<1>2. pool.count = SumFunction([k \in DOMAIN pool.entries |-> pool.entries[k].handles])
  BY <1>1 DEF Counted, HandlesOf
<1>3. ASSUME NEW k \in DOMAIN pool.entries
      PROVE  /\ Live(pool.arena, k) /\ pool.arena.views[k].readonly
             /\ Written(memory, pool.arena.views[k], pool.entries[k].data)
  BY <1>1 DEF Named, Live, Sealed
<1>4. ASSUME NEW k \in DOMAIN pool.entries, ~spoiled
      PROVE  pool.entries[k].handles = Cardinality({h \in Handles : Open(h) /\ handles[h].key = k})
  <2> DEFINE mine == {h \in Handles : Open(h) /\ handles[h].key = k}
  <2>1. \A h \in HeldOn(pool, k) : h \in mine
    BY <1>1 DEF Owned, HeldOn, Open
  <2>2. \A h \in mine : h \in HeldOn(pool, k)
    BY <1>1, <1>4 DEF Exact, HeldOn, Open
  <2>3. HeldOn(pool, k) = mine
    BY <2>1, <2>2
  <2> HIDE DEF mine
  <2>4. pool.entries[k].handles = Cardinality(mine)
    BY <1>1, <1>4, <2>3 DEF Exact
  <2> QED
    BY <2>4 DEF mine
<1>5. ASSUME ~spoiled, handles = <<>> PROVE pool.arena.live = 0
  <2>1. DOMAIN handles = {}
    BY <1>5
  <2>2. \A h \in Handles : ~Live(pool.arena, h)
    BY <1>1, <1>5, <2>1 DEF Exact
  <2>3. DOMAIN pool.entries = {}
    <3> SUFFICES ASSUME NEW k \in DOMAIN pool.entries PROVE FALSE
      OBVIOUS
    <3>1. HeldOn(pool, k) = {}
      BY <2>2 DEF HeldOn
    <3>2. pool.entries[k].handles = 0
      BY <1>1, <1>5, <3>1, FS_EmptySet DEF Exact
    <3> QED
      BY <1>1, <3>2 DEF Positive
  <2>4. DOMAIN pool.arena.views = {}
    BY <1>1, <2>2, <2>3 DEF Named, Live
  <2>5. BlocksOf(pool.arena.views) = {}
    BY <2>4 DEF BlocksOf
  <2> DEFINE w == [b \in {} |-> b[2]]
  <2>6. DOMAIN w = {}
    OBVIOUS
  <2>7. SizeSum({}) = SumFunction(w)
    BY DEF SizeSum
  <2> HIDE DEF w
  <2> QED
    BY <1>1, <2>5, <2>6, <2>7, TotalOfNone DEF ArenaOK
<1> QED
  BY <1>2, <1>3, <1>4, <1>5 DEF EntriesSound, Written

(* SharedTensorPool and UnifiedMemoryArena, for every capacity, alignment,    *)
(* sizes of tensors, keys and number of handles: through intern, release in   *)
(* any order and clear, free ranges and viewed blocks partition the buffer,   *)
(* blocks are aligned and the counts those of the live views; a tensor that   *)
(* can be read is the one interned; and the entries count their readers.      *)
THEOREM PoolStaysSound == PoolSpec => []PoolHolds
<1>1. PoolInv => PoolHolds
  <2> SUFFICES ASSUME PoolInv PROVE PoolHolds
    OBVIOUS
  <2>1. ArenaOK(pool.arena)
    BY DEF PoolInv, PoolOK
  <2>2. BufferPartitioned
    BY <2>1, ArenaPartitioned DEF BufferPartitioned
  <2> QED
    BY <2>2, PoolIsTyped, ReadersAreServed, EntriesAreSound DEF PoolHolds, PoolSound
<1> QED
  BY <1>1, PoolInvariance, PTL

(* _coalesce, for every arena: after a release that frees bytes no two free   *)
(* ranges touch, so that none of the buffer is lost to fragments that could   *)
(* be joined.                                                                *)
THEOREM ReleasesMerge == PoolSpec => ReleaseMerges
<1>1. PoolInv' => (pool'.arena.live < pool.arena.live =>
                     \A r, s \in Ranges(pool'.arena) : r[1] + r[2] # s[1])
  <2> SUFFICES ASSUME PoolInv' PROVE \A r, s \in Ranges(pool'.arena) : r[1] + r[2] # s[1]
    OBVIOUS
  <2>1. FreeOK(pool'.arena.free)
    BY DEF PoolInv, PoolOK, ArenaOK
  <2> QED
    BY <2>1, FreeRanges
<1>2. PoolInv' => [pool'.arena.live < pool.arena.live =>
                     \A r, s \in Ranges(pool'.arena) : r[1] + r[2] # s[1]]_pool_vars
  BY <1>1
<1> QED
  BY <1>2, PoolInvariance, PTL DEF ReleaseMerges
=============================================================================
