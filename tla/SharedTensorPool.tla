--------------------------- MODULE SharedTensorPool ---------------------------
(***************************************************************************)
(* UnifiedMemoryArena and ArenaView of holyfitra_memory.py: a first-fit      *)
(* allocator with alignment over one buffer, whose blocks may be viewed      *)
(* several times and are freed with their last view; and over it             *)
(* SharedTensorPool and SharedTensor of holyfitra_tensor_pool.py: equal      *)
(* tensors are kept once in an arena, under a key that is the hash of the    *)
(* contents or one the caller gives, and read through counted handles.       *)
(*                                                                         *)
(* The arena is a record, owned by the pool: free is the list of free ranges *)
(* <<start, size>> in the order the code keeps it, views the live views by   *)
(* identity, refs the count of views at each offset and live the bytes       *)
(* counted as allocated.  A released view can do nothing any more and is     *)
(* dropped.  Offsets and sizes are in units of the smallest tensor.          *)
(*                                                                         *)
(* The pool is a record of its arena, its entries by key and the number of   *)
(* handles given out.  handles are those callers hold and have not released, *)
(* clear does not reach them.  An entry's own view of the arena is named by  *)
(* the key, a handle's by the handle.                                        *)
(***************************************************************************)
EXTENDS Integers, Sequences, FiniteSets, SequencesExt

CONSTANTS Capacity, Alignment,   \* of the arena
          Tensors,         \* contents of tensors; the hash of one is the tensor itself
          SizeOf,          \* their sizes
          ExplicitKeys,    \* keys callers give
          Handles

ASSUME ArenaAssumption == Capacity \in Nat \ {0} /\ Alignment \in {1, 2, 4, 8, 16, 32, 64}

EmptyArena == [free |-> <<<<0, Capacity>>>>, views |-> <<>>, refs |-> <<>>, live |-> 0]

Live(a, v) == v \in DOMAIN a.views

Aligned(value) == ((value + Alignment - 1) \div Alignment) * Alignment

(* Variant with a fault: the padding is not counted.                        *)
HasRoomUnpadded(range, n) == range[2] >= n

HasRoom(range, n) == range[2] - (Aligned(range[1]) - range[1]) >= n

Fitting(a, n) == {i \in DOMAIN a.free : HasRoom(a.free[i], n)}

Part(start, size) == IF size > 0 THEN << <<start, size>> >> ELSE <<>>

(* What is left of a free range: padding before the block, a tail behind.   *)
Rest(range, n) ==
  LET padding == Aligned(range[1]) - range[1]
  IN  Part(range[1], padding) \o Part(range[1] + padding + n, range[2] - padding - n)

(* allocate, when some free range has room: the first one is taken.         *)
Allocated(a, v, n, readonly) ==
  LET i == Min(Fitting(a, n))
      offset == Aligned(a.free[i][1])
  IN  [free |-> SubSeq(a.free, 1, i - 1) \o Rest(a.free[i], n) \o SubSeq(a.free, i + 1, Len(a.free)),
       views |-> [w \in DOMAIN a.views \cup {v} |->
                    IF w = v THEN [offset |-> offset, size |-> n, readonly |-> readonly]
                             ELSE a.views[w]],
       refs |-> [o \in DOMAIN a.refs \cup {offset} |-> IF o = offset THEN 1 ELSE a.refs[o]],
       live |-> a.live + n]

(* alias of the live view v as w.                                           *)
Aliased(a, v, w, readonly) ==
  LET block == a.views[v]
  IN  [free |-> a.free,
       views |-> [u \in DOMAIN a.views \cup {w} |->
                    IF u = w THEN [offset |-> block.offset, size |-> block.size, readonly |-> readonly]
                             ELSE a.views[u]],
       refs |-> [a.refs EXCEPT ![block.offset] = @ + 1],
       live |-> a.live]

(* Variant with a fault: the freed range is merged with the last one only.  *)
CoalesceUnsorted(ranges) ==
  LET Touching(merged, r) ==
        IF merged # <<>> /\ Last(merged)[1] + Last(merged)[2] = r[1]
        THEN Append(Front(merged), <<Last(merged)[1], Last(merged)[2] + r[2]>>)
        ELSE Append(merged, r)
  IN  FoldLeft(Touching, <<>>, ranges)

(* _coalesce: the ranges in order of their starts, those that touch merged.  *)
InOrder(ranges) ==
  LET below(r) == {s \in ToSet(ranges) : s[1] < r[1]}
  IN  [n \in DOMAIN ranges |-> CHOOSE r \in ToSet(ranges) : Cardinality(below(r)) = n - 1]

Merge(merged, r) ==
  LET p == Last(merged)
  IN  IF merged # <<>> /\ p[1] + p[2] >= r[1]
      THEN Append(Front(merged), <<p[1], Max({p[1] + p[2], r[1] + r[2]}) - p[1]>>)
      ELSE Append(merged, r)

Coalesce(ranges) == FoldLeft(Merge, <<>>, InOrder(ranges))

(* _release of a live view: with the last one at its offset the block goes. *)
Released(a, v) ==
  LET block == a.views[v]
      others == Restrict(a.views, DOMAIN a.views \ {v})
  IN  IF a.refs[block.offset] > 1
      THEN [free |-> a.free, views |-> others, live |-> a.live,
            refs |-> [a.refs EXCEPT ![block.offset] = @ - 1]]
      ELSE [free |-> Coalesce(Append(a.free, <<block.offset, block.size>>)),
            views |-> others,
            refs |-> Restrict(a.refs, DOMAIN a.refs \ {block.offset}),
            live |-> a.live - block.size]
-----------------------------------------------------------------------------
Ranges(a) == ToSet(a.free)
Blocks(a) == {<<a.views[v].offset, a.views[v].size>> : v \in DOMAIN a.views}
Bytes(r) == r[1]..(r[1] + r[2] - 1)

ArenaTypeOK(a) == /\ Ranges(a) \subseteq (0..Capacity) \X (1..Capacity)
                  /\ \A v \in DOMAIN a.views : a.views[v].readonly \in BOOLEAN

(* Free ranges and viewed blocks are disjoint and cover the buffer: nothing *)
(* is handed out twice and nothing is lost, padding included.               *)
Partition(a) ==
  /\ Ranges(a) \cap Blocks(a) = {}
  /\ \A r, s \in Ranges(a) \cup Blocks(a) : r # s => Bytes(r) \cap Bytes(s) = {}
  /\ \A i, j \in DOMAIN a.free : a.free[i] = a.free[j] => i = j
  /\ UNION {Bytes(r) : r \in Ranges(a) \cup Blocks(a)} = 0..(Capacity - 1)

(* The counts of views and of bytes are those of the live views.            *)
Accounted(a) ==
  /\ DOMAIN a.refs = {b[1] : b \in Blocks(a)}
  /\ \A o \in DOMAIN a.refs : a.refs[o] = Cardinality({v \in DOMAIN a.views : a.views[v].offset = o})
  /\ a.live = SumFunction([b \in Blocks(a) |-> b[2]])

(* Every block starts at a multiple of the alignment.                       *)
BlocksAligned(a) == \A b \in Blocks(a) : b[1] % Alignment = 0
-----------------------------------------------------------------------------
ASSUME PoolAssumption == /\ SizeOf \in [Tensors -> Nat \ {0}]
                         /\ Handles \cap (Tensors \cup ExplicitKeys) = {}

Keys == Tensors \cup ExplicitKeys

VARIABLES pool,
          handles,   \* what callers hold: the key and the contents asked for
          memory,    \* what the bytes of the arena were last written with
          spoiled    \* history: a handle from before a clear has met a later entry

pool_vars == <<pool, handles, memory, spoiled>>

EmptyPool == [arena |-> EmptyArena, entries |-> <<>>, count |-> 0]

Known(p, k) == k \in DOMAIN p.entries

(* Variant with a fault: the entry does not count the handle.               *)
InternedUncounted(p, k, h) ==
  [p EXCEPT !.arena = Aliased(p.arena, k, h, TRUE), !.entries[k].handles = Max({@, 1}),
            !.count = @ + 1]

(* intern under a key that is known: one more handle on the entry.          *)
Interned(p, k, h) ==
  [arena |-> Aliased(p.arena, k, h, TRUE),
   entries |-> [p.entries EXCEPT ![k].handles = @ + 1],
   count |-> p.count + 1]

(* intern under a new key: the master is written, sealed and aliased.       *)
InternedNew(p, d, k, h) ==
  Interned([arena |-> Allocated(p.arena, k, SizeOf[d], TRUE),
            entries |-> [i \in DOMAIN p.entries \cup {k} |->
                           IF i = k THEN [data |-> d, handles |-> 0] ELSE p.entries[i]],
            count |-> p.count],
           k, h)

(* ArenaView.release, which may be called twice.                            *)
ViewReleased(a, v) == IF Live(a, v) THEN Released(a, v) ELSE a

(* release of a handle on a key that is known: with the last handle counted *)
(* the entry and its own view go.                                           *)
HandleReleased(p, k, h) ==
  LET a == ViewReleased(p.arena, h)
  IN  IF p.entries[k].handles > 1
      THEN [arena |-> a, entries |-> [p.entries EXCEPT ![k].handles = @ - 1],
            count |-> p.count - 1]
      ELSE [arena |-> ViewReleased(a, k),
            entries |-> Restrict(p.entries, DOMAIN p.entries \ {k}),
            count |-> p.count - 1]
-----------------------------------------------------------------------------
PoolInit == /\ pool = EmptyPool /\ handles = <<>>
            /\ memory = [b \in 0..(Capacity - 1) |-> "zero"] /\ spoiled = FALSE

Free(h) == h \notin DOMAIN handles /\ ~Live(pool.arena, h)

Hand(h, k, d) ==
  handles' = [i \in DOMAIN handles \cup {h} |->
                IF i = h THEN [key |-> k, data |-> d] ELSE handles[i]]

(* Variant with a fault: the key is taken for the contents.                 *)
InternKnownUnchecked(d, k, h) ==
  /\ Free(h) /\ Known(pool, k)
  /\ pool' = Interned(pool, k, h)
  /\ Hand(h, k, d)
  /\ UNCHANGED <<memory, spoiled>>

(* A key known for other contents is a collision and changes nothing.       *)
InternKnown(d, k, h) ==
  /\ Free(h) /\ Known(pool, k) /\ pool.entries[k].data = d
  /\ pool' = Interned(pool, k, h)
  /\ Hand(h, k, d)
  /\ UNCHANGED <<memory, spoiled>>

InternNew(d, k, h) ==
  /\ Free(h) /\ ~Known(pool, k) /\ Fitting(pool.arena, SizeOf[d]) # {}
  /\ pool' = InternedNew(pool, d, k, h)
  /\ Hand(h, k, d)
  /\ memory' = [b \in DOMAIN memory |->
                  LET view == pool'.arena.views[k]
                  IN  IF b \in Bytes(<<view.offset, view.size>>) THEN d ELSE memory[b]]
  /\ UNCHANGED spoiled

(* A handle is released once, and is gone even if the pool refuses it.      *)
Release(h) ==
  /\ h \in DOMAIN handles
  /\ handles' = Restrict(handles, DOMAIN handles \ {h})
  /\ pool' = IF Known(pool, handles[h].key) THEN HandleReleased(pool, handles[h].key, h) ELSE pool
  /\ spoiled' = (spoiled \/ (Known(pool, handles[h].key) /\ ~Live(pool.arena, h)))
  /\ UNCHANGED memory

Clear == /\ pool' = EmptyPool
         /\ UNCHANGED <<handles, memory, spoiled>>

PoolNext == \/ \E h \in Handles, d \in Tensors : \E k \in {d} \cup ExplicitKeys :
                 InternKnown(d, k, h) \/ InternNew(d, k, h)
            \/ \E h \in Handles : Release(h)
            \/ Clear

PoolSpec == PoolInit /\ [][PoolNext]_pool_vars
-----------------------------------------------------------------------------
PoolTypeOK == /\ ArenaTypeOK(pool.arena) /\ DOMAIN pool.arena.views \subseteq Keys \cup Handles
              /\ DOMAIN pool.entries \subseteq Keys /\ DOMAIN handles \subseteq Handles
              /\ spoiled \in BOOLEAN
              /\ \A k \in DOMAIN pool.entries :
                   pool.entries[k].handles \in 1..Cardinality({h \in Handles : Live(pool.arena, h)})

(* The buffer of the arena stays partitioned into free ranges and aligned   *)
(* blocks, and its counts those of the live views, through allocation,      *)
(* aliasing, release in any order, of some views twice, and clear.          *)
BufferPartitioned ==
  Partition(pool.arena) /\ BlocksAligned(pool.arena) /\ Accounted(pool.arena)

(* The pool is sound: well typed, its arena partitioned and counted right.  *)
PoolSound == PoolTypeOK /\ BufferPartitioned

(* A free list merged by a release has no two ranges that touch, so what an *)
(* aligned allocation fails to find is not there, and with no view left the *)
(* whole buffer is one range again.                                         *)
ReleaseMerges ==
  [][pool'.arena.live < pool.arena.live =>
       \A r, s \in Ranges(pool'.arena) : r[1] + r[2] # s[1]]_pool_vars

Open(h) == h \in DOMAIN handles /\ Live(pool.arena, h)

(* A tensor read through a handle, when it can be read, is the one that was *)
(* interned, whatever the pool did with the bytes meanwhile.                *)
ReadsOwnData ==
  \A h \in Handles : Open(h) =>
    LET view == pool.arena.views[h]
    IN  \A b \in Bytes(<<view.offset, view.size>>) : memory[b] = handles[h].data

(* Every entry has its contents in the arena, sealed, for the next caller   *)
(* to share, and the handles the statistics count are those of the entries.  *)
(* Unless a handle from before a clear has been released on a later entry,   *)
(* these are the handles callers hold, and the last release frees the last   *)
(* byte, whatever was shared or cleared.                                    *)
EntriesSound ==
  /\ pool.count = SumFunction([k \in DOMAIN pool.entries |-> pool.entries[k].handles])
  /\ \A k \in DOMAIN pool.entries :
       LET view == pool.arena.views[k]
       IN  /\ Live(pool.arena, k) /\ view.readonly
           /\ \A b \in Bytes(<<view.offset, view.size>>) : memory[b] = pool.entries[k].data
           /\ ~spoiled => pool.entries[k].handles
                             = Cardinality({h \in Handles : Open(h) /\ handles[h].key = k})
  /\ ~spoiled /\ handles = <<>> => pool.arena.live = 0

(* All of these: the pool is sound, its readers read what they interned, and *)
(* its entries count those who can.                                         *)
PoolHolds == PoolSound /\ ReadsOwnData /\ EntriesSound

(* test_holyfitra_tensor_pool.py: when every handle is released, no byte of *)
(* the arena is live.                                                       *)
AllReleasedFreesArena == handles = <<>> => pool.arena.live = 0
=============================================================================
