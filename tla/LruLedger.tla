------------------------------- MODULE LruLedger -------------------------------
(***************************************************************************)
(* The bookkeeping that holyfitra_kv_residency.py and                       *)
(* holyfitra_adapter_residency.py share: an OrderedDict of entries, oldest   *)
(* first, a byte count kept beside it, expiry by age and eviction to make   *)
(* room.  A ledger is the record [order, entries, bytes].                   *)
(***************************************************************************)
EXTENDS Integers, Sequences, FiniteSets, SequencesExt

CONSTANTS Ids,           \* keys of blocks, names of adapters
          Artifacts,     \* what may be offered, with its id, size and protection
          MaxBytes, MaxEntries, MaxAge,
          MaxStep        \* bound: steps run from 0 to MaxStep

ASSUME LedgerAssumption == /\ \A a \in Artifacts : /\ a.id \in Ids /\ a.size \in Nat \ {0}
                                                  /\ a.protected \in BOOLEAN
                           /\ MaxBytes \in Nat \ {0} /\ MaxEntries \in Nat \ {0}
                           /\ MaxAge \in Nat \ {0} /\ MaxStep \in Nat

Steps == 0..MaxStep

EmptyLedger == [order |-> <<>>, entries |-> <<>>, bytes |-> 0]

Resident(l) == DOMAIN l.entries

BytesOf(l, ids) == FoldSet(LAMBDA i, n : n + l.entries[i].artifact.size, 0, ids)

(* The members of ids in the order they have in s.                          *)
Keep(s, ids) == FoldLeft(LAMBDA kept, i : IF i \in ids THEN Append(kept, i) ELSE kept, <<>>, s)

(* Variant with a fault: the bytes stay counted.                            *)
RemoveIdsUncounted(l, ids) ==
  [order |-> Keep(l.order, Resident(l) \ ids),
   entries |-> Restrict(l.entries, Resident(l) \ ids),
   bytes |-> l.bytes]

(* _remove: the entry goes, and its bytes are taken off the count.          *)
RemoveIds(l, ids) ==
  [order |-> Keep(l.order, Resident(l) \ ids),
   entries |-> Restrict(l.entries, Resident(l) \ ids),
   bytes |-> l.bytes - BytesOf(l, ids)]

(* _touch: a new access step, and to the end of the order.                  *)
Touch(l, i, step) ==
  [order |-> Append(Keep(l.order, Resident(l) \ {i}), i),
   entries |-> [l.entries EXCEPT ![i].last = step],
   bytes |-> l.bytes]

Insert(l, a, step) ==
  [order |-> Append(l.order, a.id),
   entries |-> [i \in Resident(l) \cup {a.id} |->
                  IF i = a.id THEN [artifact |-> a, last |-> step] ELSE l.entries[i]],
   bytes |-> l.bytes + a.size]

(* held are the ids that may not be evicted whatever their age.             *)
Evictable(l, held) == {i \in Resident(l) : i \notin held /\ ~l.entries[i].artifact.protected}

(* Variant with a fault: one step more is allowed.                          *)
ExpiredLater(l, held, step) ==
  {i \in Evictable(l, held) : step - l.entries[i].last > MaxAge + 1}

Expired(l, held, step) == {i \in Evictable(l, held) : step - l.entries[i].last > MaxAge}

EvictExpired(l, held, step) == RemoveIds(l, Expired(l, held, step))

Fits(l, a) == l.bytes + a.size <= MaxBytes /\ Len(l.order) + 1 <= MaxEntries

(* Variant with a fault: the newest go first.                               *)
VictimsNewest(l, held, a) ==
  LET candidates == Reverse(Keep(l.order, Evictable(l, held)))
      first(n) == ToSet(SubSeq(candidates, 1, n))
      enough == {n \in 0..Len(candidates) : Fits(RemoveIds(l, first(n)), a)}
  IN  IF enough = {} THEN first(Len(candidates)) ELSE first(Min(enough))

(* The loop of admit: the oldest evictable entries go, one by one, until    *)
(* the artifact fits or none is left to evict.                              *)
Victims(l, held, a) ==
  LET candidates == Keep(l.order, Evictable(l, held))
      first(n) == ToSet(SubSeq(candidates, 1, n))
      enough == {n \in 0..Len(candidates) : Fits(RemoveIds(l, first(n)), a)}
  IN  IF enough = {} THEN first(Len(candidates)) ELSE first(Min(enough))

(* Room is made and the artifact admitted, or the room is made in vain.     *)
MakeRoom(l, held, a) == RemoveIds(l, Victims(l, held, a))
-----------------------------------------------------------------------------
LedgerTypeOK(l) ==
  /\ l.order \in Seq(Ids) /\ IsInjective(l.order) /\ ToSet(l.order) = Resident(l)
  /\ \A i \in Resident(l) : /\ l.entries[i].artifact \in {a \in Artifacts : a.id = i}
                            /\ l.entries[i].last \in Steps
  /\ l.bytes \in Nat

(* The count is the sum over the entries, and both are within the policy.   *)
WithinBudget(l) ==
  /\ l.bytes = BytesOf(l, Resident(l))
  /\ l.bytes <= MaxBytes /\ Len(l.order) <= MaxEntries

(* What a step of the ledger from l to m at some step number evicted for    *)
(* room was used less recently than whatever evictable entry it spared.     *)
OldestFirst(l, m, held, step) ==
  \A i, j \in Resident(l) \ Expired(l, held, step) :
    /\ i \notin Resident(m) /\ j \in Resident(m) /\ j \in Evictable(l, held)
    => \E p, q \in DOMAIN l.order : p < q /\ l.order[p] = i /\ l.order[q] = j
=============================================================================
