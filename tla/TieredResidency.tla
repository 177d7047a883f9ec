---------------------------- MODULE TieredResidency ----------------------------
(***************************************************************************)
(* TieredResidencyManager of holyfitra_residency.py over a SharedTensorPool: *)
(* tensors are admitted, leased for use, pinned, and reclaimed under         *)
(* pressure by age, priority and use.                                        *)
(*                                                                         *)
(* The manager is the pool's only client and holds one handle of it for each *)
(* resident record, named after the contents; the handle of an admission     *)
(* that finds the record resident is released at once.  Callers name the     *)
(* times; pressure is one of three levels, against the two thresholds.       *)
(***************************************************************************)
EXTENDS SharedTensorPool

CONSTANTS KeyRank,             \* the place of each tensor's key among the keys
          Priorities,          \* priorities callers admit with
          cold_after_ns,
          MaxTime, MaxLeases,  \* bounds on the times named and on the leases of a tensor
          Pinnable             \* bound: the tensors callers pin

VARIABLES records,   \* _records
          pressure, thermal_hint

tiered_vars == <<pool_vars, records, pressure, thermal_hint>>

Handle(d) == <<"handle", d>>
Spare == <<"spare">>

Times == 0..MaxTime
NoTime == -1

ASSUME TieredAssumption == /\ Handles = {Handle(d) : d \in Tensors} \cup {Spare}
                           /\ IsFiniteSet(Tensors) /\ KeyRank \in Injection(Tensors, Int)
                           /\ Priorities \subseteq Nat /\ cold_after_ns \in Nat \ {0}
                           /\ MaxTime \in Nat /\ MaxLeases \in Nat

OnRecord(d) == d \in DOMAIN records
Held(d) == OnRecord(d) /\ records[d].tier # "evicted"

TieredInit == PoolInit /\ records = <<>> /\ pressure = "low" /\ thermal_hint = "nominal"

(* From the third use on a record is hot for good and is scored no more.    *)
Count(n) == Min({n + 1, 3})

(* _touch of a resident record, at a time or without one.                   *)
CanTouch(r, time) == time = NoTime \/ time >= r.last_access_ns

Used(r, time) ==
  [r EXCEPT !.last_access_ns = IF time = NoTime THEN @ ELSE time,
            !.access_count = Count(@),
            !.tier = IF r.pinned \/ Count(r.access_count) >= 3 THEN "hot" ELSE "warm"]
-----------------------------------------------------------------------------
Bigger(m, n) == Max({m, n})

(* A tensor that is not resident, or was evicted, is interned anew.         *)
AdmitAnew(d, priority, pinned, time) ==
  /\ ~Held(d) /\ InternNew(d, d, Handle(d))
  /\ records' = [e \in DOMAIN records \cup {d} |->
                   IF e # d THEN records[e]
                   ELSE [priority |-> IF pinned THEN Bigger(priority, 100) ELSE priority,
                         pinned |-> pinned, last_access_ns |-> time, access_count |-> 1,
                         active_leases |-> 0, tier |-> "warm"]]
  /\ UNCHANGED <<pressure, thermal_hint>>

Raised(d, priority, pinned, time) ==
  LET r == [records[d] EXCEPT !.priority = Bigger(@, priority), !.pinned = @ \/ pinned]
  IN  records' = [records EXCEPT ![d] = IF CanTouch(r, time) THEN Used(r, time) ELSE r]

(* Variant with a fault: the handle of the admission is kept.               *)
AdmitAgainKeeps(d, priority, pinned, time) ==
  /\ Held(d) /\ InternKnown(d, d, Spare)
  /\ Raised(d, priority, pinned, time)
  /\ UNCHANGED <<pressure, thermal_hint>>

(* One that is resident is raised and touched.  If the time goes backwards  *)
(* the touch fails, and the caller gets an error for what is already done.  *)
AdmitAgain(d, priority, pinned, time) ==
  /\ Held(d)
  /\ pool' = HandleReleased(Interned(pool, d, Spare), d, Spare)
  /\ Raised(d, priority, pinned, time)
  /\ UNCHANGED <<handles, memory, spoiled, pressure, thermal_hint>>

Lease(d, time) ==
  /\ Held(d) /\ CanTouch(records[d], time) /\ records[d].active_leases < MaxLeases
  /\ records' = [records EXCEPT ![d] = [Used(records[d], time) EXCEPT !.active_leases = @ + 1]]
  /\ UNCHANGED <<pool_vars, pressure, thermal_hint>>

CloseLease(d) ==
  /\ OnRecord(d) /\ records[d].active_leases > 0
  /\ records' = [records EXCEPT ![d].active_leases = @ - 1]
  /\ UNCHANGED <<pool_vars, pressure, thermal_hint>>

Pin(d) ==
  /\ Held(d)
  /\ records' = [records EXCEPT ![d].pinned = TRUE, ![d].priority = Bigger(@, 100)]
  /\ UNCHANGED <<pool_vars, pressure, thermal_hint>>

Unpin(d) ==
  /\ Held(d)
  /\ records' = [records EXCEPT ![d].pinned = FALSE]
  /\ UNCHANGED <<pool_vars, pressure, thermal_hint>>

SetHints(level, hint) ==
  /\ pressure' = level /\ thermal_hint' = hint
  /\ UNCHANGED <<pool_vars, records>>
-----------------------------------------------------------------------------
ShouldReclaim == pressure # "low" \/ thermal_hint = "critical"

Age(d, now) == Max({0, now - records[d].last_access_ns})

Candidates(now) ==
  {d \in DOMAIN records :
     /\ records[d].tier \notin {"evicted", "hot"}
     /\ ~records[d].pinned /\ records[d].active_leases = 0
     /\ Age(d, now) >= cold_after_ns \/ pressure = "critical"}

(* The score, times 1000 * cold_after_ns.                                   *)
Score(d, now) ==
  1000 * Age(d, now) - cold_after_ns * (10 * records[d].priority + records[d].access_count)

(* Variant with a fault: the candidates in the order of their keys.         *)
BeforeByKey(d, e, now) == KeyRank[d] < KeyRank[e]

(* The candidates by falling score, then by key.                            *)
GoesBefore(d, e, now) ==
  \/ Score(d, now) > Score(e, now)
  \/ Score(d, now) = Score(e, now) /\ KeyRank[d] < KeyRank[e]

Reclaimed(now, limit) ==
  {d \in Candidates(now) : Cardinality({e \in Candidates(now) : GoesBefore(e, d, now)}) < limit}

(* rebalance: the candidates become cold and the first of them are evicted. *)
Rebalance(now, limit) ==
  LET gone == Reclaimed(now, limit)
  IN  /\ ShouldReclaim
      /\ pool' = FoldSet(LAMBDA d, p : HandleReleased(p, d, Handle(d)), pool, gone)
      /\ handles' = Restrict(handles, DOMAIN handles \ {Handle(d) : d \in gone})
      /\ records' = [d \in DOMAIN records |->
                       IF d \in Candidates(now)
                       THEN [records[d] EXCEPT !.tier = IF d \in gone THEN "evicted" ELSE "cold"]
                       ELSE records[d]]
      /\ UNCHANGED <<memory, spoiled, pressure, thermal_hint>>

TieredNext ==
  \/ \E d \in Tensors :
       \/ \E priority \in Priorities, pinned \in BOOLEAN, time \in Times :
            /\ pinned => d \in Pinnable
            /\ AdmitAnew(d, priority, pinned, time) \/ AdmitAgain(d, priority, pinned, time)
       \/ \E time \in Times \cup {NoTime} : Lease(d, time)
       \/ CloseLease(d) \/ (d \in Pinnable /\ Pin(d)) \/ Unpin(d)
  \/ \E level \in {"low", "start", "critical"}, hint \in {"nominal", "critical"} :
       /\ level = "low" \/ hint = "nominal"   \* bound: under pressure a hint adds nothing
       /\ SetHints(level, hint)
  \/ \E now \in Times, limit \in 0..Cardinality(Tensors) : Rebalance(now, limit)

TieredSpec == TieredInit /\ [][TieredNext]_tiered_vars
-----------------------------------------------------------------------------
RecordsTypeOK ==
  /\ DOMAIN records \subseteq Tensors
  /\ \A d \in DOMAIN records :
       /\ records[d].tier \in {"hot", "warm", "cold", "evicted"}
       /\ records[d].active_leases \in 0..MaxLeases /\ records[d].last_access_ns \in Times

(* The pool holds the resident tensors, each with one handle, and nothing   *)
(* of those evicted: admission of a tensor that is resident and eviction    *)
(* leave no handle behind.  And the pool itself is sound: each resident     *)
(* tensor is read as it was admitted, from bytes that are its own.          *)
PoolHoldsResidents ==
  /\ RecordsTypeOK /\ PoolHolds
  /\ DOMAIN pool.entries = {d \in Tensors : Held(d)}
  /\ DOMAIN handles = {Handle(d) : d \in DOMAIN pool.entries}
  /\ \A d \in DOMAIN pool.entries : pool.entries[d].handles = 1 /\ Open(Handle(d))
  /\ pool.arena.live = SumFunctionOnSet(SizeOf, {d \in Tensors : Held(d)})

(* A tensor under a lease keeps its bytes and its place until the lease is  *)
(* closed, pinned or not, whatever is rebalanced or admitted.               *)
LeasedStay ==
  [][\A d \in Tensors : OnRecord(d) /\ records[d].active_leases > 0 =>
       /\ Held(d)'
       /\ pool'.arena.views[Handle(d)] = pool.arena.views[Handle(d)]]_tiered_vars

(* What a step evicts.                                                      *)
Leaving == {d \in DOMAIN records : Held(d) /\ ~Held(d)'}

(* Whatever a rebalance evicts was a candidate at its time and no warmer    *)
(* than any candidate it spared.                                            *)
EvictsTheColder ==
  [][Leaving # {} =>
       \E now \in Times :
         /\ Leaving \subseteq Candidates(now)
         /\ \A d \in Leaving, e \in Candidates(now) \ Leaving : Score(d, now) >= Score(e, now)]_tiered_vars
=============================================================================
