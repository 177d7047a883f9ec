--------------------------- MODULE AdapterResidency ---------------------------
(***************************************************************************)
(* AdapterResidencyLedger of holyfitra_adapter_residency.py: which adapters *)
(* are resident, which of them are active, and the rollback of the active   *)
(* lanes to a snapshot taken earlier.                                       *)
(*                                                                         *)
(* The caller names the step of every operation; nothing makes it grow.     *)
(* An artifact that is not allowed targets another base or has a mode the   *)
(* policy excludes.  Digests, dimensions and JSON only decide whether an    *)
(* object can be built at all.                                              *)
(***************************************************************************)
EXTENDS LruLedger

CONSTANTS MaxLanes,      \* policy.max_active_lanes
          MaxSnapshots   \* bound on the snapshots kept

ASSUME LanesAssumption == MaxLanes \in 1..MaxEntries /\ MaxSnapshots \in Nat

VARIABLES ledger,     \* _entries and _resident_bytes
          lanes,      \* _active_lanes, in order of activation
          snapshots,  \* the snapshots the caller holds
          decision    \* the last decision, with the step it was made at

vars == <<ledger, lanes, snapshots, decision>>

Active == ToSet(lanes)

NoDecision == [action |-> "none", id |-> "", evicted |-> {}, step |-> 0]

Init == /\ ledger = EmptyLedger /\ lanes = <<>> /\ snapshots = {<<>>}
        /\ decision = NoDecision

Decide(action, id, evicted, step) ==
  decision' = [action |-> action, id |-> id, evicted |-> evicted, step |-> step]

(* Every operation first drops what has expired.                            *)
Fresh(step) == EvictExpired(ledger, Active, step)
Gone(step) == Expired(ledger, Active, step)

Reject(id, step) == /\ ledger' = Fresh(step)
                    /\ Decide("reject", id, Gone(step), step)
                    /\ UNCHANGED <<lanes, snapshots>>
-----------------------------------------------------------------------------
AdmitResident(a, step) ==
  /\ a.allowed /\ a.id \in Resident(Fresh(step))
  /\ IF Fresh(step).entries[a.id].artifact = a
     THEN /\ ledger' = Touch(Fresh(step), a.id, step)
          /\ Decide("touch", a.id, Gone(step), step)
          /\ UNCHANGED <<lanes, snapshots>>
     ELSE Reject(a.id, step)

AdmitRefused(a, step) ==
  /\ ~a.allowed \/ (a.id \notin Resident(Fresh(step)) /\ a.size > MaxBytes)
  /\ Reject(a.id, step)

(* Variant with a fault: a reject names only what has expired.              *)
AdmitNewForgets(a, step) ==
  LET room == MakeRoom(Fresh(step), Active, a)
      gone == Gone(step) \cup Victims(Fresh(step), Active, a)
  IN  /\ a.allowed /\ a.id \notin Resident(Fresh(step)) /\ a.size <= MaxBytes
      /\ IF Fits(room, a)
         THEN ledger' = Insert(room, a, step) /\ Decide("admit", a.id, gone, step)
         ELSE ledger' = room /\ Decide("reject", a.id, Gone(step), step)
      /\ UNCHANGED <<lanes, snapshots>>

(* The room is made even if it does not suffice in the end.                 *)
AdmitNew(a, step) ==
  LET room == MakeRoom(Fresh(step), Active, a)
      gone == Gone(step) \cup Victims(Fresh(step), Active, a)
  IN  /\ a.allowed /\ a.id \notin Resident(Fresh(step)) /\ a.size <= MaxBytes
      /\ IF Fits(room, a)
         THEN ledger' = Insert(room, a, step) /\ Decide("admit", a.id, gone, step)
         ELSE ledger' = room /\ Decide("reject", a.id, gone, step)
      /\ UNCHANGED <<lanes, snapshots>>

Activate(i, step) ==
  IF i \notin Resident(Fresh(step)) \/ (i \notin Active /\ Len(lanes) >= MaxLanes)
  THEN Reject(i, step)
  ELSE /\ ledger' = Touch(Fresh(step), i, step)
       /\ lanes' = IF i \in Active THEN lanes ELSE Append(lanes, i)
       /\ Decide(IF i \in Active THEN "touch" ELSE "activate", i, Gone(step), step)
       /\ UNCHANGED snapshots

Deactivate(i, step) ==
  IF i \notin Active THEN Reject(i, step)
  ELSE /\ lanes' = Keep(lanes, Active \ {i})
       /\ ledger' = Touch(Fresh(step), i, step)
       /\ Decide("deactivate", i, Gone(step), step)
       /\ UNCHANGED snapshots

Snapshot ==
  /\ Cardinality(snapshots \cup {lanes}) <= MaxSnapshots + 1
  /\ snapshots' = snapshots \cup {lanes}
  /\ UNCHANGED <<ledger, lanes, decision>>

TouchAll(l, s, step) == FoldLeft(LAMBDA m, i : Touch(m, i, step), l, s)

(* Variant with a fault: an adapter that has gone is activated again.       *)
RollbackUnchecked(s, step) ==
  /\ lanes' = s
  /\ ledger' = TouchAll(Fresh(step), Keep(s, Resident(Fresh(step))), step)
  /\ Decide("rollback", "", Gone(step), step)
  /\ UNCHANGED snapshots

Rollback(s, step) ==
  IF \E i \in ToSet(s) : i \notin Resident(Fresh(step))
  THEN Reject("", step)
  ELSE /\ lanes' = s
       /\ ledger' = TouchAll(Fresh(step), s, step)
       /\ Decide("rollback", "", Gone(step), step)
       /\ UNCHANGED snapshots

Next == \/ \E step \in Steps :
             \/ \E a \in Artifacts : AdmitResident(a, step) \/ AdmitRefused(a, step) \/ AdmitNew(a, step)
             \/ \E i \in Ids : Activate(i, step) \/ Deactivate(i, step)
             \/ \E s \in snapshots : Rollback(s, step)
        \/ Snapshot

Spec == Init /\ [][Next]_vars
-----------------------------------------------------------------------------
TypeOK == /\ LedgerTypeOK(ledger)
          /\ lanes \in Seq(Ids) /\ IsInjective(lanes)
          /\ \A s \in snapshots : s \in Seq(Ids) /\ IsInjective(s) /\ Len(s) <= MaxLanes
          /\ decision.evicted \subseteq Ids /\ decision.step \in Steps

(* The bytes counted are those resident, within the policy, after any       *)
(* sequence of admissions, expiries and evictions.                          *)
BudgetHolds == WithinBudget(ledger)

(* An active lane is resident, however old, and lanes stay within the limit *)
(* through activation, eviction and rollback.                               *)
LanesResident == Active \subseteq Resident(ledger) /\ Len(lanes) <= MaxLanes

(* Protected and active adapters are never evicted; the others go in order  *)
(* of last use.                                                             *)
EvictionIsFair ==
  [][/\ \A i \in Resident(ledger) \ Resident(ledger') :
          i \notin Active /\ ~ledger.entries[i].artifact.protected
     /\ OldestFirst(ledger, ledger', Active, decision'.step)]_vars

(* A decision names every adapter the operation evicted, and no other but   *)
(* one that expired and was admitted again at once.                         *)
DecisionTells ==
  [][decision' # decision =>
       /\ Resident(ledger) \ Resident(ledger') \subseteq decision'.evicted
       /\ decision'.evicted \cap Resident(ledger') \subseteq {decision'.id}]_vars

WithinAge(i) == \/ i \in Active \/ ledger.entries[i].artifact.protected
                \/ decision.step - ledger.entries[i].last <= MaxAge

(* After an operation other than a rollback nothing inactive is older than  *)
(* the policy allows, though the caller's steps may go back and forth.      *)
AgesHold ==
  decision.action \notin {"none", "rollback"} => \A i \in Resident(ledger) : WithinAge(i)

(* The ledger is well typed, counts the bytes that are resident and keeps    *)
(* them within its budget; active lanes are resident, and nothing overstays. *)
AdaptersHold == TypeOK /\ BudgetHolds /\ LanesResident /\ AgesHold
=============================================================================
