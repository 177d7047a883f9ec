------------------------------ MODULE KvResidency ------------------------------
(***************************************************************************)
(* KVResidencyLedger and KVPrecisionGovernor of holyfitra_kv_residency.py:  *)
(* which blocks of a key-value cache are resident, and which precision a    *)
(* block may be stored with.  A caller asks the governor for a precision    *)
(* and offers the block with the one selected, or offers any block.         *)
(***************************************************************************)
EXTENDS LruLedger

CONSTANT AllowedPrecisions   \* policy.allowed_precisions, of which fp16 is always one

KVPrecision == {"fp16", "int8", "int4", "int2"}

(* What policies and blocks are verified to be when they are built.          *)
ASSUME PrecisionAssumption == /\ AllowedPrecisions \subseteq KVPrecision /\ "fp16" \in AllowedPrecisions
                              /\ \A a \in Artifacts : a.precision \in KVPrecision

VARIABLES kv_ledger, kv_decision

kv_vars == <<kv_ledger, kv_decision>>

(* What is known of the quality: nothing, something that is no number in    *)
(* range, below or above a threshold, or good enough.                       *)
Evidence == {"missing", "invalid", "low_quality", "high_error", "good"}

(* Variant with a fault: good evidence is enough.                           *)
SelectAny(requested, evidence) ==
  CASE evidence = "invalid" -> "none" [] evidence = "good" -> requested [] OTHER -> "fp16"

(* The precision selected, or "none" when the request is rejected.          *)
Select(requested, evidence) ==
  IF requested \notin AllowedPrecisions THEN "none"
  ELSE IF requested = "fp16" THEN "fp16"
  ELSE CASE evidence = "invalid" -> "none"
         [] evidence = "good" -> requested
         [] OTHER -> "fp16"

KvInit == /\ kv_ledger = EmptyLedger
          /\ kv_decision = [action |-> "none", reason |-> "", id |-> "", evicted |-> {}, step |-> 0,
                            governed |-> FALSE]

KvDecide(action, reason, id, evicted, step, governed) ==
  kv_decision' = [action |-> action, reason |-> reason, id |-> id, evicted |-> evicted,
                  step |-> step, governed |-> governed]

KvFresh(step) == EvictExpired(kv_ledger, {}, step)
KvGone(step) == Expired(kv_ledger, {}, step)

(* admit.  A block already resident is looked for before its precision is   *)
(* checked, and the room is made even if it does not suffice in the end.    *)
Admit(a, step, governed) ==
  LET fresh == KvFresh(step)
      room == MakeRoom(fresh, {}, a)
      reject(reason) ==
        kv_ledger' = fresh /\ KvDecide("reject", reason, a.id, KvGone(step), step, governed)
  IN  IF a.id \in Resident(fresh)
      THEN IF fresh.entries[a.id].artifact # a THEN reject("duplicate_key_conflict")
           ELSE /\ kv_ledger' = Touch(fresh, a.id, step)
                /\ KvDecide("touch", "already_resident", a.id, KvGone(step), step, governed)
      ELSE IF a.precision \notin AllowedPrecisions THEN reject("precision_not_allowed")
      ELSE IF a.size > MaxBytes THEN reject("block_exceeds_budget")
      ELSE /\ kv_ledger' = IF Fits(room, a) THEN Insert(room, a, step) ELSE room
           /\ IF Fits(room, a)
              THEN KvDecide("admit", "within_budget", a.id, KvGone(step) \cup Victims(fresh, {}, a),
                            step, governed)
              ELSE KvDecide("reject", "protected_entries_block_admission", a.id,
                            KvGone(step) \cup Victims(fresh, {}, a), step, governed)

AdmitAny(a, step) == Admit(a, step, FALSE)

(* The governor decides, and the block is built with what it selected.      *)
AdmitGoverned(requested, evidence, a, step) ==
  a.precision = Select(requested, evidence) /\ Admit(a, step, TRUE)

Access(i, step) ==
  /\ IF i \in Resident(KvFresh(step))
     THEN /\ kv_ledger' = Touch(KvFresh(step), i, step)
          /\ KvDecide("touch", "resident", i, KvGone(step), step, FALSE)
     ELSE /\ kv_ledger' = KvFresh(step)
          /\ KvDecide("reject", "not_resident", i, KvGone(step), step, FALSE)

KvNext == \E step \in Steps :
            \/ \E a \in Artifacts : \/ AdmitAny(a, step)
                                    \/ \E requested \in KVPrecision, evidence \in Evidence :
                                         AdmitGoverned(requested, evidence, a, step)
            \/ \E i \in Ids : Access(i, step)

KvSpec == KvInit /\ [][KvNext]_kv_vars
-----------------------------------------------------------------------------
KvTypeOK == /\ LedgerTypeOK(kv_ledger)
            /\ kv_decision.evicted \subseteq Ids /\ kv_decision.step \in Steps

(* The bytes counted are those resident and within the policy.              *)
KvBudgetHolds == WithinBudget(kv_ledger)

(* Protected blocks are never evicted; the others in order of last use.     *)
KvEvictionIsFair ==
  [][/\ \A i \in Resident(kv_ledger) \ Resident(kv_ledger') : ~kv_ledger.entries[i].artifact.protected
     /\ OldestFirst(kv_ledger, kv_ledger', {}, kv_decision'.step)]_kv_vars

(* After every operation nothing unprotected is older than the policy       *)
(* allows, and nothing resident has a precision it excludes.                *)
ResidentWithinPolicy ==
  kv_decision.action # "none" => \A i \in Resident(kv_ledger) :
    LET e == kv_ledger.entries[i] IN
    /\ e.artifact.precision \in AllowedPrecisions
    /\ e.artifact.protected \/ kv_decision.step - e.last <= MaxAge

(* The ledger never rejects for its precision a block that the governor of  *)
(* the same policy has passed.                                              *)
GovernorAgrees == kv_decision.governed => kv_decision.reason # "precision_not_allowed"

(* The ledger is well typed, keeps its books, its budget and its policy, and  *)
(* agrees with the governor.                                                *)
BlocksHold == KvTypeOK /\ KvBudgetHolds /\ ResidentWithinPolicy /\ GovernorAgrees
=============================================================================
