------------------------------ MODULE MCResidency ------------------------------
(***************************************************************************)
(* Small instances of the three modules that decide what stays in memory:    *)
(* the adapter ledger, the key-value ledger and the tiered manager over its  *)
(* pool.  They share no state; a behaviour is one of one of them.            *)
(***************************************************************************)
EXTENDS AdapterResidency, KvResidency, TieredResidency, TLC

CONSTANTS ida, idb, idc

VARIABLE subject   \* whose behaviour it is

(* What may be offered, to either ledger: a block takes half the bytes at a   *)
(* lower precision; an adapter of the same name and another size conflicts;   *)
(* one of idb has a precision or a base that is excluded; idc is protected,   *)
(* or too big.                                                              *)
Offer(i, p, n, protected, ok) ==
  [id |-> i, precision |-> p, size |-> n, protected |-> protected, allowed |-> ok]

Offers == {Offer(ida, "fp16", 2, FALSE, TRUE), Offer(ida, "int8", 1, FALSE, TRUE),
           Offer(idb, "int8", 1, FALSE, TRUE), Offer(idb, "int4", 1, FALSE, FALSE),
           Offer(idc, "int8", 2, TRUE, TRUE), Offer(idc, "fp16", 4, FALSE, TRUE)}

(* The tensors of the manager, in the order of their keys.                  *)
TensorSizes == ida :> 2 @@ idb :> 3
KeyOrder == ida :> 1 @@ idb :> 2
ManagerHandles == {Handle(d) : d \in Tensors} \cup {Spare}

MCInit == /\ subject \in {"adapter", "kv", "tiered"}
          /\ Init /\ KvInit /\ TieredInit

MCNext == /\ UNCHANGED subject
          /\ \/ subject = "adapter" /\ Next /\ UNCHANGED <<kv_vars, tiered_vars>>
             \/ subject = "kv" /\ KvNext /\ UNCHANGED <<vars, tiered_vars>>
             \/ subject = "tiered" /\ TieredNext /\ UNCHANGED <<vars, kv_vars>>

MCSpec == MCInit /\ [][MCNext]_<<subject, vars, kv_vars, tiered_vars>>
-----------------------------------------------------------------------------
(* Protected blocks are never evicted, the others in order of last use; a     *)
(* rebalance leaves leased tensors where they are and evicts the colder.      *)
(* For the adapters: EvictionIsFair.                                        *)
ReclaimIsFair == KvEvictionIsFair /\ LeasedStay /\ EvictsTheColder
=============================================================================
