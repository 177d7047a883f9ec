--------------------------- MODULE NibbleFlowBridge ---------------------------
(***************************************************************************)
(* The bridge from Java to the int4 kernels (nibbleflow_jni.cpp,              *)
(* nibbleflow_android.cpp, nibbleflow_kernel.c): handles of models whose       *)
(* buffers Java threads create, use and close, and the sizes of the buffers    *)
(* against what the kernels read.  Weights and activations are left out.      *)
(***************************************************************************)
EXTENDS Integers, FiniteSets

CONSTANTS
  Threads,
  Shapes,        \* the sizes of a model and of its buffers; 0 for no bias
  Plans,         \* execution plans: the mode, the adapter and their scratch buffers
  MaxRows,       \* how many rows a batch has at most
  IntMax,        \* the greatest int, which is the greatest capacity of a buffer too
  SizeMax,       \* the greatest size_t
  MaxHandle      \* the handle that is never given out

VARIABLES
  shape,          \* of every model of this application
  g_model_registry, g_next_model_handle, registry_lock,
  refs,           \* model |-> the global references it holds
  lock,           \* model |-> the thread that holds its mutex
  closing,        \* the models that are closing
  call            \* thread |-> where its call is

vars == <<shape, g_model_registry, g_next_model_handle, registry_lock, refs, lock, closing, call>>
Models == 1..MaxHandle
Nobody == "nobody"
Idle == [at |-> "idle"]
Buffers == {"packed", "scales"} \cup (IF shape.bias = 0 THEN {} ELSE {"bias"})
-----------------------------------------------------------------------------
(* The sizes a model needs.  0 stands for an overflow of size_t.              *)
CeilDiv(a, b) == (a + b - 1) \div b
Groups(s) == CeilDiv(s.in_dim, s.group_size)
Pairs(s) == s.group_size \div 2
Tiles(s) == CeilDiv(s.out_dim, 4)
Times(a, b) == IF a * b > SizeMax THEN 0 ELSE a * b
(* Variant with a fault: a last group that is not full is forgotten.           *)
WholeGroups(s) == Times(Times(Times(Tiles(s), s.in_dim \div s.group_size), Pairs(s)), 4)

expected_packed_bytes(s) == Times(Times(Times(Tiles(s), Groups(s)), Pairs(s)), 4)
expected_scale_count(s) == Times(Times(Tiles(s), Groups(s)), 4)

hf_nibbleflow_validate_model(s) ==
  /\ s.in_dim > 0 /\ s.out_dim > 0 /\ s.group_size > 0 /\ s.group_size % 2 = 0
  /\ expected_packed_bytes(s) \in 1..s.packed /\ expected_scale_count(s) \in 1..s.scales
  /\ s.bias = 0 \/ s.bias >= s.out_dim

(* A plan without an adapter has rank 0.                                      *)
hf_nibbleflow_validate_adapter(s, p) ==
  /\ p.rank \in 1..64 /\ p.down = Times(p.rank, s.in_dim) /\ p.up = Times(p.rank, s.out_dim)
hf_nibbleflow_validate_execution_plan(s, p) ==
  /\ IF p.mode = "static_int8" THEN p.scratch >= s.in_dim ELSE p.scratch = 0
  /\ IF p.rank = 0 THEN p.adapter_scratch = 0
     ELSE hf_nibbleflow_validate_adapter(s, p) /\ p.adapter_scratch >= p.rank

packed_index(s, t, g, p, lane) == ((t * Groups(s) + g) * Pairs(s) + p) * 4 + lane
scale_index(s, t, g, lane) == (t * Groups(s) + g) * 4 + lane

(* Where the weight of an output and an input is, as it was packed: the byte,   *)
(* the half of it and the scale.                                             *)
quantize_weight(s) ==
  {<<o, i, packed_index(s, o \div 4, i \div s.group_size, (i % s.group_size) \div 2, o % 4), i % 2,
     scale_index(s, o \div 4, i \div s.group_size, o % 4)>> : o \in 0..s.out_dim - 1, i \in 0..s.in_dim - 1}

(* What the kernels look at: <<tile, group, pair, lane>>.  A full tile and NEON  *)
(* stop at the end of the input, the scalar kernels go through every pair of a  *)
(* group; NEON reads all four lanes of the last tile.                        *)
Places(s, tiles) == (0..tiles - 1) \X (0..Groups(s) - 1) \X (0..Pairs(s) - 1) \X (0..3)
UpToEnd(s, tiles) == {v \in Places(s, tiles) : v[2] * s.group_size + 2 * v[3] < s.in_dim}
scalar_range(s, first, end) == {v \in Places(s, Tiles(s)) : 4 * v[1] + v[4] \in first..end - 1}
nibbleflow_int4_f32_ref(s) ==
  UpToEnd(s, s.out_dim \div 4) \cup scalar_range(s, 4 * (s.out_dim \div 4), s.out_dim)
nibbleflow_int4_i8_f32_ref(s) == scalar_range(s, 0, s.out_dim)
matvec_reference(s) == scalar_range(s, 0, s.out_dim)
nibbleflow_int4_neon(s) == UpToEnd(s, Tiles(s))
(* Rows at once: by fours, each row as a row alone, and the rest one by one.     *)
nibbleflow_int4_f32_batch4(s, row) == {<<row + r, v>> : r \in 0..3, v \in nibbleflow_int4_f32_ref(s)}
Fours(rows) == {4 * n : n \in 0..rows \div 4 - 1}
hf_nibbleflow_matvec_batch_f32(s, rows) ==
  UNION {nibbleflow_int4_f32_batch4(s, n) : n \in Fours(rows)}
    \cup {<<r, v>> : r \in {n \in 0..rows - 1 : \A f \in Fours(rows) : n > f + 3}, v \in nibbleflow_int4_f32_ref(s)}
Kernels(s) == {matvec_reference(s), nibbleflow_int4_f32_ref(s), nibbleflow_int4_i8_f32_ref(s), nibbleflow_int4_neon(s)}

(* The products a kernel adds up: inputs past the end and outputs past the last *)
(* are left out.                                                             *)
Products(s, kernel) ==
  {m \in {<<4 * v[1] + v[4], v[2] * s.group_size + 2 * v[3] + h, packed_index(s, v[1], v[2], v[3], v[4]), h,
            scale_index(s, v[1], v[2], v[4])>> : v \in kernel, h \in {0, 1}} :
     m[1] < s.out_dim /\ m[2] < s.in_dim}

(* The last element apply_adapter reads of down, up and its scratch.          *)
apply_adapter(s, p) == [down |-> (p.rank - 1) * s.in_dim + s.in_dim - 1, adapter_scratch |-> p.rank - 1,
                        up |-> (s.out_dim - 1) * p.rank + p.rank - 1]
-----------------------------------------------------------------------------
Init ==
  /\ shape \in Shapes
  /\ g_model_registry = {} /\ g_next_model_handle = 1 /\ registry_lock = Nobody
  /\ refs = [m \in Models |-> {}] /\ lock = [m \in Models |-> Nobody]
  /\ closing = {} /\ call = [t \in Threads |-> Idle]

Goto(t, c) == call' = [call EXCEPT ![t] = c]
Return(t) == Goto(t, Idle)
At(t, at) == call[t].at = at

(* nativeCreate: validated, one global reference after the other, registered.   *)
(* A model that no handle names yet is kept under the number MaxHandle.        *)
BeginCreate(t) ==
  /\ At(t, "idle") /\ hf_nibbleflow_validate_model(shape)
  /\ \A u \in Threads : ~At(u, "retain")
  /\ Goto(t, [at |-> "retain"])
  /\ UNCHANGED <<shape, g_model_registry, g_next_model_handle, registry_lock, refs, lock, closing>>

NextRef == CHOOSE b \in Buffers \ refs[MaxHandle] :
             \A c \in Buffers \ refs[MaxHandle] : b = "packed" \/ c = "bias" \/ b = c
NewGlobalRef(t) ==
  /\ At(t, "retain") /\ refs[MaxHandle] # Buffers
  /\ refs' = [refs EXCEPT ![MaxHandle] = @ \cup {NextRef}]
  /\ UNCHANGED <<shape, g_model_registry, g_next_model_handle, registry_lock, lock, closing, call>>

delete_refs(m) == refs' = [refs EXCEPT ![m] = {}]

(* A reference cannot be made, or the handles have run out.                   *)
CreateFails(t) ==
  /\ At(t, "retain")
  /\ refs[MaxHandle] = Buffers => (g_next_model_handle = MaxHandle /\ registry_lock = Nobody)
  /\ delete_refs(MaxHandle) /\ Return(t)
  /\ UNCHANGED <<shape, g_model_registry, g_next_model_handle, registry_lock, lock, closing>>

register_model(t) ==
  LET token == g_next_model_handle
  IN  /\ At(t, "retain") /\ refs[MaxHandle] = Buffers /\ registry_lock = Nobody /\ token < MaxHandle
      /\ g_next_model_handle' = token + 1 /\ g_model_registry' = g_model_registry \cup {token}
      /\ refs' = [refs EXCEPT ![token] = Buffers, ![MaxHandle] = {}]
      /\ Return(t) /\ UNCHANGED <<shape, registry_lock, lock, closing>>

(* nativeClose.                                                              *)
erase_model(t, m) ==
  /\ At(t, "idle") /\ registry_lock = Nobody /\ m \in g_model_registry
  /\ g_model_registry' = g_model_registry \ {m}
  /\ Goto(t, [at |-> "close", model |-> m])
  /\ UNCHANGED <<shape, g_next_model_handle, registry_lock, refs, lock, closing>>

nativeClose(t) ==
  /\ At(t, "close") /\ lock[call[t].model] = Nobody
  /\ closing' = closing \cup {call[t].model} /\ delete_refs(call[t].model)
  /\ Return(t)
  /\ UNCHANGED <<shape, g_model_registry, g_next_model_handle, registry_lock, lock>>

(* nativeMatvec: lookup_model takes the model's mutex while it holds that of    *)
(* the registry.                                                             *)
Find(t, m) ==
  /\ At(t, "idle") /\ registry_lock = Nobody /\ m \in g_model_registry
  /\ registry_lock' = t /\ Goto(t, [at |-> "lookup", model |-> m])
  /\ UNCHANGED <<shape, g_model_registry, g_next_model_handle, refs, lock, closing>>

lookup_model(t) ==
  /\ At(t, "lookup") /\ lock[call[t].model] = Nobody
  /\ registry_lock' = Nobody
  /\ IF call[t].model \in closing THEN Return(t) ELSE Goto(t, [at |-> "buffers", model |-> call[t].model])
  /\ UNCHANGED <<shape, g_model_registry, g_next_model_handle, refs, lock, closing>>

RefuseBuffers(t) ==
  /\ At(t, "buffers") /\ Return(t)
  /\ UNCHANGED <<shape, g_model_registry, g_next_model_handle, registry_lock, refs, lock, closing>>

(* Variant with a fault: closing is not looked at again.                      *)
LockModelOnly(t) ==
  /\ At(t, "buffers") /\ lock[call[t].model] = Nobody
  /\ lock' = [lock EXCEPT ![call[t].model] = t] /\ Goto(t, [call[t] EXCEPT !.at = "kernel"])
  /\ UNCHANGED <<shape, g_model_registry, g_next_model_handle, registry_lock, refs, closing>>

LockModel(t) ==
  /\ At(t, "buffers") /\ lock[call[t].model] = Nobody
  /\ IF call[t].model \in closing
     THEN Return(t) /\ UNCHANGED lock
     ELSE lock' = [lock EXCEPT ![call[t].model] = t] /\ Goto(t, [call[t] EXCEPT !.at = "kernel"])
  /\ UNCHANGED <<shape, g_model_registry, g_next_model_handle, registry_lock, refs, closing>>

hf_nibbleflow_matvec(t) ==
  /\ At(t, "kernel")
  /\ lock' = [lock EXCEPT ![call[t].model] = Nobody] /\ Return(t)
  /\ UNCHANGED <<shape, g_model_registry, g_next_model_handle, registry_lock, refs, closing>>

Next == \E t \in Threads :
          \/ BeginCreate(t) \/ NewGlobalRef(t) \/ CreateFails(t) \/ register_model(t)
          \/ \E m \in Models : erase_model(t, m) \/ Find(t, m)
          \/ nativeClose(t) \/ lookup_model(t) \/ RefuseBuffers(t) \/ LockModel(t) \/ hf_nibbleflow_matvec(t)

Spec == Init /\ [][Next]_vars
-----------------------------------------------------------------------------
(* The model a thread computes with has all its buffers; a model nobody can      *)
(* reach holds no reference.                                                  *)
BuffersKept ==
  /\ \A t \in Threads : At(t, "kernel") => refs[call[t].model] = Buffers
  /\ \A m \in Models : refs[m] # {} => \/ m \in g_model_registry
                                       \/ m = MaxHandle /\ \E t \in Threads : At(t, "retain")
                                       \/ \E t \in Threads : At(t, "close") /\ call[t].model = m

(* Every kernel multiplies every input with the weight that was packed for it,   *)
(* reads within the buffers and computes its indices within an int.            *)
KernelsAgree ==
  hf_nibbleflow_validate_model(shape) =>
    /\ \A k \in Kernels(shape) :
         /\ Products(shape, k) = quantize_weight(shape)
         /\ \A v \in k : /\ packed_index(shape, v[1], v[2], v[3], v[4]) < shape.packed
                        /\ scale_index(shape, v[1], v[2], v[4]) < shape.scales
    /\ shape.in_dim + shape.group_size - 1 <= IntMax /\ expected_packed_bytes(shape) <= IntMax
    /\ \A rows \in 1..MaxRows :
         hf_nibbleflow_matvec_batch_f32(shape, rows) = (0..rows - 1) \X nibbleflow_int4_f32_ref(shape)
    /\ \A p \in Plans :
         hf_nibbleflow_validate_execution_plan(shape, p) /\ p.rank > 0 =>
           \A b \in DOMAIN apply_adapter(shape, p) : apply_adapter(shape, p)[b] < p[b]

KernelsReadOwnBuffers == BuffersKept /\ ((\A t \in Threads : At(t, "idle")) => KernelsAgree)
=============================================================================
