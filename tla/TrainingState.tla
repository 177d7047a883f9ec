----------------------------- MODULE TrainingState -----------------------------
(***************************************************************************)
(* Training with an optimizer, a replay buffer and checkpoints                *)
(* (holyfitra_learning.py), on batches of arrays or of a StreamingDataset, whose *)
(* rows pass a bounded buffer in random order (holyfitra_data.py).  What a       *)
(* parameter or a moment holds is the number of updates that went into it; Bad  *)
(* is an array that is not finite.                                           *)
(***************************************************************************)
EXTENDS Integers, FiniteSets

CONSTANTS Parameters, Bad, MaxSteps, capacity, MaxSeen,
          samples, batch_size, shuffle_buffer   \* of an epoch; no batch is greater than the buffer

VARIABLES
  model,       \* the parameters' data, in order
  optimizer,   \* step_count, _m and _v
  replay,      \* how many rows it holds, and _seen
  streaming,   \* it is train_supervised_streaming that trains
  epoch,       \* the next row to read, those buffered, those of the next batch, those trained on
  checkpoint,  \* the file; <<>> for none
  torn         \* history: loading raised, here or before the checkpoint was written

vars == <<model, optimizer, replay, streaming, epoch, checkpoint, torn>>
NoRows == [rows |-> 0, seen |-> 0]
All(n) == [p \in Parameters |-> n]

(* Arrays are all there, and permuted; a stream has yet to be read.              *)
Fresh(streams) ==
  [next |-> IF streams THEN 1 ELSE samples + 1, buffer |-> IF streams THEN {} ELSE 1..samples,
   inputs |-> {}, trained |-> {}]
AllRead == epoch.next > samples /\ epoch.buffer = {}
BatchDue == epoch.inputs # {} /\ (Cardinality(epoch.inputs) = batch_size \/ AllRead)

Init ==
  /\ model = All(0) /\ optimizer = [step_count |-> 0, _m |-> All(0), _v |-> All(0)]
  /\ replay = NoRows /\ checkpoint = <<>> /\ torn = FALSE
  /\ streaming \in BOOLEAN /\ epoch = Fresh(streaming)
-----------------------------------------------------------------------------
(* Variant with a fault: each parameter is updated as it is computed.          *)
UpdatedBefore(bad) == 1..bad - 1

(* Adam.step: what is not finite at one parameter leaves all as they were.     *)
Updated(bad) == IF bad \in Parameters THEN {} ELSE Parameters
Plus1(values, ps) == [p \in Parameters |-> IF p \in ps THEN values[p] + 1 ELSE values[p]]

(* Variant with a fault: the row stays in the buffer.                           *)
TakenKept(row, e) == [e EXCEPT !.inputs = @ \cup {row}]

(* _buffer_shuffle: a row that is read takes the place of a random one, which     *)
(* joins the batch; those left at the end do so in any order.  A sample that is   *)
(* not valid raises.                                                         *)
Taken(row, e) == [e EXCEPT !.buffer = @ \ {row}, !.inputs = @ \cup {row}]
_validate_sample == BOOLEAN
Row ==
  /\ ~BatchDue /\ ~AllRead /\ replay.seen < MaxSeen /\ optimizer.step_count < MaxSteps
  /\ UNCHANGED <<model, optimizer, replay, streaming, checkpoint, torn>>
  /\ IF epoch.next > samples THEN \E row \in epoch.buffer : epoch' = Taken(row, epoch)
     ELSE \E valid \in _validate_sample :
       LET read == [epoch EXCEPT !.next = @ + 1, !.buffer = @ \cup {epoch.next}]
       IN  IF ~valid THEN epoch' = Fresh(streaming)
           ELSE IF Cardinality(epoch.buffer) < shuffle_buffer THEN epoch' = read
           ELSE \E row \in epoch.buffer : epoch' = Taken(row, read)

(* ReplayBuffer.add_batch; the reservoir keeps as many rows as it may hold.    *)
Added(r, n) == [rows |-> IF r.rows + n < capacity THEN r.rows + n ELSE capacity, seen |-> r.seen + n]

(* A batch, whose update may not be finite at a parameter (0: at none): the     *)
(* epoch ends there when it raises.  Streaming, its rows are replayed at once.  *)
Batch(bad) ==
  /\ BatchDue /\ optimizer.step_count < MaxSteps /\ replay.seen < MaxSeen
  /\ model' = Plus1(model, Updated(bad))
  /\ optimizer' = [step_count |-> optimizer.step_count + (IF bad = 0 THEN 1 ELSE 0),
                   _m |-> Plus1(optimizer._m, Updated(bad)), _v |-> Plus1(optimizer._v, Updated(bad))]
  /\ epoch' = IF bad # 0 THEN Fresh(streaming)
              ELSE [epoch EXCEPT !.inputs = {}, !.trained = @ \cup epoch.inputs]
  /\ replay' = IF streaming /\ bad = 0 THEN Added(replay, Cardinality(epoch.inputs)) ELSE replay
  /\ UNCHANGED <<streaming, checkpoint, torn>>

(* The epoch ends: its rows join the replay buffer, unless they have, and a     *)
(* checkpoint, when one is due, replaces the file at once or, the process       *)
(* dying, not at all.                                                         *)
save_checkpoint(r) == checkpoint' = [model |-> model, optimizer |-> optimizer, replay |-> r, torn |-> torn]
EpochEnd(saves) ==
  /\ AllRead /\ epoch.inputs = {} /\ epoch' = Fresh(streaming)
  /\ replay' = IF streaming THEN replay ELSE Added(replay, samples)
  /\ IF saves THEN save_checkpoint(replay') ELSE UNCHANGED checkpoint
  /\ UNCHANGED <<model, optimizer, streaming, torn>>

(* Something in the file is no longer a finite number, or a possible count.    *)
Damage(part, p) ==    \* bound: of a file of intact state
  /\ checkpoint # <<>> /\ ~checkpoint.torn /\ ~torn
  /\ checkpoint' = CASE part = "model" -> [checkpoint EXCEPT !.model[p] = Bad]
                     [] part = "_m" -> [checkpoint EXCEPT !.optimizer._m[p] = Bad]
                     [] part = "_v" -> [checkpoint EXCEPT !.optimizer._v[p] = Bad]
                     [] part = "seen" -> [checkpoint EXCEPT !.replay.seen = -1]
  /\ UNCHANGED <<model, optimizer, replay, streaming, epoch, torn>>

(* load_checkpoint: the model, the optimizer and the replay buffer in turn, each *)
(* parameter in turn, until something is not valid; step_count comes first.     *)
Loaded(now, new, p) == [q \in Parameters |-> IF q < p THEN new[q] ELSE now[q]]
FirstBad(bad) == CHOOSE p \in bad \cup {Cardinality(Parameters) + 1} : \A q \in bad : p <= q
Counted(r) == r.seen >= r.rows
WithRows(r) == [rows |-> IF Counted(r) THEN r.rows ELSE replay.rows, seen |-> r.seen]
load_checkpoint ==
  LET c == checkpoint  o == c.optimizer
      all == Cardinality(Parameters) + 1
      m == FirstBad({p \in Parameters : c.model[p] = Bad})
      n == FirstBad({p \in Parameters : Bad \in {o._m[p], o._v[p]}})
  IN  /\ c # <<>> /\ epoch = Fresh(streaming)
      /\ model' = Loaded(model, c.model, m)
      /\ optimizer' = IF m # all THEN optimizer
                      ELSE [step_count |-> o.step_count, _m |-> Loaded(optimizer._m, o._m, n),
                            _v |-> Loaded(optimizer._v, o._v, n)]
      /\ replay' = IF m # all \/ n # all THEN replay ELSE WithRows(c.replay)
      /\ torn' = (m # all \/ n # all \/ ~Counted(c.replay) \/ c.torn)
      /\ UNCHANGED <<streaming, epoch, checkpoint>>

(* The process dies; a new one starts anew and may load the checkpoint.       *)
Restart ==
  /\ model' = All(0) /\ optimizer' = [step_count |-> 0, _m |-> All(0), _v |-> All(0)]
  /\ replay' = NoRows /\ epoch' = Fresh(streaming) /\ torn' = FALSE
  /\ UNCHANGED <<streaming, checkpoint>>

Next ==
  \/ Row
  \/ \E bad \in {0} \cup Parameters : Batch(bad)
  \/ \E saves \in BOOLEAN : EpochEnd(saves)
  \/ \E part \in {"model", "_m", "_v", "seen"}, p \in Parameters : Damage(part, p)
  \/ load_checkpoint \/ Restart

Spec == Init /\ [][Next]_vars
-----------------------------------------------------------------------------
(* Every parameter and both its moments have seen as many updates as the         *)
(* optimizer has counted and the replay buffer has seen what it holds, whatever  *)
(* raised in training and whatever was loaded, unless the loading itself raised. *)
(* An epoch trains once on each row and keeps no more of them than its buffer    *)
(* holds; streaming, the replay buffer has seen those trained on.               *)
StateAgrees ==
  /\ ~torn => /\ model = All(optimizer.step_count)
              /\ optimizer._m = model /\ optimizer._v = model
              /\ replay.seen >= replay.rows
  /\ replay.rows \in 0..capacity
  /\ LET e == epoch  parts == <<e.buffer, e.inputs, e.trained>>
     IN  /\ UNION {e.buffer, e.inputs, e.trained} = 1..e.next - 1
         /\ \A i, j \in 1..3 : i # j => parts[i] \cap parts[j] = {}
         /\ streaming => Cardinality(e.buffer) <= shuffle_buffer
         /\ streaming /\ ~torn => replay.seen >= Cardinality(e.trained)
=============================================================================
