----------------------------- MODULE ModelPipeline -----------------------------
(***************************************************************************)
(* From a trained model to a deployment and a capsule: VerifiedAIPipeline      *)
(* (holyfitra_ai_pipeline.py) evaluates a model, exports it quantized          *)
(* (holyfitra_qat.py, holyfitra_deploy.py), loads it back, checks and plans it, *)
(* and a capsule is made from the result (holyfitra_model_capsule.py).         *)
(*   Pipelines export to one path, in threads or processes of their own, while *)
(* others train the models, revise the validation data and damage the file.    *)
(* A model is its weights, small integers; the weights of a deployment are in   *)
(* eighths of the greatest of them.  A digest is what it is the digest of.      *)
(***************************************************************************)
EXTENDS Integers, SequencesExt, FiniteSetsExt, TLC

CONSTANTS
  Pipelines,
  Models,                   \* sequences of weights
  Data, ErrorOf,            \* validation data; the error of each model on each
  max_mse, max_abs_error,   \* what evaluation, and each weight, may be off; weights count in eighths
  BlockColumns,             \* what a capsule may ask for; 0 for no layer stream
  MaxCalls, MaxEdits

VARIABLES
  rows,          \* the validation data as they are now
  fingerprint,   \* _dataset_fingerprint of each pipeline; "none"
  model,         \* the weights of the model each pipeline was given, as they are now
  call,          \* export_verified of each pipeline: where it is, and what it has
  file,          \* the file at the path: an artifact, "none" or "junk"
  capsule,       \* of each pipeline
  calls, edits   \* bounds

vars == <<rows, fingerprint, model, call, file, capsule, calls, edits>>
Idle == [at |-> "idle"]
-----------------------------------------------------------------------------
(* quantize_array, per tensor and with 4 bits: scales are positive, so that a    *)
(* tensor of zeros stays one.                                                *)
qmin == -8
qmax == 7
Magnitude(n) == IF n < 0 THEN -n ELSE n
Peak(ws) == Max({Magnitude(ws[i]) : i \in DOMAIN ws})
rint(a, b) ==
  LET q == a \div b  r == a % b  even == IF q % 2 = 0 THEN q ELSE q + 1
  IN  IF 2 * r < b THEN q ELSE IF 2 * r > b THEN q + 1 ELSE even
clip(n) == Max({qmin, Min({qmax, n})})
Quantized(ws) == [i \in DOMAIN ws |-> IF Peak(ws) = 0 THEN 0 ELSE clip(rint(8 * ws[i], Peak(ws)))]

Nibble(q, i) == IF i \in DOMAIN q THEN q[i] % 16 ELSE 0
_pack_values(q) == [k \in 1..(Len(q) + 1) \div 2 |-> Nibble(q, 2 * k - 1) + 16 * Nibble(q, 2 * k)]
_unpack_values(packed, count) ==
  [i \in 1..count |-> LET byte == packed[(i + 1) \div 2]
                          nibble == IF i % 2 = 1 THEN byte % 16 ELSE byte \div 16
                      IN  IF nibble >= 8 THEN nibble - 16 ELSE nibble]

dequantize(a) == LET q == _unpack_values(a.packed, a.count) IN [i \in DOMAIN q |-> q[i] * a.scale]
Off(ws, eighths) == Max({Magnitude(8 * ws[i] - eighths[i]) : i \in DOMAIN ws})

(* What export_mlp writes, and its metadata.                                  *)
Artifact(ws, metadata) ==
  [is |-> "artifact", packed |-> _pack_values(Quantized(ws)), scale |-> Peak(ws), count |-> Len(ws),
   metadata |-> metadata]
-----------------------------------------------------------------------------
Init ==
  /\ rows \in Data /\ fingerprint = [p \in Pipelines |-> "none"] /\ model \in [Pipelines -> Models]
  /\ call = [p \in Pipelines |-> Idle] /\ file = [is |-> "none"] /\ capsule = [p \in Pipelines |-> Idle]
  /\ calls = 0 /\ edits = 0

Others == UNCHANGED <<rows, model, capsule, calls, edits>>
Becomes(p, c) == call' = [call EXCEPT ![p] = c]
Raise(p) == Becomes(p, Idle)
At(p, step) == call[p].at = step

(* clean: history, that nobody else has touched the model, the data or the file. *)
export_verified(p) ==
  /\ At(p, "idle") /\ calls < MaxCalls /\ calls' = calls + 1
  /\ Becomes(p, [at |-> "evaluate", clean |-> TRUE])
  /\ UNCHANGED <<rows, fingerprint, model, file, capsule, edits>>

(* The data are fingerprinted once, and read again to evaluate.                 *)
Fingerprint(p) ==
  /\ At(p, "evaluate") /\ fingerprint[p] = "none" /\ fingerprint' = [fingerprint EXCEPT ![p] = rows]
  /\ UNCHANGED <<call, file>> /\ Others

EvaluationReport(p) == [dataset_digest |-> fingerprint[p], mse |-> ErrorOf[model[p]][rows]]
passed(report) == report.mse <= max_mse
evaluate(p) ==
  /\ At(p, "evaluate") /\ fingerprint[p] # "none" /\ UNCHANGED <<fingerprint, file>> /\ Others
  /\ IF ~passed(EvaluationReport(p)) THEN Raise(p)
     ELSE Becomes(p, [at |-> "hash", clean |-> call[p].clean /\ rows = fingerprint[p], report |-> EvaluationReport(p)])

_model_hash(p) ==
  /\ At(p, "hash") /\ UNCHANGED <<fingerprint, file>> /\ Others
  /\ Becomes(p, [at |-> "export", clean |-> call[p].clean, report |-> call[p].report, source |-> model[p]])

(* export_mlp: the weights pass their gate and are written beside the file,     *)
(* which is then replaced at once; a process that dies leaves it as it was.     *)
export_mlp(p) ==
  /\ At(p, "export") /\ UNCHANGED <<fingerprint, file>> /\ Others
  /\ LET artifact == Artifact(model[p], [source |-> call[p].source, report |-> call[p].report])
     IN  IF Off(model[p], dequantize(artifact)) > max_abs_error THEN Raise(p)
         ELSE Becomes(p, [call[p] EXCEPT !.at = "replace"] @@ [artifact |-> artifact, exported |-> model[p]])

(* Other calls under way no longer have the file for themselves.               *)
Touched == [p \in Pipelines |-> IF At(p, "idle") THEN call[p] ELSE [call[p] EXCEPT !.clean = FALSE]]
Replace(p) ==
  /\ At(p, "replace") /\ file' = call[p].artifact
  /\ call' = [Touched EXCEPT ![p] = [call[p] EXCEPT !.at = "load"]]
  /\ UNCHANGED fingerprint /\ Others

Die(p) == /\ ~At(p, "idle") /\ Raise(p) /\ fingerprint' = [fingerprint EXCEPT ![p] = "none"]
          /\ UNCHANGED file /\ Others

(* load_deployment: any file that was signed with the key.                     *)
Authentic == file.is = "artifact"
load_deployment(p) ==
  /\ At(p, "load") /\ UNCHANGED <<fingerprint, file>> /\ Others
  /\ IF Authentic THEN Becomes(p, [call[p] EXCEPT !.at = "drift"] @@ [bundle |-> file]) ELSE Raise(p)

(* Predictions of the model and of the bundle are as far apart as their weights, *)
(* and have the same shape when they have as many.                            *)
Drifted(ws, bundle) == bundle.count # Len(ws) \/ Off(ws, dequantize(bundle)) > max_mse

_verify_deployment_predictions(p) ==
  /\ At(p, "drift") /\ UNCHANGED <<fingerprint, file>> /\ Others
  /\ IF Drifted(model[p], call[p].bundle) THEN Raise(p) ELSE Becomes(p, [call[p] EXCEPT !.at = "plan"])

(* The plan may be refused (PlanEngine); otherwise the result is verified.      *)
verify(r) ==
  /\ r.artifact = r.lineage.deployment_hash /\ r.evaluation.dataset_digest = r.lineage.dataset_digest
  /\ r.plan.model_hash = r.artifact /\ r.plan.metadata = [lineage |-> r.lineage, dataset |-> r.dataset]
  /\ passed(r.evaluation)
ModelLineage(p) ==
  [source_model_hash |-> call[p].source, deployment_hash |-> call[p].artifact, dataset_digest |-> fingerprint[p],
   evaluation_digest |-> call[p].report]
PipelineResult(p) ==
  [dataset |-> fingerprint[p], evaluation |-> call[p].report, artifact |-> call[p].artifact, lineage |-> ModelLineage(p),
   plan |-> [model_hash |-> call[p].artifact, metadata |-> [lineage |-> ModelLineage(p), dataset |-> fingerprint[p]]]]
Plan(p) ==
  /\ At(p, "plan") /\ UNCHANGED <<fingerprint, file>> /\ Others
  /\ \/ Raise(p)
     \/ IF verify(PipelineResult(p))
        THEN Becomes(p, [at |-> "returned", clean |-> call[p].clean, exported |-> call[p].exported,
                         result |-> PipelineResult(p)])
        ELSE Raise(p)
-----------------------------------------------------------------------------
(* _build_layer_stream: a layer of n outputs in blocks of some columns.          *)
Blocks(n, columns) ==
  [b \in 1..(n + columns - 1) \div columns |->
     [output_start |-> (b - 1) * columns, output_end |-> Min({b * columns, n})]]

(* _validate_layer_stream_manifest, of a layer's blocks.                       *)
Covering(blocks, n) ==
  /\ blocks # <<>> /\ blocks[1].output_start = 0 /\ Last(blocks).output_end = n
  /\ \A b \in DOMAIN blocks : blocks[b].output_start < blocks[b].output_end
  /\ \A b \in 2..Len(blocks) : blocks[b].output_start = blocks[b - 1].output_end

(* Variant with a fault: the file is taken for the artifact of the result.      *)
Anything(r) == Authentic

SameBytes(r) == file = r.artifact

(* export_pipeline_capsule reads the file once more.  A capsule is written as    *)
(* ModelCapsule says.                                                        *)
export_pipeline_capsule(p, columns) ==
  /\ At(p, "returned") /\ capsule[p] = Idle /\ verify(call[p].result) /\ SameBytes(call[p].result)
  /\ capsule' = [capsule EXCEPT ![p] =
                   [at |-> "written", deployment |-> file, result |-> call[p].result,
                    layers |-> IF columns = 0 THEN <<>>
                               ELSE [i \in 1..file.count |-> Blocks(i, columns)]]]
  /\ UNCHANGED <<rows, fingerprint, model, call, file, calls, edits>>

Edit == edits < MaxEdits /\ edits' = edits + 1 /\ UNCHANGED <<fingerprint, capsule, calls>>
Revise == /\ Edit /\ UNCHANGED <<model, file>> /\ \E d \in Data \ {rows} : rows' = d
          /\ call' = Touched
Train(p) == /\ Edit /\ UNCHANGED <<rows, file>> /\ \E m \in Models \ {model[p]} : model' = [model EXCEPT ![p] = m]
            /\ call' = IF At(p, "idle") THEN call ELSE [call EXCEPT ![p].clean = FALSE]
Damage == Edit /\ Authentic /\ file' = [is |-> "junk"] /\ call' = Touched /\ UNCHANGED <<rows, model>>

Next ==
  \/ \E p \in Pipelines :
       \/ export_verified(p) \/ Fingerprint(p) \/ evaluate(p) \/ _model_hash(p) \/ export_mlp(p) \/ Replace(p)
       \/ load_deployment(p) \/ _verify_deployment_predictions(p) \/ Plan(p) \/ Die(p) \/ Train(p)
       \/ \E columns \in BlockColumns : export_pipeline_capsule(p, columns)
  \/ Revise \/ Damage

Spec == Init /\ [][Next]_vars
-----------------------------------------------------------------------------
(* A result that is returned says of its artifact what the artifact says of       *)
(* itself: the model it came from, the data and the report, which passed; its     *)
(* weights are within the gate of those exported.  When nobody trained the       *)
(* model, revised the data or wrote the file meanwhile, these are the weights,    *)
(* the data and the predictions that were evaluated.                           *)
ResultsHold ==
  \A p \in Pipelines : At(p, "returned") =>
    LET r == call[p].result
    IN  /\ r.artifact.metadata = [source |-> r.lineage.source_model_hash, report |-> r.evaluation]
        /\ r.evaluation.dataset_digest = r.dataset /\ r.evaluation.mse <= max_mse
        /\ Off(call[p].exported, dequantize(r.artifact)) <= max_abs_error
        /\ call[p].clean =>
             /\ r.lineage.source_model_hash = call[p].exported
             /\ ErrorOf[call[p].exported][r.dataset] = r.evaluation.mse
             /\ ~Drifted(call[p].exported, r.artifact)

(* The file, when it is whole, is of a model that passed evaluation; not always   *)
(* of one whose export succeeded.  A capsule holds the artifact of a verified     *)
(* result, whatever happened to the file, and its layers cover each output once. *)
FilesHold ==
  /\ Authentic => file.metadata.report.mse <= max_mse
  /\ \A p \in Pipelines : capsule[p] # Idle =>
       /\ verify(capsule[p].result) /\ capsule[p].deployment = capsule[p].result.artifact
       /\ \A i \in DOMAIN capsule[p].layers :
            LET blocks == capsule[p].layers[i]
                Within(c) == {b \in DOMAIN blocks : c \in blocks[b].output_start + 1..blocks[b].output_end}
            IN  Covering(blocks, i) /\ \A c \in 1..i : Cardinality(Within(c)) = 1

(* A weight is off by half a step at most, and by a whole one if it is near the   *)
(* greatest of all, which has no code of its own.                              *)
StepsAreHalved ==
  \A m \in Models :
    LET eighths == dequantize(Artifact(m, {}))
    IN  \A i \in DOMAIN m :
          LET off == Magnitude(8 * m[i] - eighths[i])
          IN  off <= Peak(m) /\ (2 * 8 * m[i] <= 15 * Peak(m) => 2 * off <= Peak(m))

PipelineHolds == ResultsHold /\ FilesHold /\ StepsAreHalved
=============================================================================
