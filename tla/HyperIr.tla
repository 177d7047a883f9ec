--------------------------------- MODULE HyperIr ---------------------------------
(***************************************************************************)
(* A HyperIR graph that is built, edited, written as text and read again, and *)
(* verified through the cache of verdicts all graphs share (hyperc_hyperir.py). *)
(* A digest is what it is taken of; a scope is the requests it covers.         *)
(***************************************************************************)
EXTENDS Integers, SequencesExt

CONSTANTS
  Values,          \* [name, kind], kind "tensor" or a kind of evidence
  Ops,             \* [op, inputs, outputs, attr, declares]: attr the cache_id, declares its effect
  Request, Policies, Proofs,
                   \* what a tool_propose asks for; policies; errors and their limits
  MaxOperations, _VERIFY_CACHE_LIMIT

VARIABLES
  values, operations,
  policy,          \* [allow, deny], sets of scopes
  proof,           \* a quantization proof: [layer_error, max_layer_error, verified]
  _VERIFY_CACHE,   \* <<digest, errors, verified>> in the order of use
  verdict          \* history: the errors verify returned for the graph as it is; <<>> for none

graph == <<values, operations, policy>>
vars == <<graph, proof, _VERIFY_CACHE, verdict>>

Named(n) == {v \in values : v.name = n}
Names == {v.name : v \in values}
Value(n) == CHOOSE v \in values : v.name = n
Outputs == UNION {operations[i].outputs : i \in DOMAIN operations}
-----------------------------------------------------------------------------
Order == [prediction |-> 0, claim |-> 1, fact |-> 2]
can_flow_to(from, to) == Order[from] >= Order[to]

authorize == ~(\E s \in policy.deny : Request \in s) /\ \E s \in policy.allow : Request \in s

(* verify goes over the operations with the state of each cache; an operation   *)
(* whose output has no value is not an error but raises.                     *)
Kinds(names) == {Value(n).kind : n \in names}
Accepted(o, state) ==
  CASE o.op = "add" -> Kinds(o.inputs) = {"tensor"} /\ Kinds(o.outputs) = {"tensor"}
    [] o.op = "cache_begin" -> state[o.attr] \in {"none", "committed"}
    [] o.op = "cache_append" -> state[o.attr] = "open" /\ o.declares
    [] o.op \in {"cache_commit", "cache_rollback"} -> state[o.attr] = "open"
    [] o.op = "tool_propose" -> Kinds(o.outputs) = {"prediction"} /\ o.declares /\ authorize
    [] o.op = "verify_evidence" ->
         /\ Kinds(o.inputs) \subseteq DOMAIN Order /\ Kinds(o.outputs) = {"fact"}
         /\ \A k \in Kinds(o.inputs) : can_flow_to(k, "fact")
    [] OTHER -> FALSE
After(o, state) ==
  CASE o.op = "cache_begin" -> [state EXCEPT ![o.attr] = "open"]
    [] o.op = "cache_commit" -> [state EXCEPT ![o.attr] = "committed"]
    [] o.op = "cache_rollback" -> [state EXCEPT ![o.attr] = "rolled_back"]
    [] OTHER -> state

Errors ==
  FoldLeft(LAMBDA acc, i : IF Accepted(operations[i], acc.state)
                           THEN [acc EXCEPT !.state = After(operations[i], @)] ELSE [acc EXCEPT !.errors = @ \cup {i}],
           [state |-> [c \in {o.attr : o \in Ops} |-> "none"], errors |-> {}],
           [i \in DOMAIN operations |-> i]).errors

ProofHolds == proof.layer_error <= proof.max_layer_error

(* Variant with a fault: the thresholds of the proof are left out.            *)
digestOfMetrics == <<graph, proof.layer_error>>

digest == <<graph, proof.layer_error, proof.max_layer_error>>

Hit == {i \in DOMAIN _VERIFY_CACHE : _VERIFY_CACHE[i][1] = digest}
Computed == <<digest, IF ProofHolds THEN Errors ELSE Errors \cup {0}, ProofHolds>>   \* 0: the proof
verify ==
  /\ Outputs \subseteq Names
  /\ \E entry \in IF Hit = {} THEN {Computed} ELSE {_VERIFY_CACHE[i] : i \in Hit} :
       LET used == Append(SelectSeq(_VERIFY_CACHE, LAMBDA e : e # entry), entry)
       IN  /\ _VERIFY_CACHE' = IF Len(used) > _VERIFY_CACHE_LIMIT THEN Tail(used) ELSE used
           /\ verdict' = <<entry[2]>> /\ proof' = [proof EXCEPT !.verified = entry[3]]
  /\ UNCHANGED graph
-----------------------------------------------------------------------------
Init ==
  /\ values = {} /\ operations = <<>> /\ policy \in Policies
  /\ proof \in {[layer_error |-> p[1], max_layer_error |-> p[2], verified |-> FALSE] : p \in Proofs}
  /\ _VERIFY_CACHE = <<>> /\ verdict = <<>>

Edited == verdict' = <<>> /\ UNCHANGED _VERIFY_CACHE

(* add_value, and add_output_value, which is one of an operation's output.     *)
add_value(v) ==
  /\ v.name \notin Names /\ values' = values \cup {v}
  /\ Edited /\ UNCHANGED <<operations, policy, proof>>

add_operation(o) ==
  /\ Len(operations) < MaxOperations
  /\ o.inputs \subseteq Names /\ o.outputs \cap Names = {}
  /\ operations' = Append(operations, o)
  /\ Edited /\ UNCHANGED <<values, policy, proof>>

(* Bound: policies and proofs change between two verifications only.          *)
SetPolicy(p) ==
  /\ verdict # <<>> /\ policy' = p /\ p # policy
  /\ Edited /\ UNCHANGED <<values, operations, proof>>

SetProof(p) ==
  /\ verdict # <<>> /\ proof' = [proof EXCEPT !.layer_error = p[1], !.max_layer_error = p[2]] /\ proof' # proof
  /\ Edited /\ UNCHANGED graph

(* from_text of to_text: the values no operation produces, the operations in    *)
(* their order, each followed by the values of its outputs; or it raises.      *)
Reread ==
  FoldLeft(LAMBDA ir, o :
             IF ir.raises \/ ~(o.inputs \subseteq {v.name : v \in ir.values})
                \/ o.outputs \cap {v.name : v \in ir.values} # {} THEN [ir EXCEPT !.raises = TRUE]
             ELSE [ir EXCEPT !.operations = Append(@, o), !.values = @ \cup {v \in values : v.name \in o.outputs}],
           [values |-> {v \in values : v.name \notin Outputs}, operations |-> <<>>, raises |-> FALSE], operations)

Reload ==
  /\ ~Reread.raises /\ values' = Reread.values /\ operations' = Reread.operations
  /\ proof' = [proof EXCEPT !.verified = FALSE] /\ Edited /\ UNCHANGED policy

Next ==
  \/ \E v \in Values : add_value(v)
  \/ \E o \in Ops : add_operation(o)
  \/ \E p \in Policies : SetPolicy(p)
  \/ \E p \in Proofs : SetProof(p)
  \/ verify \/ Reload

Spec == Init /\ [][Next]_vars
-----------------------------------------------------------------------------
(* The operations on one cache before the i-th, latest last.                  *)
Before(i) == SelectSeq(SubSeq(operations, 1, i - 1),
                       LAMBDA o : o.attr = operations[i].attr /\ o.op \in {"cache_begin", "cache_commit", "cache_rollback"})
InTransaction(i) == Before(i) # <<>> /\ Last(Before(i)).op = "cache_begin"

(* Whatever was verified before, here or elsewhere, a graph that is reported    *)
(* valid is so as it is now, and its proofs are marked so: caches are written   *)
(* in transactions that neither nest nor follow a rollback, no tool is proposed *)
(* against the policy, and every fact is from facts.  And a text says all of a   *)
(* graph, unless two of its operations give the same value.                   *)
ValidMeansLegal ==
  /\ verdict = <<{}>> =>
       /\ proof.verified /\ ProofHolds
       /\ \A i \in DOMAIN operations :
            LET o == operations[i]
            IN  /\ o.op \in {"cache_append", "cache_commit", "cache_rollback"} => InTransaction(i)
                /\ o.op = "cache_begin" => Before(i) = <<>> \/ Last(Before(i)).op = "cache_commit"
                /\ o.op = "tool_propose" => authorize
                /\ o.op = "verify_evidence" => Kinds(o.inputs \cup o.outputs) = {"fact"}
  /\ verdict # <<>> => proof.verified = ProofHolds
  /\ IF \A i, j \in DOMAIN operations : i # j => operations[i].outputs \cap operations[j].outputs = {}
     THEN Reread = [values |-> values, operations |-> operations, raises |-> FALSE]
     ELSE Outputs \subseteq Names => Reread.raises
=============================================================================
