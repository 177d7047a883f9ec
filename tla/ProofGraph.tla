------------------------------- MODULE ProofGraph -------------------------------
(***************************************************************************)
(* Proofs that rest on other proofs (ProofGraph of holy_fitra_runtime.py): a    *)
(* proof is added on proofs that are there, taken back with everything that     *)
(* rests on it, and repaired with its evidence.                              *)
(***************************************************************************)
EXTENDS Integers, Sequences, SequencesExt

CONSTANT EvidenceOf     \* the evidence hash of each proof; they are added in this order

VARIABLES
  nodes,        \* [name, dependencies, evidence_hash, valid], in the order they were added
  onValid       \* history: the names that were added when all they rest on was valid

vars == <<nodes, onValid>>
Named == {nodes[i].name : i \in DOMAIN nodes}
Node(n) == nodes[CHOOSE i \in DOMAIN nodes : nodes[i].name = n]
AreValid(names) == \A d \in names : Node(d).valid

Init == nodes = <<>> /\ onValid = {}

(* A proof is taken for valid when it is added, whatever it rests on.           *)
add(n, dependencies) ==
  /\ n \notin Named /\ dependencies \subseteq Named /\ EvidenceOf[n] # ""
  /\ nodes' = Append(nodes, [name |-> n, dependencies |-> dependencies, evidence_hash |-> EvidenceOf[n],
                             valid |-> TRUE])
  /\ onValid' = IF AreValid(dependencies) THEN onValid \cup {n} ELSE onValid

(* Over the nodes again and again, until nothing is added; as often as there are  *)
(* nodes is enough.                                                          *)
Pass(n, invalidated) ==
  FoldLeft(LAMBDA acc, node : IF node.valid /\ (node.name = n \/ node.dependencies \cap acc # {})
                              THEN acc \cup {node.name} ELSE acc, invalidated, nodes)
Invalidated(n) == FoldLeft(LAMBDA acc, node : Pass(n, acc), {}, nodes)
invalidate(n) ==
  /\ n \in Named
  /\ nodes' = [i \in DOMAIN nodes |-> [nodes[i] EXCEPT !.valid = @ /\ nodes[i].name \notin Invalidated(n)]]
  /\ UNCHANGED onValid

(* Variant with a fault: what the proof rests on is not looked at.             *)
Repairable(n, hash) == Node(n).evidence_hash = hash

MayRepair(n, hash) == AreValid(Node(n).dependencies) /\ Node(n).evidence_hash = hash
repair(n, hash) ==
  /\ n \in Named /\ MayRepair(n, hash)
  /\ nodes' = [i \in DOMAIN nodes |-> [nodes[i] EXCEPT !.valid = @ \/ nodes[i].name = n]]
  /\ UNCHANGED onValid

Next == \E n \in DOMAIN EvidenceOf :
          \/ n = Len(nodes) + 1 /\ \E d \in SUBSET Named : add(n, d)
          \/ invalidate(n) \/ \E m \in DOMAIN EvidenceOf : repair(n, EvidenceOf[m])

Spec == Init /\ [][Next]_vars
-----------------------------------------------------------------------------
(* A valid proof that was added on valid ones rests on valid ones, through every  *)
(* invalidation and repair since; nothing rests on itself.                   *)
ProofsRest ==
  \A i \in DOMAIN nodes :
    /\ nodes[i].valid /\ nodes[i].name \in onValid => AreValid(nodes[i].dependencies)
    /\ \A d \in nodes[i].dependencies : \E j \in 1..i - 1 : nodes[j].name = d
=============================================================================
