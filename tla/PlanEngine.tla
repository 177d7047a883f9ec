------------------------------- MODULE PlanEngine -------------------------------
(***************************************************************************)
(* Execution plans (holy_fitra_execution_plan.py) and the engine that compiles *)
(* them behind filters and a cache that threads share                        *)
(* (holy_fitra_self_improve.py).  A plan is identified by what it says.       *)
(***************************************************************************)
EXTENDS Integers, SequencesExt, FiniteSetsExt, TLC

CONSTANTS
  Threads, Features,
  Requests,            \* [candidates |-> a sequence of kernels, constraints |-> ...]
  kernel_abi, Times

VARIABLES features, cache, calls, now

vars == <<features, cache, calls, now>>
Idle == [at |-> "idle"]
Raised == [is |-> "raised"]

Init ==
  /\ features \in SUBSET Features /\ cache = <<>> /\ now \in {0} \cap Times
  /\ calls = [t \in Threads |-> Idle]
-----------------------------------------------------------------------------
preferred(k) ==
  IF k.thermal # "critical" /\ k.priority \in {"interactive", "latency"}
  THEN "big_preferred" ELSE "little_preferred"
choose_core(k) ==
  IF preferred(k) \in k.allowed_cores THEN preferred(k)
  ELSE IF "any" \in k.allowed_cores THEN "any" ELSE "none"

passes_quality_gate(c) == c.mse <= c.max_mse /\ c.proof_hash # ""
WithinBudgets(c, k) == c.memory <= k.memory_budget
Accepted(c, k) ==
  /\ c.abi = kernel_abi /\ c.mse <= k.max_mse /\ passes_quality_gate(c) /\ WithinBudgets(c, k)
  /\ {choose_core(k), "any"} \cap c.cores # {}
  /\ ~(k.thermal = "critical" /\ "big_only" \in c.cores /\ "little_preferred" \notin c.cores)

verify(p) == (p.deadline = 0 \/ now <= p.deadline) /\ ~(p.thermal = "critical" /\ p.core = "big_only")

(* PlanCompiler.compile: the first candidate that passes all gates, the others  *)
(* as its fallbacks.                                                         *)
PlanOf(candidates, k) ==
  LET accepted == SelectSeq(candidates, LAMBDA c : Accepted(c, k))
  IN  IF k.required_abi # kernel_abi \/ choose_core(k) = "none" \/ accepted = <<>> THEN Raised
      ELSE IF ~k.fallback /\ accepted[1].precision # "int4" THEN Raised
      ELSE [is |-> "plan", kernel |-> accepted[1], core |-> choose_core(k), thermal |-> k.thermal,
            priority |-> k.priority, deadline |-> k.deadline, fallbacks |-> {c.name : c \in Range(Tail(accepted))}]
Checked(p) == IF p.is = "plan" /\ verify(p) THEN p ELSE Raised

(* Variant with a fault: two requests under different constraints share a key.  *)
KeyOfCandidates(q) == q.candidates

_key(q) == q

Identity(c) == <<c.name, c.precision, c.proof_hash>>
Filtered(q) ==
  LET kept == SelectSeq(q.candidates, LAMBDA c :
                /\ "prefilter_abi" \in features => c.abi = q.constraints.required_abi
                /\ "proof_index" \in features => passes_quality_gate(c)
                /\ "resource_filter" \in features => WithinBudgets(c, q.constraints))
      first(i) == \A j \in 1..i - 1 : Identity(kept[j]) # Identity(kept[i])
  IN  IF "deduplicate_candidates" \notin features THEN kept
      ELSE FoldLeftDomain(LAMBDA s, i : IF first(i) THEN Append(s, kept[i]) ELSE s, <<>>, kept)

Return(t, result) == calls' = [calls EXCEPT ![t] = [at |-> "done", q |-> calls[t].q, result |-> result]]

compile(t, q) == /\ calls[t].at \in {"idle", "done"} /\ calls' = [calls EXCEPT ![t] = [at |-> "get", q |-> q]]
                 /\ UNCHANGED <<features, cache, now>>

Get(t) ==
  /\ calls[t].at = "get"
  /\ IF "plan_cache" \in features /\ _key(calls[t].q) \in DOMAIN cache
     THEN Return(t, Checked(cache[_key(calls[t].q)]))
     ELSE calls' = [calls EXCEPT ![t].at = "compile"]
  /\ UNCHANGED <<features, cache, now>>

Compile(t) ==
  LET q == calls[t].q  p == Checked(PlanOf(Filtered(q), q.constraints)) IN
  /\ calls[t].at = "compile"
  /\ IF p = Raised THEN Return(t, p) ELSE calls' = [calls EXCEPT ![t] = [at |-> "put", q |-> q, plan |-> p]]
  /\ UNCHANGED <<features, cache, now>>

(* Another thread may have put a plan there meanwhile; a different one raises.  *)
Put(t) ==
  LET key == _key(calls[t].q) IN
  /\ calls[t].at = "put"
  /\ IF "plan_cache" \in features /\ key \in DOMAIN cache /\ cache[key] # calls[t].plan
     THEN Return(t, [is |-> "collision"]) /\ UNCHANGED cache
     ELSE /\ Return(t, calls[t].plan)
          /\ cache' = IF "plan_cache" \in features THEN key :> calls[t].plan @@ cache ELSE cache
  /\ UNCHANGED <<features, now>>

Tick == now + 1 \in Times /\ now' = now + 1 /\ UNCHANGED <<features, cache, calls>>

Next == Tick \/ \E t \in Threads : Get(t) \/ Compile(t) \/ Put(t) \/ \E q \in Requests : compile(t, q)

Spec == Init /\ [][Next]_vars
-----------------------------------------------------------------------------
Hides(q) ==
  "deduplicate_candidates" \in features /\ \E i, j \in DOMAIN q.candidates :
    i < j /\ Identity(q.candidates[i]) = Identity(q.candidates[j]) /\ q.candidates[i] # q.candidates[j]

(* Whatever filters are on and whatever threads have put in the cache, a plan    *)
(* is the one the compiler alone makes of the request, or the request had no     *)
(* plan or only one that is late; but two different candidates of one identity   *)
(* may hide each other when duplicates are filtered.  Threads never collide.    *)
PlansAsCompiled ==
  \A t \in Threads : calls[t].at = "done" =>
    LET q == calls[t].q  r == calls[t].result  alone == PlanOf(q.candidates, q.constraints)
    IN  /\ r.is # "collision"
        /\ ~Hides(q) =>
             IF r.is = "plan" THEN alone = [r EXCEPT !.fallbacks = alone.fallbacks]
                              ELSE alone = Raised \/ (alone.deadline # 0 /\ now > alone.deadline)
=============================================================================
