---------------------------- MODULE EvidenceRuntime ----------------------------
(***************************************************************************)
(* The agent runtime over its evidence (holyfitra_ai_system.py): retrieval    *)
(* and tools add to a ledger that only grows, a tool runs when its capability   *)
(* is granted and its claim is borne out by the ledger, another thread may     *)
(* cancel.  What a text says is its topic and whether it denies it; that a      *)
(* claim overlaps enough with a text means that their topics are the same.     *)
(***************************************************************************)
EXTENDS Integers, SequencesExt, FiniteSetsExt, TLC

CONSTANTS
  Plans, max_steps, require_claims,
  Documents,        \* what retrieval finds: id |-> [kind, topic, denies, confidence]
  Capability,       \* tool |-> the capability it requires
  Results,          \* what a handler may return; <<>> is none that is valid
  NoClaim, min_confidence

VARIABLES
  run,         \* the call of AgentRuntime.run: plan, grants, step, whether it checked for cancel, status
  ledger, trace,
  _cancelled,
  effects      \* the tools whose handlers ran, each with the ledger it ran on

vars == <<run, ledger, trace, _cancelled, effects>>

Init ==
  /\ run = [status |-> "none"] /\ ledger = <<>> /\ trace = <<>> /\ effects = <<>>
  /\ _cancelled = FALSE
-----------------------------------------------------------------------------
(* ClaimVerifier.verify: the facts it goes by are those cited, or else all.    *)
Confident(id) == ledger[id].kind = "fact" /\ ledger[id].confidence >= min_confidence

(* Variant with a fault: cited evidence counts whatever it is.                 *)
SupportedByAny(claim, cited) ==
  LET factual == IF cited = {} THEN {id \in DOMAIN ledger : Confident(id)} ELSE cited \cap DOMAIN ledger
      matching == {id \in factual : ledger[id].topic = claim.topic}
  IN  matching # {} /\ \A id \in matching : ledger[id].denies = claim.denies

Supported(claim, cited) ==
  LET factual == IF cited = {} THEN {id \in DOMAIN ledger : Confident(id)} ELSE cited
      matching == {id \in factual : ledger[id].topic = claim.topic}
  IN  /\ \A id \in cited : id \in DOMAIN ledger /\ Confident(id)
      /\ matching # {} /\ \A id \in matching : ledger[id].denies = claim.denies

(* EvidenceLedger.add: what is there may only become more certain.            *)
Addable(id, e) ==
  id \in DOMAIN ledger => /\ [ledger[id] EXCEPT !.confidence = e.confidence] = e
                          /\ e.confidence >= ledger[id].confidence
-----------------------------------------------------------------------------
Run(plan, grants) ==
  /\ run.status = "none" /\ Len(plan) <= max_steps
  /\ run' = [status |-> "running", plan |-> plan, grants |-> grants, step |-> 1, checked |-> FALSE]
  /\ _cancelled' = FALSE
  /\ UNCHANGED <<ledger, trace, effects>>

cancel == run.status # "none" /\ ~_cancelled /\ _cancelled' = TRUE
          /\ UNCHANGED <<run, ledger, trace, effects>>

Running == run.status = "running"
Action == run.plan[run.step]
Log(event) == trace' = Append(trace, event)
Return(status) == run' = [run EXCEPT !.status = status]
NextStep == run' = [run EXCEPT !.step = @ + 1, !.checked = FALSE]

CheckCancelled ==
  /\ Running /\ ~run.checked /\ run.step <= Len(run.plan)
  /\ IF _cancelled THEN Return("cancelled") ELSE run' = [run EXCEPT !.checked = TRUE]
  /\ UNCHANGED <<ledger, trace, _cancelled, effects>>

Retrieve ==
  /\ Running /\ run.checked /\ Action.kind = "retrieve"
  /\ IF \A id \in DOMAIN Documents : Addable(id, Documents[id])
     THEN ledger' = Documents @@ ledger /\ NextStep
     ELSE Return("raised") /\ UNCHANGED ledger
  /\ UNCHANGED <<trace, _cancelled, effects>>

Blocked == IF Action.claim = NoClaim THEN require_claims ELSE ~Supported(Action.claim, Action.cited)

(* A tool without a supported claim, or without its capability; then one that   *)
(* runs: its handler acts, and only then is the result looked at.             *)
Block == /\ Blocked /\ Return("blocked_claim") /\ UNCHANGED <<ledger, trace, effects>>
Deny == /\ ~Blocked /\ Capability[Action.name] \notin run.grants
        /\ Return("raised") /\ UNCHANGED <<ledger, trace, effects>>
Invoke ==
  /\ ~Blocked /\ Capability[Action.name] \in run.grants
  /\ effects' = Append(effects, [step |-> run.step, name |-> Action.name, on |-> ledger])
  /\ \E result \in Results :
       IF result = <<>> \/ ~Addable(<<run.step, Action.name>>, result)
       THEN Return("raised") /\ UNCHANGED <<ledger, trace>>
       ELSE /\ ledger' = <<run.step, Action.name>> :> result @@ ledger
            /\ Log([step |-> run.step, name |-> Action.name]) /\ NextStep
(* Variant with a fault: a tool does not wait for the look at the cancellation.  *)
ToolUnchecked ==
  /\ Running /\ run.step <= Len(run.plan) /\ Action.kind = "tool"
  /\ Block \/ Deny \/ Invoke
  /\ UNCHANGED _cancelled

Tool ==
  /\ Running /\ run.checked /\ Action.kind = "tool"
  /\ Block \/ Deny \/ Invoke
  /\ UNCHANGED _cancelled

Complete == /\ Running /\ run.step > Len(run.plan) /\ Return("completed")
            /\ UNCHANGED <<ledger, trace, _cancelled, effects>>

Next == \/ run.status = "none" /\ \E plan \in Plans, grants \in SUBSET Range(Capability) : Run(plan, grants)
        \/ cancel \/ CheckCancelled \/ Retrieve \/ Tool \/ Complete

Spec == Init /\ [][Next]_vars
-----------------------------------------------------------------------------
(* A tool with a claim ran on a ledger in which a confident fact bears the      *)
(* claim out, and none that the claim did not leave out of its citations        *)
(* denies it; a result that is returned names every tool that ran and holds     *)
(* what it returned.                                                         *)
ToolsAccounted ==
  /\ \A i \in DOMAIN effects :
       LET a == run.plan[effects[i].step]
           on == effects[i].on
           facts == {id \in DOMAIN on : on[id].kind = "fact" /\ on[id].confidence >= min_confidence}
       IN  /\ a.claim = NoClaim => ~require_claims
           /\ a.claim # NoClaim =>
                /\ \E id \in facts : on[id].topic = a.claim.topic /\ on[id].denies = a.claim.denies
                /\ \A id \in facts : on[id].topic = a.claim.topic /\ on[id].denies # a.claim.denies =>
                                       a.cited # {} /\ id \notin a.cited
  /\ run.status \in {"completed", "cancelled", "blocked_claim"} =>
       /\ Len(trace) = Len(effects)
       /\ \A i \in DOMAIN effects : /\ trace[i].step = effects[i].step
                                    /\ <<effects[i].step, effects[i].name>> \in DOMAIN ledger

(* Nothing in the ledger is taken back or becomes less certain, and once a run  *)
(* is cancelled only the action it was already at still happens.              *)
LedgerGrows ==
  \A id \in DOMAIN ledger : /\ id \in DOMAIN ledger' /\ ledger'[id].confidence >= ledger[id].confidence
                            /\ [ledger'[id] EXCEPT !.confidence = 0] = [ledger[id] EXCEPT !.confidence = 0]
RunIsOrderly == LedgerGrows /\ (_cancelled /\ Running /\ ~run.checked => effects' = effects)
=============================================================================
