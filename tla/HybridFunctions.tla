---------------------------- MODULE HybridFunctions ----------------------------
(***************************************************************************)
(* A hybrid function, which calls others one after the other or side by side: *)
(*   - as the compiler declares it (holyfitra_compiler.py: its part of          *)
(*     validate_native, and what emit_function emits for it), for a            *)
(*     declaration as it is written.  Its components and reducers are the      *)
(*     program's other functions; "h" is its own name;                        *)
(*   - as Python runs it (holyfitra_hybrid.py): a caller that runs stages one   *)
(*     after the other, or branches in a pool of threads whose results a typed *)
(*     reducer puts together, and someone else who may cancel.  The value of   *)
(*     stage or branch i is <<i>>, of the reducer's input type or not.         *)
(***************************************************************************)
EXTENDS Integers, SequencesExt, FiniteSetsExt

CONSTANTS
  Types,         \* of values; "void" is of none
  FunctionOf,    \* each name's [parameters, returns, hybrid]
  Reducers,      \* the names and "builtin:..." a reducer may be; "" for none
  WorkerCounts,  \* the max_workers that are declared
  Hybrids        \* those that are called: [mode, arities, max_steps, max_workers, reducer]

VARIABLES
  declaration,     \* [strategy, components, parameters, returns, reducer, max_workers]
  h,               \* the hybrid that is made and called
  cancel_event,
  futures,         \* the state of each branch that was submitted
  caller,          \* where the call is
  results,         \* in the caller's list
  ran              \* the functions that were started, in that order

vars == <<declaration, h, cancel_event, futures, caller, results, ran>>
-----------------------------------------------------------------------------
Names == DOMAIN FunctionOf
builtin == [sum |-> {"i32", "i64"}, all |-> {"bool"}]
Builtin(r) == IF r = "builtin:sum" THEN "sum" ELSE IF r = "builtin:all" THEN "all" ELSE ""

Undeclared == [strategy |-> "pipe", components |-> <<>>, parameters |-> <<>>, returns |-> "void",
               reducer |-> "", max_workers |-> 1]
Becomes(d) == declaration' = d /\ declaration' # declaration
Declare ==
  \/ declaration.strategy = "pipe" /\ Becomes([declaration EXCEPT !.strategy = "parallel"])
  \/ /\ Len(declaration.components) < 3
     /\ \E f \in Names \cup {"h"} : Becomes([declaration EXCEPT !.components = Append(@, f)])
  \/ /\ Len(declaration.parameters) < 2
     /\ \E t \in Types : Becomes([declaration EXCEPT !.parameters = Append(@, t)])
  \/ declaration.returns = "void" /\ \E t \in Types : Becomes([declaration EXCEPT !.returns = t])
  \/ declaration.reducer = "" /\ \E r \in Reducers : Becomes([declaration EXCEPT !.reducer = r])
  \/ declaration.max_workers = 1 /\ \E n \in WorkerCounts : Becomes([declaration EXCEPT !.max_workers = n])
-----------------------------------------------------------------------------
Component(i) == FunctionOf[declaration.components[i]]

(* Variant with a fault: a component's result is not compared with what the     *)
(* next one takes.                                                           *)
TakesOne(i) == Len(Component(i).parameters) = 1

Follows(i) == Component(i).parameters = <<Component(i - 1).returns>>

PipeValid ==
  LET n == Len(declaration.components)
  IN  /\ Component(1).returns # "void"
      /\ \A i \in 2..n : Follows(i) /\ (i < n => Component(i).returns # "void")
      /\ Component(n).returns = declaration.returns

ParallelValid ==
  LET returns == [i \in DOMAIN declaration.components |-> Component(i).returns]
  IN  /\ declaration.reducer # "" /\ declaration.max_workers \in 1..32
      /\ IF Builtin(declaration.reducer) # ""
         THEN /\ declaration.returns \in builtin[Builtin(declaration.reducer)]
              /\ \A i \in DOMAIN returns : returns[i] = declaration.returns
         ELSE /\ declaration.reducer \in Names /\ ~FunctionOf[declaration.reducer].hybrid
              /\ "void" \notin {returns[i] : i \in DOMAIN returns}
              /\ FunctionOf[declaration.reducer].parameters = returns
              /\ FunctionOf[declaration.reducer].returns = declaration.returns

(* The inputs are compared with those of the first component only.            *)
validate_native ==
  /\ Len(declaration.components) >= 2 /\ IsInjective(declaration.components)
  /\ \A i \in DOMAIN declaration.components : declaration.components[i] \in Names
  /\ Component(1).parameters = declaration.parameters
  /\ IF declaration.strategy = "parallel" THEN ParallelValid ELSE PipeValid
-----------------------------------------------------------------------------
(* emit_call_values: the type of a call with arguments of some types, or that   *)
(* it raises.                                                                *)
emit_call_values(f, arguments) == IF FunctionOf[f].parameters = arguments THEN FunctionOf[f].returns ELSE "raises"

emit_builtin_hybrid_reducer(types) == IF types = [i \in DOMAIN types |-> types[1]] THEN types[1] ELSE "raises"

(* emit_function: the type of the value the hybrid returns.  One that returns   *)
(* none raises too: there is no LLVM type to write for it.                    *)
Emitted ==
  LET piped == FoldLeft(LAMBDA t, f : IF t = "raises" THEN t ELSE emit_call_values(f, <<t>>),
                        emit_call_values(declaration.components[1], declaration.parameters),
                        Tail(declaration.components))
      branches == [i \in DOMAIN declaration.components |->
                     emit_call_values(declaration.components[i], declaration.parameters)]
      reduced == IF \E i \in DOMAIN branches : branches[i] = "raises" THEN "raises"
                 ELSE IF Builtin(declaration.reducer) # "" THEN emit_builtin_hybrid_reducer(branches)
                 ELSE emit_call_values(declaration.reducer, branches)
      value == IF declaration.strategy = "parallel" THEN reduced ELSE piped
  IN  IF value = "void" THEN "raises" ELSE value

(* A hybrid that passes validation is emitted, each call with arguments of its  *)
(* types, and returns what it declares; but a branch besides the first may take *)
(* other inputs, and a hybrid may return nothing, and then emitting it raises.  *)
HybridsFit ==
  LET SameInputs == \A i \in DOMAIN declaration.components : Component(i).parameters = declaration.parameters
      wrong == declaration.returns = "void" \/ (declaration.strategy = "parallel" /\ ~SameInputs)
  IN  validate_native => Emitted = IF wrong THEN "raises" ELSE declaration.returns
-----------------------------------------------------------------------------
Functions == 1..Len(h.arities)
InState(s) == {i \in DOMAIN futures : futures[i] = s}
Ended == caller.at \in {"refused", "returned", "raised"}
-----------------------------------------------------------------------------
(* HybridFunction.__init__: later stages of a pipe are not asked their arity.   *)
Accepted(c) ==
  /\ Len(c.arities) >= 2 /\ c.max_steps \in Len(c.arities)..4096
  /\ IF c.mode = "pipe" THEN ~c.reducer
     ELSE c.reducer /\ c.max_workers \in 1..32 /\ \A i \in 1..Len(c.arities) : c.arities[i] = c.arities[1]
Workers == IF h.max_workers < Len(h.arities) THEN h.max_workers ELSE Len(h.arities)

Init ==
  /\ declaration = Undeclared /\ h \in Hybrids /\ cancel_event \in BOOLEAN
  /\ futures = <<>> /\ results = <<>> /\ ran = <<>>
  /\ caller = [at |-> IF Accepted(h) THEN "called" ELSE "refused", next |-> 1]

Step(at, next) == caller' = [at |-> at, next |-> next]

__call__ ==
  /\ caller.at = "called"
  /\ IF cancel_event THEN Step("raised", 1) ELSE Step(IF h.mode = "pipe" THEN "stage" ELSE "submit", 1)
  /\ UNCHANGED <<h, cancel_event, futures, results, ran>>

(* A stage, after a look at the event and at the steps.  It may raise.         *)
RunStage ==
  /\ caller.at = "stage"
  /\ IF caller.next > 1 /\ (cancel_event \/ caller.next > h.max_steps \/ h.arities[caller.next] # 1)
     THEN Step("raised", caller.next) /\ UNCHANGED <<results, ran>>
     ELSE /\ ran' = Append(ran, caller.next)
          /\ \/ Step("raised", caller.next) /\ UNCHANGED results
             \/ /\ results' = <<caller.next>>
                /\ IF caller.next = Len(h.arities) THEN Step("returned", 1) ELSE Step("stage", caller.next + 1)
  /\ UNCHANGED <<h, cancel_event, futures>>

(* _invoke_parallel, in the caller's thread.                                 *)
SubmitBranch ==
  /\ caller.at = "submit" /\ UNCHANGED <<h, cancel_event, results, ran>>
  /\ IF cancel_event THEN Step("cancel", 1) /\ UNCHANGED futures
     ELSE /\ futures' = Append(futures, "pending")
          /\ IF caller.next = Len(h.arities) THEN Step("look", 1) ELSE Step("submit", caller.next + 1)

LookAtEvent ==
  /\ caller.at = "look" /\ Step(IF cancel_event THEN "cancel" ELSE "result", caller.next)
  /\ UNCHANGED <<h, cancel_event, futures, results, ran>>

TakeResult ==
  /\ caller.at = "result" /\ futures[caller.next] \in {"done", "odd", "failed"}
  /\ IF futures[caller.next] = "failed" THEN Step("cancel", 1) /\ UNCHANGED results
     ELSE /\ results' = Append(results, caller.next)
          /\ IF caller.next = Len(h.arities) THEN Step("reduce", 1) ELSE Step("look", caller.next + 1)
  /\ UNCHANGED <<h, cancel_event, futures, ran>>

(* TypedReducer: a value outside the input type is refused; the function that    *)
(* reduces may raise, or return a value outside the output type.               *)
Reduce ==
  /\ caller.at = "reduce"
  /\ \/ InState("odd") = {} /\ Step("shutdown", 1)
     \/ Step("cancel", 1)
  /\ UNCHANGED <<h, cancel_event, futures, results, ran>>

(* The futures that no worker has taken are cancelled, one after the other.     *)
CancelFutures ==
  /\ caller.at = "cancel" /\ UNCHANGED <<h, cancel_event, results, ran>>
  /\ IF caller.next > Len(futures) THEN Step("shutdown", 2) /\ UNCHANGED futures
     ELSE /\ Step("cancel", caller.next + 1)
          /\ futures' = [futures EXCEPT ![caller.next] = IF @ = "pending" THEN "cancelled" ELSE @]

(* Variant with a fault: the workers are not waited for.                      *)
ShutdownAtOnce ==
  /\ caller.at = "shutdown" /\ Step(IF caller.next = 1 THEN "returned" ELSE "raised", 1)
  /\ UNCHANGED <<h, cancel_event, futures, results, ran>>

Shutdown ==
  /\ caller.at = "shutdown" /\ InState("pending") \cup InState("running") = {}
  /\ Step(IF caller.next = 1 THEN "returned" ELSE "raised", 1)
  /\ UNCHANGED <<h, cancel_event, futures, results, ran>>

(* A worker takes the branch that was submitted first.                       *)
StartBranch(i) ==
  /\ i \in InState("pending") /\ \A j \in InState("pending") : i <= j
  /\ Cardinality(InState("running")) < Workers
  /\ futures' = [futures EXCEPT ![i] = "running"] /\ ran' = Append(ran, i)
  /\ UNCHANGED <<h, cancel_event, caller, results>>

EndBranch(i, end) ==
  /\ i \in InState("running") /\ futures' = [futures EXCEPT ![i] = end]
  /\ UNCHANGED <<h, cancel_event, caller, results, ran>>

SetCancelled ==
  /\ ~Ended /\ cancel_event' = TRUE
  /\ UNCHANGED <<h, futures, caller, results, ran>>

Call ==
  \/ __call__ \/ RunStage
  \/ SubmitBranch \/ LookAtEvent \/ TakeResult \/ Reduce \/ CancelFutures \/ Shutdown
  \/ \E i \in Functions : StartBranch(i) \/ \E end \in {"done", "odd", "failed"} : EndBranch(i, end)
  \/ SetCancelled

Next == \/ Declare /\ UNCHANGED <<h, cancel_event, futures, caller, results, ran>>
        \/ Call /\ UNCHANGED declaration

Spec == Init /\ [][Next]_vars
-----------------------------------------------------------------------------
(* A call that returns has run every function once, none of which failed, and    *)
(* reduces the values of the branches in the order of the branches.  Once a     *)
(* call has ended nothing of it runs; a branch that was cancelled never ran; a   *)
(* call that was cancelled before it began runs nothing; no more branches run   *)
(* than there are workers.                                                   *)
CallsWhole ==
  /\ caller.at = "returned" =>
       /\ Len(ran) = Len(h.arities) /\ {ran[n] : n \in DOMAIN ran} = Functions
       /\ InState("failed") = {} /\ InState("odd") = {}
       /\ h.mode = "parallel" => results = [i \in Functions |-> i]
       /\ h.mode = "pipe" => results = <<Len(h.arities)>>
  /\ Ended => InState("pending") \cup InState("running") = {}
  /\ \A i \in InState("cancelled") : \A n \in DOMAIN ran : ran[n] # i
  /\ caller.at = "called" => ran = <<>>
  /\ h.mode = "parallel" => \A i \in DOMAIN futures : h.arities[i] = h.arities[1]
  /\ caller.at = "stage" => caller.next <= h.max_steps
  /\ Cardinality(InState("running")) <= Workers
=============================================================================
