----------------------------- MODULE ProgramGraphs -----------------------------
(***************************************************************************)
(* The two graphs of a program that the compiler walks                       *)
(* (holyfitra_compiler.py): its modules, gathered depth first from the entry,  *)
(* each file once (resolve_native_modules), and its functions with the effects  *)
(* they must declare (_effect_call_graph and validate_native), for a program    *)
(* that is edited call by call and effect by effect.                           *)
(***************************************************************************)
EXTENDS Integers, SequencesExt, FiniteSetsExt, Functions, Relation, TLC

CONSTANTS
  Files, entry,
  ImportMaps,             \* programs: functions from a file to its imports
  _MAX_NATIVE_IMPORTS,
  Names, AllowedEffects   \* of functions

VARIABLES
  imports,     \* file |-> its imports, in order
  modules,     \* the files that are done, in the order they were: modules and ordered
  active,      \* the files being visited, outermost first, each with the imports it has visited
  error,
  calls, effects   \* of each function

vars == <<imports, modules, active, error, calls, effects>>

Init ==
  /\ imports \in ImportMaps
  /\ modules = <<>> /\ active = <<[path |-> entry, imported |-> <<>>]>> /\ error = "none"
  /\ calls = [f \in Names |-> {}] /\ effects = [f \in Names |-> {}]
-----------------------------------------------------------------------------
(* Variant with a fault: only a file that imports itself is noticed.          *)
ActiveInnermost == {Last(active).path}

ActivePaths == {active[i].path : i \in DOMAIN active}
Fail(why) == error' = why /\ active' = <<>> /\ UNCHANGED modules

(* visit: the next import of the innermost file.                             *)
Visit ==
  /\ active # <<>>
  /\ LET top == Last(active)
         path == imports[top.path][Len(top.imported) + 1]
         seen == [active EXCEPT ![Len(active)].imported = Append(@, path)]
     IN  /\ Len(top.imported) < Len(imports[top.path])
         /\ IF path \in Range(top.imported) THEN Fail("duplicate import")
            ELSE IF path \in ActivePaths THEN Fail("cycle")
            ELSE IF path \in Range(modules) THEN active' = seen /\ UNCHANGED <<modules, error>>
            ELSE IF Len(modules) + Len(active) >= _MAX_NATIVE_IMPORTS THEN Fail("too many")
            ELSE active' = Append(seen, [path |-> path, imported |-> <<>>]) /\ UNCHANGED <<modules, error>>
  /\ UNCHANGED imports

Done ==
  /\ active # <<>> /\ Last(active).imported = imports[Last(active).path]
  /\ modules' = Append(modules, Last(active).path)
  /\ active' = Front(active)
  /\ UNCHANGED <<imports, error>>

Resolve == Visit \/ Done
-----------------------------------------------------------------------------
(* closure: a function's effects and those of all it calls, or a cycle. w is    *)
(* the walk so far: what is remembered, and whether a cycle was met.          *)
RECURSIVE closure(_, _, _)
closure(f, above, w) ==
  IF w.cycle \/ f \in DOMAIN w.memo THEN w
  ELSE IF f \in above THEN [w EXCEPT !.cycle = TRUE]
  ELSE LET below == FoldSet(LAMBDA g, acc : closure(g, above \cup {f}, acc), w, calls[f])
       IN  IF below.cycle THEN below
           ELSE [below EXCEPT !.memo = f :> effects[f] \cup UNION {below.memo[g] : g \in calls[f]} @@ @]

_effect_call_graph == FoldSet(LAMBDA f, w : closure(f, {}, w), [memo |-> <<>>, cycle |-> FALSE], Names)

(* Variant with a fault: a function is excused by an unsafe one it calls.     *)
ExcusedBelow ==
  /\ ~_effect_call_graph.cycle
  /\ \A f \in Names : LET reached == _effect_call_graph.memo[f]
                      IN  reached \subseteq effects[f] \/ "unsafe" \in reached

(* The effects check of validate_native.                                     *)
validate_native ==
  /\ ~_effect_call_graph.cycle
  /\ \A f \in Names : _effect_call_graph.memo[f] \subseteq effects[f] \/ "unsafe" \in effects[f]

ToggleIn(s, e) == IF e \in s THEN s \ {e} ELSE s \cup {e}
Edit ==
  \E f \in Names :
    \/ \E g \in Names : calls' = [calls EXCEPT ![f] = ToggleIn(@, g)] /\ UNCHANGED effects
    \/ \E e \in AllowedEffects : effects' = [effects EXCEPT ![f] = ToggleIn(@, e)] /\ UNCHANGED calls
-----------------------------------------------------------------------------
Next == \/ Resolve /\ UNCHANGED <<calls, effects>>
        \/ Edit /\ UNCHANGED <<imports, modules, active, error>>

Spec == Init /\ [][Next]_vars

Position(f) == CHOOSE i \in DOMAIN modules : modules[i] = f

(* A program that resolves holds every file its entry reaches, once, after all *)
(* the files it imports; it resolves unless there are too many files, an import *)
(* is repeated, or files import each other in a circle.                      *)
ModulesResolve ==
  active = <<>> =>
    LET reaches == TransitiveClosure([p \in Files \X Files |-> p[2] \in Range(imports[p[1]])], Files)
        reachable == {f \in Files : f = entry \/ reaches[entry, f]}
    IN  CASE error = "none" ->
               /\ IsInjective(modules) /\ Range(modules) = reachable /\ Last(modules) = entry
               /\ \A f \in reachable : \A g \in Range(imports[f]) : Position(g) < Position(f)
          [] error = "cycle" -> \E f \in reachable : reaches[f, f]
          [] error = "duplicate import" -> \E f \in reachable : ~IsInjective(imports[f])
          [] error = "too many" -> Cardinality(reachable) > _MAX_NATIVE_IMPORTS

(* A program is accepted when no function can call itself, at whatever depth,   *)
(* and each declares every effect of every function it can reach, unless it is *)
(* unsafe.                                                                   *)
EffectsDeclared ==
  LET reach == TransitiveClosure([p \in Names \X Names |-> p[2] \in calls[p[1]]], Names)
  IN  validate_native <=>
        /\ \A f \in Names : ~reach[f, f]
        /\ \A f \in Names : \/ "unsafe" \in effects[f]
                                 \/ \A g \in Names : reach[f, g] => effects[g] \subseteq effects[f]
=============================================================================
