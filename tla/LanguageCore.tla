------------------------------ MODULE LanguageCore ------------------------------
(***************************************************************************)
(* Reading a HyperC module line by line into functions, policies and a graph of  *)
(* tensors (parse_module of hyperc_language_core.py).  A line that is not       *)
(* understood is reported and the next one is read.  A capability and a budget  *)
(* are known by the number of their line.                                    *)
(***************************************************************************)
EXTENDS Integers, SequencesExt, TLC

CONSTANTS
  Lines,           \* [op, name, ...]: of a fn its params, of a tensor its shape
  MaxLines

VARIABLES
  lines,           \* the module so far
  parse            \* what was made of it

vars == <<lines, parse>>
None == ""
Bound(name, value, f) == (name :> value) @@ f

Init ==
  /\ lines = <<>>
  /\ parse = [module_seen |-> FALSE, active_policy |-> None, policy_name |-> None, current_function |-> None,
              policies |-> <<>>, functions |-> <<>>, tensor_values |-> <<>>, diagnostics |-> {}]
-----------------------------------------------------------------------------
(* Parameters become values of the graph one by one, up to one that is a value   *)
(* already; the graph has one set of values for all functions.                *)
Fresh(p, line) == {i \in DOMAIN line.params : \A j \in 1..i :
                     /\ line.params[j].name \notin DOMAIN p.tensor_values
                     /\ \A k \in 1..j - 1 : line.params[j].name # line.params[k].name}
WithParameters(p, line) ==
  FoldSet(LAMBDA i, f : Bound(line.params[i].name, line.params[i].shape, f), p.tensor_values, Fresh(p, line))

Shapes(p, line) == <<p.tensor_values[line.left], p.tensor_values[line.right]>>
Understood(p, line) ==
  CASE line.op = "module" -> ~p.module_seen
    [] line.op = "capability" -> line.name \notin DOMAIN p.policies
    [] line.op = "allow" -> p.active_policy # None /\ p.policy_name # None
    [] line.op = "}" -> p.active_policy # None \/ p.current_function # None
    [] line.op = "fn" -> line.name \notin DOMAIN p.functions /\ Fresh(p, line) = DOMAIN line.params
    [] line.op = "budget" -> p.current_function # None
    [] line.op = "tensor" -> line.name \notin DOMAIN p.tensor_values
    [] line.op = "matmul" -> /\ {line.left, line.right} \subseteq DOMAIN p.tensor_values
                             /\ Shapes(p, line)[1][2] = Shapes(p, line)[2][1]
                             /\ line.name \notin DOMAIN p.tensor_values

(* Variant with a fault: a policy stays open behind its brace.                *)
FunctionClosed(p) == [p EXCEPT !.current_function = None]

BlocksClosed(p) == [p EXCEPT !.active_policy = None, !.policy_name = None, !.current_function = None]

Handled(p, n, line) ==
  CASE line.op = "module" -> [p EXCEPT !.module_seen = TRUE]
    [] line.op = "capability" -> [p EXCEPT !.policy_name = line.name, !.active_policy = line.name,
                                           !.policies = Bound(line.name, {}, @)]
    [] line.op = "allow" -> [p EXCEPT !.policies[p.active_policy] = @ \cup {n}]
    [] line.op = "}" -> BlocksClosed(p)
    [] line.op = "fn" -> [p EXCEPT !.current_function = line.name, !.functions = Bound(line.name, {}, @),
                                   !.tensor_values = WithParameters(p, line)]
    [] line.op = "budget" -> [p EXCEPT !.functions[p.current_function] = @ \cup {n}]
    [] line.op = "tensor" -> [p EXCEPT !.tensor_values = Bound(line.name, line.shape, @)]
    [] line.op = "matmul" ->
         [p EXCEPT !.tensor_values = Bound(line.name, <<Shapes(p, line)[1][1], Shapes(p, line)[2][2]>>, @)]

(* A line that is refused has changed something before: the name of the policy, *)
(* or the parameters before a wrong one.                                     *)
Diagnosed(p, n, line) ==
  [p EXCEPT !.diagnostics = @ \cup {n},
            !.policy_name = IF line.op = "capability" THEN line.name ELSE @,
            !.tensor_values = IF line.op = "fn" /\ line.name \notin DOMAIN p.functions
                              THEN WithParameters(p, line) ELSE @]

ReadLine(line) ==
  /\ Len(lines) < MaxLines /\ lines' = Append(lines, line)
  /\ parse' = IF Understood(parse, line) THEN Handled(parse, Len(lines) + 1, line)
              ELSE Diagnosed(parse, Len(lines) + 1, line)

Next == \E line \in Lines : ReadLine(line)
Spec == Init /\ [][Next]_vars

valid == /\ parse.diagnostics = {} /\ DOMAIN parse.functions # {}
         /\ parse.active_policy = None /\ parse.current_function = None
-----------------------------------------------------------------------------
(* Blocks as braces make them: the line of the block that a line is in, or 0.    *)
Opens == {i \in DOMAIN lines : lines[i].op \in {"capability", "fn"}}
Block(n) == LET before == {i \in Opens : i < n /\ \A j \in i + 1..n - 1 : lines[j].op # "}"}
            IN  IF before = {} THEN 0 ELSE Max(before)
Flat == \A i \in Opens : Block(i) = 0
In(n, op) == Block(n) # 0 /\ lines[Block(n)].op = op

(* The tensors a line names, and the shape of a matmul, by their declarations.  *)
Declares(i) == CASE lines[i].op = "fn" -> {lines[i].params[j] : j \in DOMAIN lines[i].params}
                 [] lines[i].op = "tensor" -> {[name |-> lines[i].name, shape |-> lines[i].shape]}
                 [] OTHER -> {}
Products(i) == IF lines[i].op = "matmul" THEN {lines[i].name} ELSE {}
NamesUpTo(n) == UNION {{d.name : d \in Declares(i)} \cup Products(i) : i \in 1..n}

Fits(n) ==
  LET line == lines[n]
  IN  /\ line.op \in {"module", "capability", "fn"} =>
           \A i \in 1..n - 1 : lines[i].op = line.op => line.op # "module" /\ lines[i].name # line.name
      /\ line.op = "allow" => In(n, "capability")
      /\ line.op = "budget" => In(n, "fn")
      /\ line.op = "}" => Block(n) # 0
      /\ {d.name : d \in Declares(n)} \cap NamesUpTo(n - 1) = {} /\ Products(n) \cap NamesUpTo(n - 1) = {}
      /\ line.op = "fn" => Cardinality(Declares(n)) = Len(line.params)
      /\ line.op = "matmul" => /\ {line.left, line.right} \subseteq NamesUpTo(n - 1)
                               /\ parse.tensor_values[line.left][2] = parse.tensor_values[line.right][1]

(* A module whose blocks are not inside each other is valid exactly when every    *)
(* line fits where it is and every block is closed; then policies and functions  *)
(* have the capabilities and budgets between their braces.                    *)
ModulesAsWritten ==
  Flat =>
    /\ valid <=> /\ \A n \in DOMAIN lines : Fits(n)
                 /\ Block(Len(lines) + 1) = 0 /\ \E i \in DOMAIN lines : lines[i].op = "fn"
    /\ valid =>
         /\ \A i \in Opens :
              LET body == {n \in DOMAIN lines : Block(n) = i /\ lines[n].op \in {"allow", "budget"}}
              IN  body = IF lines[i].op = "fn" THEN parse.functions[lines[i].name] ELSE parse.policies[lines[i].name]
         /\ \A i \in DOMAIN lines : \A d \in Declares(i) : parse.tensor_values[d.name] = d.shape
         /\ DOMAIN parse.tensor_values = NamesUpTo(Len(lines))
=============================================================================
