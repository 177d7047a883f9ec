----------------------------- MODULE EmitterBlocks -----------------------------
(***************************************************************************)
(* How the compiler lowers the control flow of a function to labelled blocks  *)
(* (holyfitra_compiler.py, LLVMEmitter.emit_expr, emit_block, emit_function,   *)
(* with the check of validate_block that every path returns), beside what the  *)
(* source means.  A call answers true or false as it likes: an execution is    *)
(* the calls it makes, in order with their arguments, and what it returns.     *)
(* All values are bool; a comparison stands for arithmetic too.              *)
(***************************************************************************)
EXTENDS Integers, SequencesExt, TLC

CONSTANTS
  Bodies,       \* the functions that are compiled, as blocks of statements
  MaxCalls

VARIABLES body, answers

vars == <<body, answers>>
-----------------------------------------------------------------------------
RECURSIVE guaranteed_return(_)

(* Variant with a fault: an if without an else returns when its block does.   *)
ReturnsOnOneArm(block) ==
  \E i \in DOMAIN block :
    \/ block[i].op = "return"
    \/ /\ block[i].op = "if" /\ guaranteed_return(block[i].then)
       /\ block[i].orelse = <<>> \/ guaranteed_return(block[i].orelse)

(* validate_block: does the block return on every path?                       *)
guaranteed_return(block) ==
  \E i \in DOMAIN block :
    \/ block[i].op = "return"
    \/ /\ block[i].op = "if" /\ guaranteed_return(block[i].then)
       /\ block[i].orelse # <<>> /\ guaranteed_return(block[i].orelse)

(* The emitter's state: the code so far, the next temporary and label, the     *)
(* next local address, the addresses of the names in scope, whether the        *)
(* current block has ended, and the labels of the loops around it.           *)
Start == [code |-> <<>>, temp |-> 0, block |-> 1, local |-> 0, variables |-> <<>>, terminated |-> FALSE,
          loops |-> <<>>]
Emit(s, lines) == [s EXCEPT !.code = @ \o lines]
Label(n) == [op |-> "label", name |-> n]
Jump(n) == [op |-> "jump", to |-> n]
Branch(value, yes, no) == [op |-> "branch", value |-> value, yes |-> yes, no |-> no]

Const(b) == IF b THEN -1 ELSE -2
IsLogical(e) == e.op \in {"&&", "||"}
IsFolded(e) == e.left.op = "const" /\ e.right.op = "const"
Computes(op, a, b) ==
  CASE op = "&&" -> a /\ b [] op = "||" -> a \/ b [] op = "==" -> a = b

(* An expression's code and value: a constant, or the number of a temporary.   *)
(* A logical operator skips its right operand, and its phi names the block the *)
(* right operand began in.  An operator on two literals is folded.            *)
RECURSIVE emit_expr(_, _)
emit_expr(e, s) ==
  CASE e.op = "const" -> [s |-> s, value |-> Const(e.value)]
    [] e.op = "name" ->
         [s |-> Emit([s EXCEPT !.temp = @ + 1],
                     <<[op |-> "load", to |-> s.temp, address |-> s.variables[e.name]]>>),
          value |-> s.temp]
    [] e.op = "call" ->
         LET given == FoldLeft(LAMBDA acc, a : LET next == emit_expr(a, acc.s)
                                               IN  [s |-> next.s, values |-> Append(acc.values, next.value)],
                               [s |-> s, values |-> <<>>], e.arguments)
         IN  [s |-> Emit([given.s EXCEPT !.temp = @ + 1],
                         <<[op |-> "call", to |-> given.s.temp, function |-> e.name, values |-> given.values]>>),
              value |-> given.s.temp]
    [] e.op \in {"&&", "||", "=="} /\ IsFolded(e) ->
         [s |-> s, value |-> Const(Computes(e.op, e.left.value, e.right.value))]
    [] e.op = "==" /\ ~IsFolded(e) ->
         LET left == emit_expr(e.left, s)
             right == emit_expr(e.right, left.s)
         IN  [s |-> Emit([right.s EXCEPT !.temp = @ + 1],
                         <<[op |-> "icmp", to |-> right.s.temp, left |-> left.value, right |-> right.value]>>),
              value |-> right.s.temp]
    [] IsLogical(e) /\ ~IsFolded(e) ->
         LET left == emit_expr(e.left, s)
             rhs == left.s.block  short == rhs + 1  merge == rhs + 2
             right == emit_expr(e.right,
                        Emit([left.s EXCEPT !.block = @ + 3, !.temp = @ + 1],
                             <<IF e.op = "&&" THEN Branch(left.value, rhs, short) ELSE Branch(left.value, short, rhs),
                               Label(rhs)>>))
         IN  [s |-> Emit(right.s,
                      <<Jump(merge), Label(short), Jump(merge), Label(merge),
                        [op |-> "phi", to |-> left.s.temp,
                         from |-> rhs :> right.value @@ short :> Const(e.op = "||")]>>),
              value |-> left.s.temp]

Ended(s, line) == [Emit(s, <<line>>) EXCEPT !.terminated = TRUE]
JumpUnlessEnded(s, n) == IF s.terminated THEN s ELSE Emit(s, <<Jump(n)>>)

RECURSIVE emit_block(_, _)
emit_statement(t, s) ==
  CASE t.op \in {"let", "assign"} ->
         LET value == emit_expr(t.value, s)
             address == IF t.op = "let" THEN s.local ELSE s.variables[t.name]
             stored == Emit(value.s, <<[op |-> "store", address |-> address, value |-> value.value]>>)
         IN  IF t.op = "let" THEN [stored EXCEPT !.local = @ + 1, !.variables = t.name :> address @@ @] ELSE stored
    [] t.op = "return" -> LET value == emit_expr(t.value, s) IN Ended(value.s, [op |-> "ret", value |-> value.value])
    [] t.op = "break" -> Ended(s, Jump(Last(s.loops).exit))
    [] t.op = "continue" -> Ended(s, Jump(Last(s.loops).head))
    [] t.op = "while" ->
         LET head == s.block  inside == head + 1  exit == head + 2
             value == emit_expr(t.cond, Emit([s EXCEPT !.block = @ + 3], <<Jump(head), Label(head)>>))
             loop == emit_block(t.body,
                       Emit([value.s EXCEPT !.loops = Append(@, [head |-> head, exit |-> exit])],
                            <<Branch(value.value, inside, exit), Label(inside)>>))
         IN  [Emit(JumpUnlessEnded(loop, head), <<Label(exit)>>)
                EXCEPT !.variables = s.variables, !.terminated = FALSE, !.loops = s.loops]
    [] t.op = "if" ->
         LET value == emit_expr(t.cond, s)
             yes == value.s.block  no == yes + 1  merge == yes + 2
             then == emit_block(t.then, Emit([value.s EXCEPT !.block = @ + 3],
                                             <<Branch(value.value, yes, no), Label(yes)>>))
             orelse == emit_block(t.orelse, [Emit(JumpUnlessEnded(then, merge), <<Label(no)>>)
                                               EXCEPT !.variables = s.variables, !.terminated = FALSE])
             both == then.terminated /\ orelse.terminated
             merged == Emit(JumpUnlessEnded(orelse, merge), <<Label(merge)>>)
         IN  [IF both THEN Emit(merged, <<[op |-> "unreachable"]>>) ELSE merged
                EXCEPT !.variables = s.variables, !.terminated = both]

(* The rest of a block that has ended is not emitted.                        *)
emit_block(block, s) == FoldLeft(LAMBDA acc, t : IF acc.terminated THEN acc ELSE emit_statement(t, acc), s, block)

emit_function(block) == emit_block(block, Start)
-----------------------------------------------------------------------------
(* LLVM runs the code: a block is entered by a jump and left by one, and a phi  *)
(* takes the value of the block that was left.  A result is the functions      *)
(* called and how it ended; it waits for "more" answers when they run out.     *)
Goto(code, m, n) ==
  [m EXCEPT !.pc = 1 + CHOOSE i \in DOMAIN code : code[i] = Label(n), !.from = m.at, !.at = n]
Set(m, to, value) == [m EXCEPT !.temps = to :> value @@ @, !.pc = @ + 1]
End(m, end) == [calls |-> m.calls, end |-> end]

RECURSIVE Run(_, _)
Run(code, m) ==
  IF m.pc > Len(code) THEN End(m, "invalid")
  ELSE LET i == code[m.pc]
       IN  CASE i.op = "load" -> Run(code, Set(m, i.to, m.memory[i.address]))
             [] i.op = "store" ->
                  Run(code, [m EXCEPT !.memory = i.address :> m.temps[i.value] @@ @, !.pc = @ + 1])
             [] i.op = "call" ->
                  IF Len(m.calls) = Len(answers) THEN End(m, "more")
                  ELSE Run(code, [Set(m, i.to, answers[Len(m.calls) + 1])
                                    EXCEPT !.calls = Append(@, <<i.function, [k \in DOMAIN i.values |-> m.temps[i.values[k]]]>>)])
             [] i.op = "icmp" -> Run(code, Set(m, i.to, m.temps[i.left] = m.temps[i.right]))
             [] i.op = "phi" /\ m.from \in DOMAIN i.from -> Run(code, Set(m, i.to, m.temps[i.from[m.from]]))
             [] i.op = "jump" -> Run(code, Goto(code, m, i.to))
             [] i.op = "branch" -> Run(code, Goto(code, m, IF m.temps[i.value] THEN i.yes ELSE i.no))
             [] i.op = "ret" -> End(m, ToString(m.temps[i.value]))
             [] OTHER -> End(m, "invalid")

Compiled(block) ==
  LET s == emit_function(block)
  IN  IF ~s.terminated THEN [calls |-> <<>>, end |-> "raised"]
      ELSE Run(s.code, [pc |-> 1, at |-> 0, from |-> 0, memory |-> <<>>, calls |-> <<>>,
                        temps |-> -1 :> TRUE @@ -2 :> FALSE])
-----------------------------------------------------------------------------
(* What the source means: names are cells, innermost first; the right operand  *)
(* of a logical operator is evaluated when the left one leaves it open.        *)
RECURSIVE Value(_, _)
Value(e, m) ==
  CASE e.op = "const" -> [m |-> m, v |-> e.value]
    [] e.op = "name" -> [m |-> m, v |-> m.cells[m.scope[e.name]]]
    [] e.op = "call" ->
         LET given == FoldLeft(LAMBDA acc, a :
                                 IF acc.m.end # "" THEN acc
                                 ELSE LET next == Value(a, acc.m) IN [m |-> next.m, vs |-> Append(acc.vs, next.v)],
                               [m |-> m, vs |-> <<>>], e.arguments)
         IN  IF given.m.end # "" \/ Len(given.m.calls) = Len(answers)
             THEN [m |-> [given.m EXCEPT !.end = "more"], v |-> FALSE]
             ELSE [m |-> [given.m EXCEPT !.calls = Append(@, <<e.name, given.vs>>)], v |-> answers[Len(given.m.calls) + 1]]
    [] OTHER ->
         LET left == Value(e.left, m)
             right == Value(e.right, left.m)
         IN  IF left.m.end # "" \/ (IsLogical(e) /\ left.v = (e.op = "||")) THEN left
             ELSE [m |-> right.m, v |-> Computes(e.op, left.v, right.v)]

RECURSIVE Does(_, _)
Statement(t, m) ==
  LET value == Value(IF t.op \in {"if", "while"} THEN t.cond ELSE t.value, m)
      left(n) == [n EXCEPT !.scope = m.scope]
  IN  CASE t.op \in {"break", "continue"} -> [m EXCEPT !.end = t.op]
        [] t.op \notin {"break", "continue"} /\ value.m.end # "" -> value.m
        [] t.op = "let" /\ value.m.end = "" ->
             [value.m EXCEPT !.cells = Append(@, value.v), !.scope = t.name :> Len(m.cells) + 1 @@ @]
        [] t.op = "assign" /\ value.m.end = "" -> [value.m EXCEPT !.cells[m.scope[t.name]] = value.v]
        [] t.op = "return" /\ value.m.end = "" -> [value.m EXCEPT !.end = ToString(value.v)]
        [] t.op = "if" /\ value.m.end = "" -> left(Does(IF value.v THEN t.then ELSE t.orelse, value.m))
        [] t.op = "while" /\ value.m.end = "" ->
             IF ~value.v THEN value.m
             ELSE LET after == left(Does(t.body, value.m))
                  IN  IF after.end = "break" THEN [after EXCEPT !.end = ""]
                      ELSE IF after.end \in {"", "continue"} THEN Does(<<t>>, [after EXCEPT !.end = ""])
                      ELSE after
Does(block, m) == FoldLeft(LAMBDA acc, t : IF acc.end # "" THEN acc ELSE Statement(t, acc), m, block)

Meant(block) ==
  LET m == Does(block, [scope |-> <<>>, cells |-> <<>>, calls |-> <<>>, end |-> ""])
  IN  [calls |-> m.calls, end |-> m.end]
-----------------------------------------------------------------------------
Init == body \in {b \in Bodies : guaranteed_return(b)} /\ answers = <<>>

(* The execution goes on to its next call, which answers.                    *)
Answer(a) ==
  /\ Len(answers) < MaxCalls /\ Compiled(body).end = "more"
  /\ answers' = Append(answers, a) /\ UNCHANGED body

Next == \E a \in BOOLEAN : Answer(a)
Spec == Init /\ [][Next]_vars

(* Some logical operator in the expression branches; some has a right operand  *)
(* in which another one does, wherever it stands there.                       *)
Operands(e) == CASE e.op = "call" -> Range(e.arguments)
                 [] e.op \in {"&&", "||", "=="} -> {e.left, e.right}
                 [] OTHER -> {}
RECURSIVE Branches(_), NestsRight(_)
Branches(e) == (IsLogical(e) /\ ~IsFolded(e)) \/ \E o \in Operands(e) : Branches(o)
NestsRight(e) == (IsLogical(e) /\ Branches(e.right)) \/ \E o \in Operands(e) : NestsRight(o)
RECURSIVE Simple(_)
Simple(block) ==
  \A i \in DOMAIN block :
    /\ block[i].op \in {"let", "assign", "return"} => ~NestsRight(block[i].value)
    /\ block[i].op \in {"if", "while"} => ~NestsRight(block[i].cond)
    /\ block[i].op = "if" => Simple(block[i].then) /\ Simple(block[i].orelse)
    /\ block[i].op = "while" => Simple(block[i].body)

(* A function that passes validation compiles, and its code makes the calls of  *)
(* the source in their order and returns what the source returns, as long as   *)
(* no right operand of && or || has one of them in it, at any depth.          *)
SimpleCodeIsMeant == Simple(body) => Compiled(body) = Meant(body)

(* HOLY_FITRA_V1_RELEASE_SPEC.md:15: "The v1 native language contract covers   *)
(* ... integer and boolean expressions, comparisons, short-circuit logical     *)
(* operators, direct function calls".                                        *)
CodeIsMeant == Compiled(body) = Meant(body)
=============================================================================
