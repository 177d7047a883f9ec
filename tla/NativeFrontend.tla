---------------------------- MODULE NativeFrontend ----------------------------
(***************************************************************************)
(* The front end of the compiler (holyfitra_compiler.py): how Parser reads     *)
(* programs and expressions, from texts that are written token by token or     *)
(* piece by piece, and the names of a function (validate_block and             *)
(* _infer_expression) while the statements of its body are validated one by    *)
(* one.  What is read is a tree, the tokens of its nodes in postorder, where     *)
(* "{" and "}" are the ends of a block; a call is named by how many arguments   *)
(* it takes.                                                                 *)
(***************************************************************************)
EXTENDS Integers, SequencesExt, FiniteSetsExt, TLC

CONSTANTS
  Tokens, MaxTokens, MAX_AST_DEPTH,
  Pieces,              \* declarations, statements and ends of blocks: [kind, text, tree]
  MaxPieces, _MAX_NATIVE_IMPORTS, MAX_FUNCTIONS,
  Names, Parameters,   \* the parameters: name to [type, mode]
  MaxDepth, MaxStatements, IntegerTypes

VARIABLES
  tokens,      \* the text that is read
  pieces,      \* those it was written with, if it was
  frames,      \* a block each: its scope, mutable_names, declared_names, and loop_depth
  declared,    \* history: what each block declares so far, a name to [type, mutable]
  statements   \* bound: how many were validated

vars == <<tokens, pieces, frames, declared, statements>>
-----------------------------------------------------------------------------
Keywords == {"module", "import", "capability", "budget", "hybrid", "parallel", "fn", "let", "var", "if", "else",
             "while", "break", "continue", "return", "effects", "task", "using", "reduce", "builtin", "workers"}
Settings == <<"async", "priority", "deadline_ms", "capacity", "cancelable", "supervised">>
Modes == {"owned", "borrow", "borrow_mut", "shared"}
Words == Keywords \cup Modes \cup ToSet(Settings) \cup {"x", "f", "m", "i32", "io", "sum", "true", "false", "odd"}
Ints == {"0", "1"}
ImportPaths == {"a.hf"}   \* without escapes and not empty

Operators == <<{"||"}, {"&&"}, {"==", "!=", "<", "<=", ">", ">="}, {"+", "-"}, {"*", "/"}>>
Primary == Len(Operators) + 1
Calls == <<"call0", "call1", "call2">>

WriteToken == Len(tokens) < MaxTokens /\ \E t \in Tokens : tokens' = Append(tokens, t)
-----------------------------------------------------------------------------
At(i) == IF i \in DOMAIN tokens THEN tokens[i] ELSE "EOF"
Read(tree, i) == [tree |-> tree, i |-> i]
Raised == Read(<<>>, 0)

RECURSIVE parse(_, _, _), parse_primary(_, _), Arguments(_, _, _), Continued(_, _, _)

(* Variant with a fault: an operator takes all of its own level on its right.   *)
SameLevel(level, i, depth) == parse(level, i, depth)

Operand(level, i, depth) == parse(level + 1, i, depth)

(* parse_logical_or to parse_multiplicative: what the next level reads, as long  *)
(* as operators of this level follow, from the left.                         *)
Continued(level, left, depth) ==
  IF left = Raised \/ At(left.i) \notin Operators[level] THEN left
  ELSE LET right == Operand(level, left.i + 1, depth)
       IN  IF right = Raised THEN Raised
           ELSE Continued(level, Read(left.tree \o right.tree \o <<At(left.i)>>, right.i), depth)

parse(level, i, depth) ==
  IF level = Primary THEN parse_primary(i, depth) ELSE Continued(level, parse(level + 1, i, depth), depth)

parse_expression(i, depth) == IF depth >= MAX_AST_DEPTH THEN Raised ELSE parse(1, i, depth + 1)

Arguments(i, n, depth) ==
  LET argument == parse_expression(i, depth)
  IN  IF argument = Raised THEN Raised
      ELSE IF At(argument.i) = ")" THEN Read(Append(argument.tree, Calls[n + 1]), argument.i + 1)
      ELSE IF At(argument.i) # "," \/ n = 2 THEN Raised    \* bound: a call takes two arguments
      ELSE LET rest == Arguments(argument.i + 1, n + 1, depth)
           IN  IF rest = Raised THEN Raised ELSE Read(argument.tree \o rest.tree, rest.i)

parse_primary(i, depth) ==
  CASE At(i) = "-" -> IF At(i + 1) \in Ints THEN Read(<<IF At(i + 1) = "0" THEN "0" ELSE "-1">>, i + 2) ELSE Raised
    [] At(i) \in Ints \cup {"true", "false"} -> Read(<<At(i)>>, i + 1)
    [] At(i) \in Words \ {"true", "false"} ->
         IF At(i + 1) # "(" THEN Read(<<At(i)>>, i + 1)
         ELSE IF At(i + 2) = ")" THEN Read(<<"call0">>, i + 3) ELSE Arguments(i + 2, 1, depth)
    [] At(i) = "(" ->
         LET inner == parse_expression(i + 1, depth)
         IN  IF inner = Raised \/ At(inner.i) # ")" THEN Raised ELSE Read(inner.tree, inner.i + 1)
    [] OTHER -> Raised

-----------------------------------------------------------------------------
(* What was read, which the next is added to; nothing is read on from what raised. *)
Put(r, node) == IF r.i = 0 THEN Raised ELSE Read(r.tree \o node, r.i)
advance(r) == Read(r.tree, r.i + 1)
accept(r, t) == IF At(r.i) = t THEN advance(r) ELSE r
expect(r, t) == IF At(r.i) = t THEN advance(r) ELSE Raised
Word(r) == IF At(r.i) \in Words THEN advance(Put(r, <<At(r.i)>>)) ELSE Raised
Number(r) == IF At(r.i) \in Ints THEN advance(Put(r, <<At(r.i)>>)) ELSE Raised
After(r, e) == IF e.i = 0 THEN Raised ELSE Read(r.tree \o e.tree, e.i)
Expression(r) == After(r, parse_expression(r.i, 0))

parse_type(r) == Word(IF At(r.i) \in Modes THEN Word(r) ELSE Put(r, <<"owned">>))
-----------------------------------------------------------------------------
RECURSIVE parse_block(_), parse_statement(_), BodyFrom(_), Items(_, _, _), Imports(_, _), Declarations(_, _)

(* Variant with a fault: a semicolon is needed.                                *)
SemiNeeded(r) == expect(r, ";")

Semi(r) == accept(r, ";")

BodyFrom(r) == IF At(r.i) = "}" THEN advance(Put(r, <<"}">>))
               ELSE IF At(r.i) = "EOF" THEN Raised ELSE BodyFrom(parse_statement(r))
parse_block(r) == BodyFrom(Put(expect(r, "{"), <<"{">>))

Typed(r) == IF At(r.i) = ":" THEN parse_type(advance(r)) ELSE r
Returned(r) == IF At(r.i) \in {";", "}"} THEN Put(r, <<"return">>) ELSE Put(Expression(r), <<"return e">>)
OrElse(r) == IF At(r.i) = "else" THEN parse_block(advance(r)) ELSE r

(* A keyword is a name wherever a name may be.                               *)
parse_statement(r) ==
  LET t == At(r.i)
      body == parse_block(Expression(advance(r)))
  IN  CASE t \in {"break", "continue"} -> Semi(Word(r))
        [] t = "while" -> Put(body, <<t>>)
        [] t = "if" -> Put(OrElse(body), <<t>>)
        [] t \in {"let", "var"} ->
             IF At(r.i + 1) \notin Words THEN Raised
             ELSE Semi(Put(Expression(expect(Typed(advance(advance(r))), "=")), <<t, At(r.i + 1)>>))
        [] OTHER -> IF t \in Words /\ At(r.i + 1) = "="
                    THEN Semi(Put(Expression(advance(advance(r))), <<"=", t>>))
                    ELSE Semi(Returned(expect(r, "return")))
-----------------------------------------------------------------------------
(* One of a list: a name, a parameter, or a setting of a task, true unless it is  *)
(* given.                                                                    *)
Value(r) == CASE At(r.i) # "=" -> Put(r, <<"true">>)
              [] At(r.i) = "=" /\ At(r.i + 1) \in Ints \cup {"true"} -> Put(advance(advance(r)), <<At(r.i + 1)>>)
              [] OTHER -> IF At(r.i + 1) \in Words THEN Put(advance(advance(r)), <<"false">>) ELSE Raised
Item(kind, r) == CASE kind = "name" -> Word(r)
                   [] kind = "parameter" -> parse_type(expect(Word(r), ":"))
                   [] kind = "setting" -> Value(Word(r))

More(kind, r, close) == CASE At(r.i) = close -> advance(r)
                          [] At(r.i) = "," -> Items(kind, advance(r), close)
                          [] OTHER -> Raised
Items(kind, r, close) == More(kind, Item(kind, r), close)
Listed(kind, r, close) == IF At(r.i) = close THEN advance(r) ELSE Items(kind, r, close)

(* The last value of each setting, as an integer or as a truth value.            *)
TaskMetadata(settings) ==
  LET given(key) == {n \in DOMAIN settings : n % 2 = 1 /\ settings[n] = key}
      value(key) == settings[Max(given(key)) + 1]
      int(v) == IF v = "true" THEN "1" ELSE IF v = "false" THEN "0" ELSE v
      bool(v) == IF v \in {"true", "1"} THEN "true" ELSE "false"
      Default == "async" :> "false" @@ "priority" :> "0" @@ "deadline_ms" :> "none" @@ "capacity" :> "1"
                   @@ "cancelable" :> "true" @@ "supervised" :> "false"
  IN  [n \in DOMAIN Settings |->
         LET key == Settings[n]
         IN  IF given(key) = {} THEN Default[key]
             ELSE IF key \in {"async", "cancelable", "supervised"} THEN bool(value(key)) ELSE int(value(key))]

Effects(r) == IF At(r.i) = "effects" THEN Listed("name", expect(advance(r), "["), "]") ELSE r
Known(r, s) == IF \E n \in DOMAIN s.tree : n % 2 = 1 /\ s.tree[n] \notin ToSet(Settings) THEN Raised
               ELSE After(r, Read(TaskMetadata(s.tree), s.i))
Task(r) == IF At(r.i) = "task" THEN Known(r, Listed("setting", expect(Read(<<>>, r.i + 1), "["), "]")) ELSE r

Reducer(r) == Word(IF At(r.i) = "builtin" THEN Word(r) ELSE r)
MaxWorkers(r) == IF At(r.i) = "workers" THEN Number(expect(advance(r), "=")) ELSE Put(r, <<"1">>)
HybridSpec(r, parallel) ==
  LET components == Listed("name", expect(expect(r, "using"), "["), "]")
  IN  Semi(IF parallel THEN Put(MaxWorkers(Reducer(expect(components, "reduce"))), <<"parallel">>)
           ELSE Put(components, <<"pipe">>))

parse_function(r, hybrid, parallel) ==
  LET head == Task(Effects(parse_type(expect(Listed("parameter", expect(Word(r), "("), ")"), "->"))))
  IN  IF hybrid THEN HybridSpec(head, parallel) ELSE parse_block(head)

_skip_to_statement_end(r) ==
  Semi(Read(r.tree, Min({j \in r.i..Len(tokens) + 1 : At(j) \in {";", "}", "EOF"}})))

_skip_balanced_block(r) ==
  LET Count(t, j) == Cardinality({k \in r.i..j : At(k) = t})
  IN  IF At(r.i) # "{" THEN _skip_to_statement_end(r)
      ELSE Read(r.tree, 1 + Min({j \in r.i..Len(tokens) : Count("{", j) = Count("}", j)} \cup {Len(tokens)}))

Imports(r, n) == CASE At(r.i) # "import" -> r
                   [] At(r.i) = "import" /\ At(r.i + 1) \in ImportPaths /\ n < _MAX_NATIVE_IMPORTS ->
                        Imports(Semi(advance(Put(advance(r), <<"import", At(r.i + 1)>>))), n + 1)
                   [] OTHER -> Raised

Declarations(r, n) ==
  LET t == At(r.i)
      Fn == IF t = "fn" THEN advance(r) ELSE expect(accept(advance(r), "parallel"), "fn")
  IN  CASE r.i = 0 -> Raised
        [] r.i # 0 /\ t = "EOF" -> IF n = 0 THEN Raised ELSE r
        [] t = "capability" -> Declarations(_skip_balanced_block(advance(r)), n)
        [] t = "budget" -> Declarations(_skip_to_statement_end(advance(r)), n)
        [] t \in {"fn", "hybrid"} /\ n < MAX_FUNCTIONS ->
             Declarations(parse_function(Fn, t = "hybrid", At(r.i + 1) = "parallel"), n + 1)
        [] OTHER -> Raised

(* parse, for a whole program.                                               *)
Module == IF At(1) = "module" THEN Word(Read(<<>>, 2)) ELSE Read(<<"anonymous">>, 1)
Program == Declarations(Imports(Module, 0), 0)
-----------------------------------------------------------------------------
(* A program is written with declarations, statements and ends of blocks.  What    *)
(* it means is what the pieces mean, in that order.                            *)
Write(written, piece) ==
  LET open == written.open
      top == IF open = <<>> THEN "" ELSE Last(open)
      place == CASE piece.kind = "module" -> written.n = 0
                 [] piece.kind = "import" -> open = <<>> /\ ~written.declares
                 [] piece.kind = "else" -> top = "if"
                 [] piece.kind \in {"statement", "return", "while", "if", "close"} -> open # <<>>
                 [] OTHER -> open = <<>>
      node == IF piece.kind # "close" \/ top = "fn" THEN <<>> ELSE <<IF top = "while" THEN top ELSE "if">>
  IN  [n |-> written.n + 1, tree |-> written.tree \o piece.tree \o node,
       declares |-> written.declares \/ piece.kind \notin {"module", "import"},
       fits |-> written.fits /\ place,
       open |-> CASE piece.kind \in {"fn", "while", "if"} -> Append(open, piece.kind)
                  [] piece.kind = "else" /\ open # <<>> -> Append(Front(open), "else")
                  [] piece.kind = "close" /\ open # <<>> -> Front(open)
                  [] OTHER -> open]
Written == FoldLeft(Write, [n |-> 0, tree |-> <<>>, declares |-> FALSE, fits |-> TRUE, open |-> <<>>], pieces)
Count(kinds) == Cardinality({n \in DOMAIN pieces : pieces[n].kind \in kinds})

WritePiece ==
  /\ Len(pieces) < MaxPieces /\ Written.fits
  /\ \E p \in Pieces : pieces' = Append(pieces, p) /\ tokens' = tokens \o p.text

Followed(kind, by) == \A n \in DOMAIN pieces : pieces[n].kind = kind /\ n < Len(pieces) => pieces[n + 1].kind \in by

(* A program is read as it was written, with or without its semicolons, and no    *)
(* other text is; except that a return without value needs one before another    *)
(* statement, a budget before a function, that a capability with a name is       *)
(* refused, and that neither is read.                                          *)
ReadsAsWritten ==
  LET module == IF Count({"module"}) = 0 THEN <<"anonymous">> ELSE <<>>
      complete == /\ Written.fits /\ Written.open = <<>> /\ Count({"fn", "function"}) \in 1..MAX_FUNCTIONS
                  /\ Count({"import"}) <= _MAX_NATIVE_IMPORTS /\ Count({"capability P", "faulty"}) = 0
      swallowed == ~Followed("budget", {"budget", "budget;"})
      valueless == ~Followed("return", {"close", "else"})
      Agrees(program) ==
        CASE complete /\ ~swallowed /\ ~valueless -> program.tree = module \o Written.tree
          [] (complete /\ valueless) \/ swallowed -> program.tree # module \o Written.tree
          [] ~complete /\ ~swallowed -> pieces = <<>> \/ program = Raised
  IN  Agrees(Program)
-----------------------------------------------------------------------------
(* An expression and nothing after it.                                      *)
Parsed == LET e == parse_expression(1, 0) IN IF e.i = Len(tokens) + 1 THEN e.tree ELSE <<>>
-----------------------------------------------------------------------------
(* What a text means: it is cut at the last operator, outside all parentheses,  *)
(* of those that bind least; <<>> is a text that means nothing.                *)
Operator(t) == \E l \in DOMAIN Operators : t \in Operators[l]
Level(t) == CHOOSE l \in DOMAIN Operators : t \in Operators[l]
Opened(s, i) == Cardinality({j \in 1..i : s[j] = "("}) - Cardinality({j \in 1..i : s[j] = ")"})
Outside(s) == {i \in DOMAIN s : Opened(s, i) = 0}
Infix(s) == {i \in Outside(s) : i > 1 /\ Operator(s[i]) /\ ~(Operator(s[i - 1]) \/ s[i - 1] \in {"(", ","})}
Inside(s, first) == SubSeq(s, first, Len(s) - 1)
Closes(s, first) == Len(s) > first /\ s[first] = "(" /\ Outside(s) = (1..first - 1) \cup {Len(s)} /\ Last(s) = ")"

RECURSIVE Meant(_)
Meant(s) ==
  LET both(a, b, t) == IF a = <<>> \/ b = <<>> THEN <<>> ELSE a \o b \o <<t>>
      level == Min({Level(s[i]) : i \in Infix(s)})
      cut == Max({i \in Infix(s) : Level(s[i]) = level})
      args == Inside(s, 3)
      commas == {i \in Outside(args) : args[i] = ","}
      c == Min(commas)
  IN  CASE Infix(s) # {} -> both(Meant(SubSeq(s, 1, cut - 1)), Meant(SubSeq(s, cut + 1, Len(s))), s[cut])
        [] Infix(s) = {} /\ s \in {<<"1">>, <<"x">>} -> s
        [] s = <<"-", "1">> -> <<"-1">>
        [] s = <<"x", "(", ")">> -> <<"call0">>
        [] Infix(s) = {} /\ Closes(s, 1) -> Meant(Inside(s, 2))
        [] Infix(s) = {} /\ Len(s) > 3 /\ s[1] = "x" /\ Closes(s, 2) ->
             IF commas = {} THEN LET a == Meant(args) IN IF a = <<>> THEN a ELSE Append(a, "call1")
             ELSE both(Meant(SubSeq(args, 1, c - 1)), Meant(SubSeq(args, c + 1, Len(args))), "call2")
        [] OTHER -> <<>>

(* A text is read as an expression exactly when it is one that does not nest    *)
(* too deep, each operator taking what binds tighter on its right and all that  *)
(* comes before it at its own level.                                         *)
ReadsAsMeant ==
  LET TooDeep == \E i \in DOMAIN tokens :
                   tokens[i] = "(" /\ At(i + 1) # ")" /\ Opened(tokens, i) >= MAX_AST_DEPTH
  IN  Parsed = IF TooDeep THEN <<>> ELSE Meant(tokens)
-----------------------------------------------------------------------------
Literals == [op : {"int", "bool"}]
Leaves == Literals \cup [op : {"name"}, name : Names]
Expressions == Leaves \cup [op : {"+", "<", "&&"}, left : Leaves, right : Leaves]

(* Variant with a fault: an inner block adds to the names of the one around it. *)
Shared(inner, outer) == [outer EXCEPT !.scope = inner.scope]
Restored(inner, outer) == outer
-----------------------------------------------------------------------------
(* _infer_expression: a type, or "raises".  A literal beside another operand     *)
(* takes its type, and else the expected one if that is of integers.           *)
Leaf(e, scope, expected) ==
  CASE e.op = "int" -> IF expected \in IntegerTypes THEN expected ELSE "i32"
    [] e.op = "bool" -> "bool"
    [] e.op = "name" -> IF e.name \in DOMAIN scope THEN scope[e.name] ELSE "raises"

_infer_expression(e, scope, expected) ==
  IF e \in Leaves THEN Leaf(e, scope, expected)
  ELSE LET one == e.left.op = "int"  other == e.right.op = "int"
           left == Leaf(e.left, scope, IF one /\ ~other THEN Leaf(e.right, scope, "") ELSE IF other /\ ~one THEN ""
                                       ELSE expected)
           right == Leaf(e.right, scope, IF other THEN left ELSE IF one THEN "" ELSE expected)
       IN  IF left # right THEN "raises"
           ELSE CASE e.op = "+" -> IF left \in IntegerTypes THEN left ELSE "raises"
                  [] e.op = "<" -> IF left = "raises" THEN left ELSE "bool"
                  [] e.op = "&&" -> IF left = "bool" THEN left ELSE "raises"
-----------------------------------------------------------------------------
Here == Last(frames)
Types(scope, e, expected) == _infer_expression(e, scope, expected)

Init ==
  /\ tokens = <<>> /\ pieces = <<>>
  /\ frames = <<[scope |-> [p \in DOMAIN Parameters |-> Parameters[p].type], declared_names |-> DOMAIN Parameters,
                 mutable_names |-> {p \in DOMAIN Parameters : Parameters[p].mode = "borrow_mut"}, loop_depth |-> 0]>>
  /\ declared = <<[p \in DOMAIN Parameters |-> [type |-> Parameters[p].type,
                                               mutable |-> Parameters[p].mode = "borrow_mut"]]>>
  /\ statements = 0

Validated(frame) == frames' = [frames EXCEPT ![Len(frames)] = frame]

(* let or var, with a declared type or without ("").                          *)
Let(n, type, e, mutable) ==
  LET actual == Types(Here.scope, e, type)
  IN  /\ n \notin Here.declared_names /\ actual # "raises" /\ type \in {"", actual}
      /\ Validated([Here EXCEPT !.scope = n :> actual @@ @, !.declared_names = @ \cup {n},
                                !.mutable_names = IF mutable THEN @ \cup {n} ELSE @])
      /\ declared' = [declared EXCEPT ![Len(frames)] = n :> [type |-> actual, mutable |-> mutable] @@ @]

Assignable(n, e) ==
  /\ n \in DOMAIN Here.scope /\ n \in Here.mutable_names
  /\ Types(Here.scope, e, Here.scope[n]) = Here.scope[n]

Assign(n, e) == Assignable(n, e) /\ UNCHANGED <<frames, declared>>

(* if or while: its block begins with a copy of the names.                    *)
Open(e, loops) ==
  /\ Len(frames) < MaxDepth /\ Types(Here.scope, e, "") = "bool"
  /\ frames' = Append(frames, [Here EXCEPT !.declared_names = {}, !.loop_depth = @ + loops])
  /\ declared' = Append(declared, <<>>)

Jump == Here.loop_depth > 0 /\ UNCHANGED <<frames, declared>>

Close ==
  /\ Len(frames) > 1 /\ declared' = Front(declared)
  /\ frames' = Append(SubSeq(frames, 1, Len(frames) - 2), Restored(Here, frames[Len(frames) - 1]))

Validate ==
  \/ /\ statements < MaxStatements /\ statements' = statements + 1
     /\ \/ \E n \in Names, t \in IntegerTypes \cup {"", "bool"}, e \in Expressions, m \in BOOLEAN : Let(n, t, e, m)
        \/ \E n \in Names, e \in Expressions : Assign(n, e)
        \/ \E e \in Expressions, loops \in {0, 1} : Open(e, loops)
        \/ Jump
  \/ Close /\ UNCHANGED statements

Next == \/ (WriteToken \/ WritePiece) /\ UNCHANGED <<frames, declared, statements>>
        \/ Validate /\ UNCHANGED <<tokens, pieces>>

Spec == Init /\ [][Next]_vars
-----------------------------------------------------------------------------
(* What a name means: the innermost declaration of it that is still open.      *)
Declaring(n) == {i \in DOMAIN declared : n \in DOMAIN declared[i]}
Innermost(n) == declared[CHOOSE i \in Declaring(n) : \A j \in Declaring(n) : j <= i][n]

(* A name is visible in the blocks it was declared in and around, with the type  *)
(* of its innermost declaration; and only what that declares mutable can be     *)
(* assigned, except that a let may be which shadows something mutable.         *)
NamesResolve ==
  \A n \in Names :
    /\ n \in DOMAIN Here.scope <=> Declaring(n) # {}
    /\ n \in DOMAIN Here.scope => Here.scope[n] = Innermost(n).type
    /\ n \in Here.mutable_names <=> \E i \in Declaring(n) : declared[i][n].mutable
=============================================================================
