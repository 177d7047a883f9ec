---------------------------- MODULE NativeIntegers ----------------------------
(***************************************************************************)
(* What the compiler does with integers for the program it compiles          *)
(* (holyfitra_compiler.py).  It computes operators on two literals itself     *)
(* (_constant_integer_binary and the folding in LLVMEmitter.emit_expr), beside *)
(* the instruction it emits for the same operator on values it does not know;  *)
(* and it emits a parser of integer arguments (emit_arg_i32_helper,            *)
(* emit_arg_i64_helper), which reads a character at a time into an accumulator  *)
(* twice as wide as the result.  Bits is the width of the result; the text is   *)
(* drawn as it is read.                                                      *)
(***************************************************************************)
EXTENDS Integers, Sequences

CONSTANTS Types,   \* integer types: [width, unsigned]
          Bits, Minus, Other, MaxText

VARIABLES type, register,              \* a value that is computed, for folding
          text, accumulator, result    \* the parser of an argument

vars == <<type, register, text, accumulator, result>>

Minimum(t) == IF t.unsigned THEN 0 ELSE -2^(t.width - 1)
Maximum(t) == IF t.unsigned THEN 2^t.width - 1 ELSE 2^(t.width - 1) - 1
Fits(v, t) == Minimum(t) <= v /\ v <= Maximum(t)
-----------------------------------------------------------------------------
Abs(n) == IF n < 0 THEN -n ELSE n
_signed_truncating_division(l, r) ==
  LET quotient == Abs(l) \div Abs(r) IN IF (l < 0) # (r < 0) THEN -quotient ELSE quotient

(* Variant with a fault: Python's division, which rounds down.               *)
FloorDivision(l, r) == IF r < 0 THEN (-l) \div (-r) ELSE l \div r

Quotient(l, r) == _signed_truncating_division(l, r)

(* What the compiler writes for an operator on two literals, or that it raises. *)
Raises == [raises |-> TRUE, value |-> 0]
Folded(op, l, r, t) ==
  LET value == CASE op = "+" -> l + r [] op = "-" -> l - r [] op = "*" -> l * r
                 [] op = "/" -> IF t.unsigned THEN l \div r ELSE Quotient(l, r)
      wrapped == IF t.unsigned /\ op # "/" THEN value % 2^t.width ELSE value
  IN  IF op = "/" /\ r = 0 THEN Raises
      ELSE IF Fits(wrapped, t) THEN [raises |-> FALSE, value |-> wrapped] ELSE Raises

FoldedComparison(op, l, r) ==
  CASE op = "==" -> l = r [] op = "!=" -> l # r [] op = "<" -> l < r
    [] op = "<=" -> l <= r [] op = ">" -> l > r [] op = ">=" -> l >= r
-----------------------------------------------------------------------------
(* The instructions: add, sub and mul on words, udiv or sdiv, and icmp, signed  *)
(* or not.  Division by zero and sdiv of the least by -1 have no result.       *)
Word(v, t) == v % 2^t.width
AsSigned(b, w) == IF b >= 2^(w - 1) THEN b - 2^w ELSE b
AsTyped(b, t) == IF t.unsigned THEN b ELSE AsSigned(b, t.width)
Defined(op, l, r, t) == op = "/" => r # 0 /\ ~(~t.unsigned /\ l = Minimum(t) /\ r = -1)
Executed(op, l, r, t) ==
  LET a == Word(l, t)  b == Word(r, t)
      bits == CASE op = "+" -> (a + b) % 2^t.width [] op = "-" -> (a - b) % 2^t.width
                [] op = "*" -> (a * b) % 2^t.width
                [] op = "/" -> CHOOSE q \in 0..2^t.width - 1 :
                                 LET p == AsTyped(q, t) * r
                                 IN  Abs(p) <= Abs(l) /\ Abs(l - p) < Abs(r) /\ (p = 0 \/ (p < 0) = (l < 0))
  IN  AsTyped(bits, t)
Compared(op, l, r, t) ==
  LET less == IF t.unsigned THEN Word(l, t) < Word(r, t)
              ELSE (Word(l, t) + 2^(t.width - 1)) % 2^t.width < (Word(r, t) + 2^(t.width - 1)) % 2^t.width
      equal == Word(l, t) = Word(r, t)
  IN  CASE op = "==" -> equal [] op = "!=" -> ~equal [] op = "<" -> less
        [] op = "<=" -> less \/ equal [] op = ">" -> ~(less \/ equal) [] op = ">=" -> ~less

Arithmetic == {"+", "-", "*", "/"}
Comparisons == {"==", "!=", "<", "<=", ">", ">="}
-----------------------------------------------------------------------------
Pending == <<"pending">>
Default == <<"default">>

Wide(n) == n % (2^(2 * Bits))
Negative == text # <<>> /\ Head(text) = Minus
limit == IF Negative THEN 2^(Bits - 1) ELSE 2^(Bits - 1) - 1
Digits == IF Negative THEN Tail(text) ELSE text

(* Variant with a fault: the digit is not subtracted from the limit.         *)
OverflowsWithoutDigit(digit) == accumulator > limit \div 10

would_overflow(digit) == accumulator > Wide(limit - digit) \div 10

Digit(d) ==
  /\ result = Pending /\ Len(text) < MaxText
  /\ text' = Append(text, d)
  /\ IF would_overflow(d) THEN result' = Default /\ UNCHANGED accumulator
     ELSE accumulator' = Wide(Wide(accumulator * 10) + d) /\ UNCHANGED result

(* A minus sign is one only in front; any other character ends the parse.     *)
Character(c) ==
  /\ result = Pending /\ Len(text) < MaxText
  /\ text' = Append(text, c)
  /\ result' = IF c = Minus /\ text = <<>> THEN Pending ELSE Default
  /\ UNCHANGED accumulator

Signed(n) == LET low == n % (2^Bits) IN IF low >= 2^(Bits - 1) THEN low - 2^Bits ELSE low
Finish ==
  /\ result = Pending
  /\ result' = IF Digits = <<>> THEN Default
               ELSE <<"value", Signed(IF Negative THEN -accumulator ELSE accumulator)>>
  /\ UNCHANGED <<text, accumulator>>
-----------------------------------------------------------------------------
(* A type, or an argument that is there or whose fallback is the result at once. *)
Init == /\ type \in Types /\ register = 0
        /\ text = <<>> /\ accumulator = 0 /\ result \in {Pending, Default}

Compute ==
  /\ \E op \in Arithmetic, r \in Minimum(type)..Maximum(type) :
       Defined(op, register, r, type) /\ register' = Executed(op, register, r, type)
  /\ UNCHANGED <<type, text, accumulator, result>>

Parse == /\ (\E d \in 0..9 : Digit(d)) \/ Character(Minus) \/ Character(Other) \/ Finish
         /\ UNCHANGED <<type, register>>

Next == Compute \/ Parse
Spec == Init /\ [][Next]_vars
-----------------------------------------------------------------------------
(* The literal the compiler writes is what the program would have computed,     *)
(* with its wrap-around and its division; it raises only for a division without *)
(* a result and for a signed result that does not fit.                        *)
FoldsExactly ==
  \A r \in Minimum(type)..Maximum(type) :
    /\ \A op \in Arithmetic :
         LET folded == Folded(op, register, r, type)
             exact == CASE op = "+" -> register + r [] op = "-" -> register - r [] OTHER -> register * r
         IN  IF folded.raises
             THEN IF op = "/" THEN ~Defined(op, register, r, type) ELSE ~type.unsigned /\ ~Fits(exact, type)
             ELSE Defined(op, register, r, type) /\ folded.value = Executed(op, register, r, type)
    /\ \A op \in Comparisons : FoldedComparison(op, register, r) = Compared(op, register, r, type)

Valued[n \in 0..MaxText] == IF n = 0 THEN 0 ELSE 10 * Valued[n - 1] + Digits[n]
Number == IF Negative THEN -Valued[Len(Digits)] ELSE Valued[Len(Digits)]
IsNumber == Digits # <<>> /\ \A i \in DOMAIN Digits : Digits[i] \in 0..9
Representable(n) == -2^(Bits - 1) <= n /\ n < 2^(Bits - 1)

(* A decimal number that fits the type is read exactly, the least one too; no   *)
(* other text is read as a number, and no number is refused before it is clear *)
(* that it does not fit.                                                     *)
ParsesExactly ==
  /\ result \notin {Pending, Default} => IsNumber /\ result[2] = Number /\ Representable(Number)
  /\ result = Default /\ IsNumber => ~Representable(Number)
=============================================================================
