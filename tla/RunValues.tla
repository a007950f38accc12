------------------------------ MODULE RunValues ------------------------------
(***************************************************************************)
(* The values a compiled function computes with, as LLVM's instructions    *)
(* treat them.  A value carries its type.  An i32 is a number that wraps;  *)
(* a floating-point value is the term that computes it, so that different  *)
(* computations are never confused.                                        *)
(***************************************************************************)
EXTENDS Integers

CONSTANT Half                            \* an int is in -Half .. Half-1

ASSUME HalfAssumption == Half \in Nat \ {0}

Word == -Half .. (Half - 1)

Int32Value(v) == <<"i32", v>>
FloatValue(n) == <<"float", n>>          \* the LiteralFloat at position n

(***************************************************************************)
(* What may be found in memory nothing was stored to.                      *)
(***************************************************************************)
Unset(type) ==
    IF type = "i32" THEN {Int32Value(v) : v \in Word} ELSE {<<type, 0>>}

Wrap(v) == ((v + Half) % (2 * Half)) - Half

Abs(a) == IF a < 0 THEN -a ELSE a

(***************************************************************************)
(* sdiv truncates towards zero; it has no result for a divisor of zero,    *)
(* nor for the least integer divided by -1.                                *)
(***************************************************************************)
Quotient(a, b) ==
    LET q == Abs(a) \div Abs(b) IN IF (a < 0) = (b < 0) THEN q ELSE -q

Traps(operation, a, b) ==
    operation = "Div" /\ (b[2] = 0 \/ (a[2] = -Half /\ b[2] = -1))

IntResult(operation, a, b) ==
    CASE operation = "Add" -> Int32Value(Wrap(a[2] + b[2]))
      [] operation = "Sub" -> Int32Value(Wrap(a[2] - b[2]))
      [] operation = "Mul" -> Int32Value(Wrap(a[2] * b[2]))
      [] OTHER             -> Int32Value(Quotient(a[2], b[2]))

FloatResult(operation, a, b) == <<operation, a, b>>

=============================================================================
