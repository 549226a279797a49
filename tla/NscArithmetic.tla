---------------------------- MODULE NscArithmetic ----------------------------
(***************************************************************************)
(* Values on the stack and what operators make of them: the processor that *)
(* runs the compiler does the same with constants as the one that runs the *)
(* script, integers being Width bits wide and shift counts cut to that.    *)
(* A value is a sequence of cells.  Floats are whole numbers here, and a   *)
(* string stands as the number its characters 1 and 2 make to base 3.      *)
(***************************************************************************)
EXTENDS NscTypes
LOCAL B == INSTANCE Bitwise

CONSTANT Width
ASSUME WidthAssumption == Width \in Nat \ {0}

MinInt == -(2 ^ (Width - 1))
MaxInt == 2 ^ (Width - 1) - 1
Unsigned(n) == n % 2 ^ Width
Wrap(n) == LET u == Unsigned(n) IN IF u > MaxInt THEN u - 2 ^ Width ELSE u

Bit(b) == IF b THEN 1 ELSE 0
Abs(n) == IF n < 0 THEN -n ELSE n
Quotient(a, b) == IF (a < 0) = (b < 0) THEN Abs(a) \div Abs(b) ELSE -(Abs(a) \div Abs(b))
Remainder(a, b) == a - b * Quotient(a, b)

Digits(s) == CHOOSE n \in 0 .. s : 3 ^ n > s /\ (n = 0 \/ 3 ^ (n - 1) <= s)
Concat(s, t) == s * 3 ^ Digits(t) + t

Number(op, a, b) ==
    CASE op = "*" -> a * b
      [] op = "/" -> Quotient(a, b)
      [] op = "%" -> Remainder(a, b)
      [] op = "+" -> a + b
      [] op = "-" -> a - b
      [] op = "<<" -> a * 2 ^ (b % Width)
      [] op = ">>" -> a \div 2 ^ (b % Width)
      [] op = ">>>" -> Unsigned(a) \div 2 ^ (b % Width)
      [] op = "<" -> Bit(a < b)
      [] op = ">" -> Bit(a > b)
      [] op = "<=" -> Bit(a <= b)
      [] op = ">=" -> Bit(a >= b)
      [] op = "==" -> Bit(a = b)
      [] op = "!=" -> Bit(a # b)
      [] op = "&" -> B!&(Unsigned(a), Unsigned(b))
      [] op = "^" -> B!^^(Unsigned(a), Unsigned(b))
      [] op = "|" -> B!|(Unsigned(a), Unsigned(b))

(* Division by zero has no value, nor has that of the least integer by -1. *)
Undefined(op, lhs, rhs, a, b) ==
    /\ op \in {"/", "%"}
    /\ \/ b = <<0>>
       \/ rhs = "int" /\ lhs = "int" /\ a = <<MinInt>> /\ b = <<-1>>

(* Operator op on the values a and b of types lhs and rhs. *)
Operate(op, lhs, rhs, a, b) ==
    CASE op \in {"==", "!="} -> <<Bit((a = b) = (op = "=="))>>
      [] lhs = "string"  -> <<Concat(a[1], b[1])>>
      [] lhs = "vector" /\ rhs = "vector" -> [n \in 1 .. 3 |-> Number(op, a[n], b[n])]
      [] lhs = "vector" -> [n \in 1 .. 3 |-> Number(op, a[n], b[1])]
      [] rhs = "vector" -> [n \in 1 .. 3 |-> Number(op, a[1], b[n])]
      [] lhs = "int" /\ rhs = "int" -> <<Wrap(Number(op, a[1], b[1]))>>
      [] OTHER -> <<Number(op, a[1], b[1])>>

OperateUnary(op, type, a) ==
    CASE op = "+" -> a
      [] op = "-" -> <<IF type = "int" THEN Wrap(-a[1]) ELSE -a[1]>>
      [] op = "~" -> <<-a[1] - 1>>
      [] op = "!" -> <<Bit(a[1] = 0)>>
=============================================================================
