---------------------------- MODULE NscOperators ----------------------------
(***************************************************************************)
(* Expressions as the parser builds them: a stack of entries, each with    *)
(* the intermediate code made so far, which the operators of the grammar   *)
(* replace by that of their result.  With -o constants are folded, and     *)
(* multiplications become shifts.                                          *)
(*                                                                         *)
(* source is what was written; NscMeaning compares the two.                *)
(***************************************************************************)
EXTENDS NscArithmetic

CONSTANTS Operands,   \* what an expression starts from: a constant, a variable or a call
          Tokens,     \* the operators in use
          Limit       \* how many operands and operators an expression may have

VARIABLES optExpression,   \* GetOptExpression ()
          entries,         \* the parser's stack of expressions
          built,           \* how many operands and operators there were
          trapped          \* the compiler divided by an operand that traps

operatorVars == <<optExpression, entries, built, trapped>>

-----------------------------------------------------------------------------
(* Code. *)
Const(type, value) == [op |-> "Constant", type |-> type, value |-> value]
IsSimpleConstant(data) == Len(data) = 1 /\ data[1].op = "Constant"
IsSimpleVariable(data) == Len(data) = 1 /\ data[1].op = "Variable"
                            /\ data[1].inc = "none" /\ ~data[1].constant
ValueOf(data) == data[1].value
IntegerOf(data) == data[1].value[1]

(* IsIntegerPowerOf2, which holds for 0, and the shift for the others. *)
IsIntegerPowerOf2(data) ==
    IsSimpleConstant(data) /\ Unsigned(IntegerOf(data)) \in {0} \cup {2 ^ n : n \in 0 .. Width - 1}
Shift(data) == CHOOSE n \in 0 .. Width - 1 : Unsigned(IntegerOf(data)) = 2 ^ n

(* What a code has inside (ProcessPCodeBlockInternal). *)
Blocks(code) ==
    CASE code.op \in {"&&", "||"}  -> {code.lhs, code.rhs}
      [] code.op = "Conditional" -> {code.select, code.first, code.second}
      [] code.op \in AssignOps   -> {code.data}
      [] code.op = "Element"     -> {code.data}
      [] OTHER -> {}

(* OnPCodeEntry of the side effect checker. *)
Effect(code) == \/ code.op = "Call" /\ ~code.pure
                \/ code.op \in AssignOps
                \/ code.op = "Variable" /\ code.inc # "none"

RECURSIVE HasSideEffects(_)
HasSideEffects(data) ==
    \E n \in DOMAIN data : \/ Effect(data[n])
                           \/ \E block \in Blocks(data[n]) : HasSideEffects(block)

(* A result: an error, or a type with its code. *)
Error == [type |-> "error", data |-> <<>>]
Built(type, data) == [type |-> type, data |-> data]
Constant(type, value) == Built(type, <<Const(type, value)>>)

PushBinaryOp(op, type, l, r) ==
    Built(type, l.data \o r.data \o <<[op |-> op, type |-> type, lhs |-> l.type, rhs |-> r.type]>>)

NscPushAssignment(op, type, l, r) ==
    IF ~IsSimpleVariable(l.data) THEN Error
    ELSE LET v == l.data[1] IN
         Built(type, <<[op |-> op, type |-> type, source |-> v.source, rhs |-> r.type,
                        name |-> v.name, element |-> v.element, data |-> r.data]>>)

-----------------------------------------------------------------------------
(* NscBuildPlusMinus. *)
PlusMinus(l, inc) ==
    IF l.type = "int" /\ IsSimpleVariable(l.data)
    THEN Built("int", <<[l.data[1] EXCEPT !.inc = inc]>>)
    ELSE Error

(* NscBuildUnaryOp. *)
Unary(token, e) ==
    IF e.type = "int" \/ (e.type = "float" /\ token \in {"+", "-"})
    THEN IF token = "+" THEN Built(e.type, e.data)
         ELSE IF optExpression /\ IsSimpleConstant(e.data)
         THEN Constant(e.type, OperateUnary(token, e.type, ValueOf(e.data)))
         ELSE Built(e.type, Append(e.data, [op |-> "unary", token |-> token, type |-> e.type]))
    ELSE Error

TypesOf(token, l, r) == {types \in OperandTypes(token) : types[1] = l.type /\ types[2] = r.type}
Out(token, l, r) == (CHOOSE types \in TypesOf(token, l, r) : TRUE)[3]

(* Both sides are constants that may be folded: not structures, objects or *)
(* engine types; not where the right side is 0; not a shift to the right.  *)
Folds(token, l, r) ==
    /\ optExpression /\ IsSimpleConstant(l.data) /\ IsSimpleConstant(r.data)
    /\ {l.type, r.type} \subseteq {"int", "float", "string", "vector"}
    /\ token \notin {">>", ">>>"}
    /\ token \in {"/", "%"} => ValueOf(r.data) # <<0>>

Folded(token, l, r) ==
    Constant(Out(token, l, r), Operate(token, l.type, r.type, ValueOf(l.data), ValueOf(r.data)))

(* A product of integers that is not folded, as one of 0 or as a shift.    *)
(* Faulty: what the left side does is lost with it. *)
ZeroAnyway(l, r) == optExpression /\ IsSimpleConstant(r.data) /\ IntegerOf(r.data) = 0

Zero(l, r) == optExpression /\ IsSimpleConstant(r.data) /\ IntegerOf(r.data) = 0
                /\ ~HasSideEffects(l.data)
ByShift(r) == optExpression /\ IsIntegerPowerOf2(r.data) /\ IntegerOf(r.data) # 0
IntegerConstant(n) == Constant("int", <<n>>)

Multiply(l, r) ==
    IF {l.type, r.type} # {"int"} THEN PushBinaryOp("*", Out("*", l, r), l, r)
    ELSE IF Zero(l, r) THEN IntegerConstant(0)
    ELSE IF ByShift(r) THEN PushBinaryOp("<<", "int", l, IntegerConstant(Shift(r.data)))
    ELSE IF Zero(r, l) THEN IntegerConstant(0)
    ELSE IF ByShift(l) THEN PushBinaryOp("<<", "int", r, IntegerConstant(Shift(l.data)))
    ELSE PushBinaryOp("*", "int", l, r)

(* The compound assignments of integers that become something else. *)
MultiplyAssign(l, r) ==
    IF Zero(l, r) THEN NscPushAssignment("=", "int", l, IntegerConstant(0))
    ELSE IF ByShift(r) THEN NscPushAssignment("<<=", "int", l, IntegerConstant(Shift(r.data)))
    ELSE NscPushAssignment("*=", "int", l, r)

AddAssign(token, l, r) ==
    IF optExpression /\ IsSimpleConstant(r.data) /\ IntegerOf(r.data) = 1
    THEN PlusMinus(l, IF token = "+=" THEN "++x" ELSE "--x")
    ELSE NscPushAssignment(token, "int", l, r)

Assign(token, l, r) ==
    CASE token = "*=" /\ l.type = "int" -> MultiplyAssign(l, r)
      [] token \in {"+=", "-="} /\ l.type = "int" -> AddAssign(token, l, r)
      [] OTHER -> NscPushAssignment(token, Out(token, l, r), l, r)

(* NscBuildBinaryOp. *)
Binary(token, l, r) ==
    IF TypesOf(token, l, r) = {} THEN Error
    ELSE IF token \in AssignOps THEN Assign(token, l, r)
    ELSE IF Folds(token, l, r) THEN Folded(token, l, r)
    ELSE IF token = "*" THEN Multiply(l, r)
    ELSE PushBinaryOp(token, Out(token, l, r), l, r)

(* NscBuildLogicalOp: a constant left side decides, or is left out. *)
Constantly(e, values) == optExpression /\ IsSimpleConstant(e.data) /\ IntegerOf(e.data) \in values
NonZero == MinInt .. MaxInt \ {0}

Logical(token, l, r) ==
    IF {l.type, r.type} # {"int"} THEN Error
    ELSE IF ~Constantly(l, MinInt .. MaxInt)
    THEN Built("int", <<[op |-> token, type |-> "int", lhs |-> l.data, rhs |-> r.data]>>)
    ELSE IF token = "&&" /\ Constantly(l, {0}) THEN IntegerConstant(0)
    ELSE IF token = "||" /\ Constantly(l, NonZero) THEN IntegerConstant(1)
    ELSE IF Constantly(r, MinInt .. MaxInt) THEN IntegerConstant(Bit(Constantly(r, NonZero)))
    ELSE Built("int", r.data)

Shortened(l, r) == Constantly(l, MinInt .. MaxInt) /\ ~Constantly(r, MinInt .. MaxInt)

(* NscBuildConditional. *)
Conditional(select, first, second) ==
    IF select.type = "int" /\ first.type = second.type
    THEN Built(first.type, <<[op |-> "Conditional", type |-> first.type, select |-> select.data,
                              first |-> first.data, second |-> second.data]>>)
    ELSE Error

(* NscPushElementAccess: of a variable, or of what is on the stack. *)
ElementAccess(e, type, offset) ==
    IF IsSimpleVariable(e.data)
    THEN Built(type, <<[e.data[1] EXCEPT !.type = type, !.source = e.type, !.element = offset]>>)
    ELSE Built(type, <<[op |-> "Element", type |-> type, of |-> e.type, element |-> offset,
                        data |-> e.data]>>)

(* The elements a value has (NscBuildElementAccess): [type, offset]. *)
Elements(type) ==
    IF type = "vector" THEN {[type |-> "float", offset |-> n] : n \in 0 .. 2}
    ELSE IF type \in Structures
    THEN {[type |-> Layout[type][n].type, offset |-> Offsets(type)[n - 1]] :
            n \in DOMAIN Layout[type]}
    ELSE {}

Nested(e) == IsSimpleVariable(e.data) /\ e.data[1].element # -1

-----------------------------------------------------------------------------
OperatorInit == optExpression \in BOOLEAN /\ entries = <<>> /\ built = 0 /\ trapped = FALSE

Last(n) == entries[Len(entries) - n]
Top1 == Last(0)
Top2 == Last(1)
Deep(n) == Len(entries) >= n /\ \A m \in 1 .. n : Last(m - 1).type # "error"

(* The topmost n entries make way for result, written as source; nothing   *)
(* is made of an error any more. *)
Replace(n, result, source, odd) ==
    /\ entries' = IF result.type = "error" THEN <<[type |-> "error"]>>
                  ELSE Append(SubSeq(entries, 1, Len(entries) - n),
                              [type |-> result.type, data |-> result.data, source |-> source,
                               odd |-> odd \cup UNION {Last(m - 1).odd : m \in 1 .. n}])
    /\ built' = built + 1
    /\ UNCHANGED <<optExpression, trapped>>

Going == built < Limit /\ ~trapped

(* Another operand while the operators left can still take all of them.    *)
Room == (Len(entries) + 1) \div 2 < Limit - built

CodeOf(o) ==
    CASE o.op = "const" -> Const(o.type, o.value)
      [] o.op = "call"  -> [op |-> "Call", type |-> o.type, pure |-> o.pure, value |-> o.value]
      [] o.op = "var"   -> [op |-> "Variable", type |-> o.type, source |-> o.type, name |-> o.name,
                            element |-> -1, inc |-> "none", constant |-> FALSE]

PushOperand(o) ==
    /\ Going /\ Room /\ (\A n \in DOMAIN entries : entries[n].type # "error")
    /\ Replace(0, Built(o.type, <<CodeOf(o)>>), o, {})

BuildPlusMinus(inc) ==
    /\ Going /\ Deep(1)
    /\ Replace(1, PlusMinus(Top1, inc), [op |-> inc, of |-> Top1.source], {})

BuildUnaryOp(token) ==
    /\ Going /\ Deep(1)
    /\ Replace(1, Unary(token, Top1),
               [op |-> "unary", token |-> token, type |-> Top1.type, of |-> Top1.source], {})

(* The least integer divided by -1 traps where the compiler runs. *)
Traps(token, l, r) == Folds(token, l, r) /\ TypesOf(token, l, r) # {}
                        /\ Undefined(token, l.type, r.type, ValueOf(l.data), ValueOf(r.data))

BuildBinaryOp(token) ==
    /\ Going /\ Deep(2)
    /\ ~Traps(token, Top2, Top1)
    /\ Replace(2, Binary(token, Top2, Top1),
               [op |-> token, lhs |-> Top2.type, rhs |-> Top1.type,
                left |-> Top2.source, right |-> Top1.source], {})

Trap(token) ==
    /\ Going /\ Deep(2)
    /\ Traps(token, Top2, Top1)
    /\ trapped' = TRUE
    /\ UNCHANGED <<optExpression, entries, built>>

BuildLogicalOp(token) ==
    /\ Going /\ Deep(2)
    /\ Replace(2, Logical(token, Top2, Top1),
               [op |-> token, left |-> Top2.source, right |-> Top1.source],
               IF Logical(token, Top2, Top1).type = "int" /\ Shortened(Top2, Top1)
               THEN {"shortened"} ELSE {})

BuildConditional ==
    /\ Going /\ Deep(3)
    /\ Replace(3, Conditional(Last(2), Top2, Top1),
               [op |-> "Conditional", select |-> Last(2).source, first |-> Top2.source,
                second |-> Top1.source], {})

BuildElementAccess(element) ==
    /\ Going /\ Deep(1)
    /\ Replace(1, ElementAccess(Top1, element.type, element.offset),
               [op |-> "Element", type |-> element.type, offset |-> element.offset,
                of |-> Top1.source],
               IF Nested(Top1) THEN {"nested"} ELSE {})

OperatorNext ==
    \/ \E o \in Operands : PushOperand(o)
    \/ \E inc \in {"++x", "x++", "--x", "x--"} : BuildPlusMinus(inc)
    \/ \E token \in {"+", "-", "~", "!"} : BuildUnaryOp(token)
    \/ \E token \in Tokens : BuildBinaryOp(token) \/ Trap(token)
    \/ \E token \in {"&&", "||"} : BuildLogicalOp(token)
    \/ BuildConditional
    \/ \E t \in ValueTypes : \E element \in Elements(t) :
         Deep(1) /\ Top1.type = t /\ BuildElementAccess(element)

OperatorSpec == OperatorInit /\ [][OperatorNext]_operatorVars
=============================================================================
