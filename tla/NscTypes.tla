------------------------------ MODULE NscTypes ------------------------------
(***************************************************************************)
(* Which operands an operator takes (NscBuildBinaryOp and its relatives),  *)
(* and how its instruction is encoded (CodeBinaryOp): two tables in two    *)
(* files that have to agree.                                               *)
(***************************************************************************)
EXTENDS Integers, Sequences

CONSTANTS Structures,  \* the types of structures
          Layout,      \* per structure, its elements: [name, type]
          StructSize   \* nTotalSize, in stack cells

Engine == {"effect", "location"}   \* two of NscType_Engine_0 ...

(* NscType__First_Compare and above: what has a value. *)
ValueTypes == {"int", "float", "string", "object", "vector"} \cup Engine \cup Structures
Types == ValueTypes \cup {"void", "action", "error"}

GetTypeSize(type) == IF type \in Structures THEN StructSize[type]
                     ELSE IF type = "vector" THEN 3
                     ELSE IF type \in ValueTypes THEN 1
                     ELSE 0

(* nOffset of the elements of a structure, and behind the last one. *)
Offsets(s) == LET at[n \in 0 .. Len(Layout[s])] ==
                    IF n = 0 THEN 0 ELSE at[n - 1] + GetTypeSize(Layout[s][n].type)
              IN at

ASSUME TypesAssumption ==
    /\ Structures \cap ({"int", "float", "string", "object", "vector", "void", "action", "error"}
                          \cup Engine) = {}
    /\ Layout \in [Structures -> Seq([name : STRING, type : ValueTypes])]
    /\ StructSize \in [Structures -> Nat]
    /\ \A s \in Structures : StructSize[s] = Offsets(s)[Len(Layout[s])]

-----------------------------------------------------------------------------
(* The operands of each operator, <<left, right, result>>. *)
II == {<<"int", "int", "int">>}
IF1 == {<<"int", "float", "float">>}
FI == {<<"float", "int", "float">>}
FF == {<<"float", "float", "float">>}
VF == {<<"vector", "float", "vector">>}
FV == {<<"float", "vector", "vector">>}
VV == {<<"vector", "vector", "vector">>}
SS == {<<"string", "string", "string">>}

MultiplyTypes == FV \cup VF \cup II \cup IF1 \cup FI \cup FF
DivideTypes == VF \cup II \cup IF1 \cup FI \cup FF
SubtractTypes == II \cup IF1 \cup FI \cup FF \cup VV
AddTypes == SubtractTypes \cup SS
IntegerTypes == II
CompareTypes == II \cup {<<"float", "float", "int">>}
EqualTypes == {<<t, t, "int">> : t \in ValueTypes}

AssignTypes == {<<t, t, t>> : t \in ValueTypes}
MulDivAssignTypes == VF \cup II \cup FF \cup FI
SubAssignTypes == VV \cup II \cup FF \cup FI
AddAssignTypes == SubAssignTypes \cup SS

BinaryOps == {"*", "/", "%", "+", "-", "<<", ">>", ">>>", "<", ">", "<=", ">=", "==", "!=", "&", "^", "|"}
CompoundOps == {"*=", "/=", "%=", "+=", "-=", "<<=", ">>=", ">>>=", "&=", "^=", "|="}
AssignOps == {"="} \cup CompoundOps

OperandTypes(token) ==
    CASE token = "*"  -> MultiplyTypes
      [] token = "/"  -> DivideTypes
      [] token = "+"  -> AddTypes
      [] token = "-"  -> SubtractTypes
      [] token \in {"<", ">", "<=", ">="} -> CompareTypes
      [] token \in {"==", "!="} -> EqualTypes
      [] token = "="  -> AssignTypes
      [] token \in {"*=", "/="} -> MulDivAssignTypes
      [] token = "+=" -> AddAssignTypes
      [] token = "-=" -> SubAssignTypes
      [] OTHER -> IntegerTypes

-----------------------------------------------------------------------------
(* CodeBinaryOp: the type byte, 0 where it reports an internal error; only *)
(* with fUseTT are whole structures compared. *)
InternalError == 0

(* Faulty: no entry for a float and a vector. *)
BinaryOpTypeNoFV(fUseTT, lhs, rhs) ==
    IF <<lhs, rhs>> = <<"int", "int">> THEN 32 ELSE IF <<lhs, rhs>> = <<"float", "float">> THEN 33
    ELSE IF <<lhs, rhs>> = <<"vector", "float">> THEN 59 ELSE InternalError

BinaryOpType(fUseTT, lhs, rhs) ==
    CASE <<lhs, rhs>> = <<"int", "int">>       -> 32
      [] <<lhs, rhs>> = <<"int", "float">>     -> 37
      [] <<lhs, rhs>> = <<"float", "int">>     -> 38
      [] <<lhs, rhs>> = <<"float", "float">>   -> 33
      [] <<lhs, rhs>> = <<"float", "vector">>  -> 60
      [] <<lhs, rhs>> = <<"object", "object">> -> 34
      [] <<lhs, rhs>> = <<"string", "string">> -> 35
      [] <<lhs, rhs>> = <<"vector", "vector">> -> IF fUseTT THEN 36 ELSE 58
      [] <<lhs, rhs>> = <<"vector", "float">>  -> 59
      [] lhs \in Engine /\ lhs = rhs           -> IF lhs = "effect" THEN 48 ELSE 50
      [] fUseTT /\ lhs \in Structures /\ lhs = rhs -> 36
      [] OTHER -> InternalError

(* CodeUnaryOp: likewise. *)
UnaryOpType(type) == CASE type = "int" -> 3 [] type = "float" -> 4 [] OTHER -> InternalError

(* Equal and NotEqual are coded with fUseTT, a compound assignment with    *)
(* its own type and that of the right side. *)
OpTypeOf(token, types) ==
    IF token \in CompoundOps THEN BinaryOpType(FALSE, types[3], types[2])
    ELSE BinaryOpType(token \in {"==", "!="}, types[1], types[2])

(* Every operator the parser accepts can be encoded (CodeBinaryOp reports  *)
(* "invalid binary op" otherwise). *)
Encodable == \A token \in BinaryOps \cup CompoundOps : \A types \in OperandTypes(token) :
               OpTypeOf(token, types) # InternalError
=============================================================================
