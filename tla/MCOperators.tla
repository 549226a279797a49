----------------------------- MODULE MCOperators -----------------------------
(***************************************************************************)
(* Expressions over integers of four bits, a float, a string, a vector, an *)
(* object and a structure whose second element is a vector.                *)
(***************************************************************************)
EXTENDS NscMeaning

MCStructures == {"s"}
MCLayout == [s \in {"s"} |-> <<[name |-> "n", type |-> "int"], [name |-> "v", type |-> "vector"]>>]
MCStructSize == [s \in {"s"} |-> 4]

Constants(type, value) == [op |-> "const", type |-> type, value |-> value]
Var(type, name) == [op |-> "var", type |-> type, name |-> name]
CallOf(type, pure, value) == [op |-> "call", type |-> type, pure |-> pure, value |-> value]

MCOperands ==
    {Constants("int", <<n>>) : n \in {0, 1, 2, -8}}
    \cup {Constants("float", <<2>>), Constants("string", <<5>>), Constants("vector", <<1, 2, 3>>)}
    \cup {Var("int", "x"), Var("s", "st"), Var("vector", "v")}
    \cup {CallOf("int", FALSE, <<0>>), CallOf("float", TRUE, <<3>>), CallOf("object", TRUE, <<9>>),
          CallOf("void", FALSE, <<>>)}

MCTokens == BinaryOps \cup AssignOps

MCStarts == {[calls |-> 0, vars |-> [x |-> <<x>>, st |-> <<4, 5, 6, 7>>, v |-> <<1, 0, 2>>]] :
               x \in {-8, 3}}
=============================================================================
