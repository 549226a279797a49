----------------------------- MODULE NscMeaning -----------------------------
(***************************************************************************)
(* What an expression means as it was written, and what the code that the  *)
(* generator emits for it computes: the two have to be the same whatever   *)
(* was folded.                                                             *)
(*                                                                         *)
(* A world has the cells of each variable and the number of calls made.    *)
(* An outcome has a world and a value, or is not ok.                       *)
(***************************************************************************)
EXTENDS NscOperators

CONSTANT Starts   \* the worlds expressions start in

CompoundOp == [op \in CompoundOps |->
    CHOOSE b \in BinaryOps : <<op, b>> \in
        {<<"*=", "*">>, <<"/=", "/">>, <<"%=", "%">>, <<"+=", "+">>, <<"-=", "-">>, <<"<<=", "<<">>,
         <<">>=", ">>">>, <<">>>=", ">>>">>, <<"&=", "&">>, <<"^=", "^">>, <<"|=", "|">>}]

Step(inc) == IF inc \in {"++x", "x++"} THEN 1 ELSE IF inc \in {"--x", "x--"} THEN -1 ELSE 0

Of(value, world) == [ok |-> TRUE, value |-> value, world |-> world]
Fails == [ok |-> FALSE]

Cells(world, name, first, size) == SubSeq(world.vars[name], first + 1, first + size)
Stored(world, name, first, value) ==
    [world EXCEPT !.vars[name] =
        [n \in DOMAIN @ |-> IF n \in first + 1 .. first + Len(value) THEN value[n - first] ELSE @[n]]]

(* A call that is not pure counts; it may tell how often. *)
Called(call, world) ==
    IF call.pure THEN Of(call.value, world)
    ELSE Of(IF call.type = "int" THEN <<world.calls + 1>> ELSE call.value,
            [world EXCEPT !.calls = @ + 1])

Incremented(inc, name, first, world) ==
    LET old == Cells(world, name, first, 1)
        new == <<Wrap(old[1] + Step(inc))>>
    IN Of(IF inc \in {"x++", "x--"} THEN old ELSE new, Stored(world, name, first, new))

Calculated(token, lhs, rhs, a, b, world) ==
    IF Undefined(token, lhs, rhs, a, b) THEN Fails ELSE Of(Operate(token, lhs, rhs, a, b), world)

-----------------------------------------------------------------------------
(* The expression as written. *)

RECURSIVE Place(_)   \* [name, first] of a variable or an element of one; +x is x
Place(s) == CASE s.op = "var"   -> [name |-> s.name, first |-> 0]
              [] s.op = "unary" -> Place(s.of)
              [] OTHER -> [Place(s.of) EXCEPT !.first = @ + s.offset]

RECURSIVE Meaning(_, _)
Meaning(s, world) ==
    CASE s.op = "const" -> Of(s.value, world)
      [] s.op = "var"   -> Of(world.vars[s.name], world)
      [] s.op = "call"  -> Called(s, world)
      [] s.op \in {"++x", "x++", "--x", "x--"} ->
           Incremented(s.op, Place(s.of).name, Place(s.of).first, world)
      [] s.op = "unary" ->
           LET of == Meaning(s.of, world)
           IN IF of.ok THEN Of(OperateUnary(s.token, s.type, of.value), of.world) ELSE Fails
      [] s.op = "Element" ->
           LET of == Meaning(s.of, world)
           IN IF of.ok
              THEN Of(SubSeq(of.value, s.offset + 1, s.offset + GetTypeSize(s.type)), of.world)
              ELSE Fails
      [] s.op = "Conditional" ->
           LET select == Meaning(s.select, world)
           IN IF select.ok
              THEN Meaning(IF select.value # <<0>> THEN s.first ELSE s.second, select.world)
              ELSE Fails
      [] s.op \in {"&&", "||"} ->
           LET left == Meaning(s.left, world)
               right == Meaning(s.right, left.world)
           IN IF ~left.ok THEN Fails
              ELSE IF (left.value # <<0>>) = (s.op = "||") THEN Of(<<Bit(s.op = "||")>>, left.world)
              ELSE IF right.ok THEN Of(<<Bit(right.value # <<0>>)>>, right.world)
              ELSE Fails
      [] s.op = "=" ->
           LET right == Meaning(s.right, world)
           IN IF right.ok
              THEN Of(right.value,
                      Stored(right.world, Place(s.left).name, Place(s.left).first, right.value))
              ELSE Fails
      [] s.op \in CompoundOps ->
           LET left == Meaning(s.left, world)
               right == Meaning(s.right, left.world)
               sum == Calculated(CompoundOp[s.op], s.lhs, s.rhs, left.value, right.value, right.world)
           IN IF right.ok /\ sum.ok
              THEN Of(sum.value,
                      Stored(sum.world, Place(s.left).name, Place(s.left).first, sum.value))
              ELSE Fails
      [] OTHER ->
           LET left == Meaning(s.left, world)
               right == Meaning(s.right, left.world)
           IN IF left.ok /\ right.ok
              THEN Calculated(s.op, s.lhs, s.rhs, left.value, right.value, right.world)
              ELSE Fails

-----------------------------------------------------------------------------
(* The code (CodeData): the cells it pushes on those that are there.       *)
First(code) == IF code.element = -1 THEN 0 ELSE code.element

(* The n cells on top, and those below. *)
Over(stack, n) == SubSeq(stack, Len(stack) - n + 1, Len(stack))
Under(stack, n) == SubSeq(stack, 1, Len(stack) - n)

RECURSIVE Run(_, _)
Run(data, world) ==
    LET Execute[n \in 0 .. Len(data)] ==
          LET c == data[n]
              before == Execute[n - 1]
              stack == before.value
              now == before.world
              Push(o, below) == IF o.ok THEN Of(below \o o.value, o.world) ELSE Fails
          IN IF n = 0 THEN Of(<<>>, world)
             ELSE IF ~before.ok THEN Fails
             ELSE
             CASE c.op = "Constant" -> Of(stack \o c.value, now)
               [] c.op = "Call" -> Push(Called(c, now), stack)
               [] c.op = "Variable" ->
                    IF c.inc = "none"
                    THEN Of(stack \o Cells(now, c.name, First(c), GetTypeSize(c.type)), now)
                    ELSE Push(Incremented(c.inc, c.name, First(c), now), stack)
               [] c.op = "Element" ->
                    LET of == Run(c.data, now)
                    IN IF of.ok
                       THEN Of(stack \o SubSeq(of.value, c.element + 1,
                                               c.element + GetTypeSize(c.type)), of.world)
                       ELSE Fails
               [] c.op = "unary" ->
                    LET size == GetTypeSize(c.type)
                    IN Of(Under(stack, size) \o OperateUnary(c.token, c.type, Over(stack, size)), now)
               [] c.op = "Conditional" ->
                    LET select == Run(c.select, now)
                    IN IF select.ok
                       THEN Push(Run(IF select.value # <<0>> THEN c.first ELSE c.second, select.world),
                                 stack)
                       ELSE Fails
               [] c.op \in {"&&", "||"} ->
                    LET lhs == Run(c.lhs, now)
                        rhs == Run(c.rhs, lhs.world)
                    IN IF ~lhs.ok THEN Fails
                       ELSE IF (lhs.value # <<0>>) = (c.op = "||")
                       THEN Of(Append(stack, Bit(c.op = "||")), lhs.world)
                       ELSE IF rhs.ok THEN Of(Append(stack, Bit(rhs.value # <<0>>)), rhs.world)
                       ELSE Fails
               [] c.op = "=" ->
                    LET rhs == Run(c.data, now)
                    IN IF rhs.ok
                       THEN Of(stack \o rhs.value, Stored(rhs.world, c.name, First(c), rhs.value))
                       ELSE Fails
               [] c.op \in CompoundOps ->
                    LET lhs == Cells(now, c.name, First(c), GetTypeSize(c.type))
                        rhs == Run(c.data, now)
                        sum == Calculated(CompoundOp[c.op], c.type, c.rhs, lhs, rhs.value, rhs.world)
                    IN IF rhs.ok /\ sum.ok
                       THEN Of(stack \o sum.value, Stored(sum.world, c.name, First(c), sum.value))
                       ELSE Fails
               [] OTHER ->
                    LET l == GetTypeSize(c.lhs)
                        r == GetTypeSize(c.rhs)
                        below == Under(stack, l + r)
                    IN Push(Calculated(c.op, c.lhs, c.rhs, Over(Under(stack, r), l), Over(stack, r), now),
                            below)
    IN Execute[Len(data)]

-----------------------------------------------------------------------------
(* m_nExpDepth as CodeData counts it for some code, and whether CodeUnaryOp *)
(* and CodeBinaryOp find an encoding for all of it.                         *)
RECURSIVE Depth(_)
Depth(data) ==
    LET at[n \in 0 .. Len(data)] ==
          IF n = 0 THEN 0 ELSE
          at[n - 1] + LET c == data[n] IN
          CASE c.op \in {"Constant", "Call", "Variable"} -> GetTypeSize(c.type)
            [] c.op = "Element" -> Depth(c.data) - GetTypeSize(c.of) + GetTypeSize(c.type)
            [] c.op = "unary" -> 0
            [] c.op = "Conditional" ->
                 Depth(c.select) - 1 + Depth(c.first) - GetTypeSize(c.type) + Depth(c.second)
            [] c.op \in {"&&", "||"} -> Depth(c.lhs) + 1 - 1 + Depth(c.rhs) - 1
            [] c.op = "=" -> Depth(c.data)
            [] c.op \in CompoundOps ->
                 GetTypeSize(c.type) + Depth(c.data) - GetTypeSize(c.rhs)
            [] OTHER -> GetTypeSize(c.type) - GetTypeSize(c.lhs) - GetTypeSize(c.rhs)
    IN at[Len(data)]

RECURSIVE Encoded(_)
Encoded(data) ==
    \A n \in DOMAIN data :
        LET c == data[n] IN
        /\ \A block \in Blocks(c) : Encoded(block)
        /\ c.op = "unary" => UnaryOpType(c.type) # InternalError
        /\ c.op \in BinaryOps => OpTypeOf(c.op, <<c.lhs, c.rhs, c.type>>) # InternalError
        /\ c.op \in CompoundOps => OpTypeOf(c.op, <<c.type, c.rhs, c.type>>) # InternalError

-----------------------------------------------------------------------------
Finished == {n \in DOMAIN entries : entries[n].type # "error"}

(* What an expression means is what its code does: the same value, the    *)
(* same variables and as many calls, wherever it means something.         *)
Same(e) == \A world \in Starts :
    LET meaning == Meaning(e.source, world)
        run == Run(e.data, world)
    IN meaning.ok => run = meaning

(* With -o and without, an expression's code does what it means: folding   *)
(* constants, products as shifts, increments for += 1, and what is dropped *)
(* for a factor of 0 or a constant left side change nothing (NscBuild-     *)
(* BinaryOp and its relatives).  Left out are the two cases the README     *)
(* names, which carry odd.                                                 *)
FoldingPreserves == \A n \in Finished : entries[n].odd = {} => Same(entries[n])

(* The depth CodeData counts for an entry is that of its type, and the     *)
(* generator knows the type byte of every operator in it: else locals are  *)
(* addressed beside where they are (m_nSPDepth + m_nExpDepth), or it is an *)
(* internal error.                                                         *)
StackBalanced == \A n \in Finished :
    Depth(entries[n].data) = GetTypeSize(entries[n].type) /\ Encoded(entries[n].data)

(* An element of an element of a variable is the one that was written      *)
(* (NscPushElementAccess takes "Index of the structure element (NOTE: In   *)
(* terms of stack size)").                                                 *)
ElementsFound == \A n \in Finished : entries[n].odd = {"nested"} => Same(entries[n])
=============================================================================
