------------------------------ MODULE NscPStack ------------------------------
(***************************************************************************)
(* CNscPStackEntry: what the parser's rules hand to each other, with the   *)
(* intermediate code made so far as one flat buffer, and the enumerator    *)
(* that finds its way through it again.                                    *)
(*                                                                         *)
(* A cell is a structure NscPCode..., or a character that follows it; the  *)
(* blocks of a code are copied behind it and found by offset and size.     *)
(***************************************************************************)
EXTENDS Integers, Sequences, FiniteSets

CONSTANTS PStackEntries,  \* the entries there is memory for
          FastData_Size,  \* cells an entry has from the start
          Lengths,        \* of identifiers and strings
          Layouts,        \* which block of five comes from which operand, 0 from none
          Ops,            \* which codes of those that are alike are pushed
          PushLimit       \* how much is pushed

ASSUME PStackAssumption == /\ IsFiniteSet(PStackEntries) /\ FastData_Size \in Nat \ {0}
                           /\ Lengths \subseteq Nat /\ Layouts \subseteq [1 .. 5 -> 0 .. 2]
                           /\ PushLimit \in Nat

VARIABLES entries,    \* m_pauchData and m_nDataAlloc of each; means is what was pushed
          allocated,  \* m_listEntryAllocated
          reserve,    \* m_listEntryFree, and behind it the entries not made yet
          pushed

pstackVars == <<entries, allocated, reserve, pushed>>

-----------------------------------------------------------------------------
(* Codes.  value is what the enumerator passes on beside the type. *)
Assignments == {"AsnMultiply", "Assignment"}
FiveBlocks == {"Switch", "If", "Do", "While", "For", "Conditional"}
DataOps == {"Declaration", "Argument", "Statement", "Call", "Element", "Return"}
CaseOps == {"Case", "Default", "LogicalAND", "LogicalOR"}
WithBlocks == Assignments \cup FiveBlocks \cup DataOps \cup CaseOps

Place == [offset : Nat, size : Nat]   \* nDataOffset and nDataSize
Cell == [op : WithBlocks \cup {"Constant", "Variable", "Negate", "Add", "Line", "character"},
         type : {"int", "float", "string", "object", "unknown", "none"},
         value : Int, opSize : Nat \ {0}, more : Seq(Place)]

(* A code and what follows it; nOpSize is all of it. *)
Code(op, type, value, more, behind) ==
    <<[op |-> op, type |-> type, value |-> value, opSize |-> 1 + Len(behind), more |-> more]>> \o behind
Simple(op, type, value) == Code(op, type, value, <<>>, <<>>)

Character == [op |-> "character", type |-> "none", value |-> 0, opSize |-> 1, more |-> <<>>]
Text(length) == [n \in 1 .. length |-> Character]

Data(offset, data) == <<[offset |-> offset, size |-> Len(data)]>>

PushConstantInteger(nValue) == Simple("Constant", "int", nValue)
PushConstantText(type, nLength) == Code("Constant", type, nLength, <<>>, Text(nLength))
PushConstantObject(type) == Simple("Constant", type, 0)

PushSimpleOp(op, type) == Simple(op, type, 0)
PushBinaryOp(op, type) == Simple(op, type, 0)
PushVariable(flags) == Simple("Variable", "int", flags)
PushLine(nLine) == Simple("Line", "unknown", nLine)

PushDeclaration(nLength, init) ==
    Code("Declaration", "int", nLength, Data(1 + nLength, init), Text(nLength) \o init)
PushStatement(nLocals, data) == Code("Statement", "unknown", nLocals, Data(1, data), data)
PushArgument(data) == Code("Argument", "int", 0, Data(1, data), data)
PushCall(pure, data) == Code("Call", "int", pure, Data(1, data), data)
PushAssignment(op, data) == Code(op, "int", 0, Data(1, data), data)
PushElement(nElement, data) == Code("Element", "float", nElement, Data(1, data), data)
PushReturn(data) == Code("Return", "int", 0, Data(1, data), data)
PushCase(op, data) == Code(op, "unknown", 0, Data(1, data), data)

(* Faulty: the right side is looked for where the left side is. *)
PushLogicalOpBoth(op, lhs, rhs) ==
    Code(op, "int", 0, Data(1, lhs) \o Data(1, rhs), lhs \o rhs)

PushLogicalOp(op, lhs, rhs) ==
    Code(op, "int", 0, Data(1, lhs) \o Data(1 + Len(lhs), rhs), lhs \o rhs)

Push5Block(op, blocks) ==
    LET upTo[n \in 0 .. 5] == IF n = 0 THEN <<>> ELSE upTo[n - 1] \o blocks[n] IN
    Code(op, "unknown", 0, [n \in 1 .. 5 |-> [offset |-> 1 + Len(upTo[n - 1]), size |-> Len(blocks[n])]],
         upTo[5])

(* NscSimplifyConstant: a constant that is negated becomes another. *)
Negated(data) == Len(data) = 2 /\ data[1].op = "Constant" /\ data[1].type \in {"int", "float"}
                   /\ data[2].op = "Negate"
NscSimplifyConstant(data) ==
    IF Negated(data) THEN <<[data[1] EXCEPT !.value = -@]>> ELSE data

(* Faulty: looks at the first code only. *)
IsSimpleFirst(data, op) == data # <<>> /\ data[1].op = op

IsSimple(data, op) == data # <<>> /\ data[1].opSize = Len(data) /\ data[1].op = op
IsSimpleConstant(data) == IsSimple(data, "Constant")
IsSimpleVariable(data) == IsSimple(data, "Variable") /\ data[1].value = 0
IsAssignment(data) == \E op \in Assignments : IsSimple(data, op)

-----------------------------------------------------------------------------
(* CNscPCodeEnumerator: the entries it visits, with those of their blocks, *)
(* and whether the checker for side effects stops it. *)
Effect(op, value) == \/ op = "Call" /\ value = 0
                     \/ op \in Assignments
                     \/ op = "Variable" /\ value # 0

Nothing == [tree |-> <<>>, stops |-> FALSE]
Node(op, type, value, parts) ==
    [tree |-> <<[op |-> op, type |-> type, value |-> value,
                 blocks |-> [n \in DOMAIN parts |-> parts[n].tree]]>>,
     stops |-> Effect(op, value) \/ \E n \in DOMAIN parts : parts[n].stops]
Joined(m, n) == [tree |-> m.tree \o n.tree, stops |-> m.stops \/ n.stops]

(* The blocks ProcessPCodeBlockInternal goes into, by the kind of a code.  *)
Blocks(code) == IF code.op \in WithBlocks THEN code.more ELSE <<>>

Block(data, place) == SubSeq(data, place.offset + 1, place.offset + place.size)

(* The first code, then those of its blocks, then the rest. *)
Visit(visited, data) ==
    LET code == data[1] IN
    Joined(Node(code.op, code.type, code.value,
                [n \in DOMAIN Blocks(code) |-> visited[Block(data, Blocks(code)[n])]]),
           visited[SubSeq(data, code.opSize + 1, Len(data))])
Deeper(visited) == [data \in Seq(Cell) |-> IF data = <<>> THEN Nothing ELSE Visit(visited, data)]

(* The loop and the recursion shorten the data, so they are not deeper than *)
(* it is long. *)
ProcessPCodeBlock(data) ==
    LET visited[n \in 0 .. Len(data)] ==
          IF n = 0 THEN [none \in Seq(Cell) |-> Nothing] ELSE Deeper(visited[n - 1])
    IN visited[Len(data)][data]
GetHasSideEffects(data) == ProcessPCodeBlock(data).stops

-----------------------------------------------------------------------------
Fresh == [data |-> <<>>, alloc |-> FastData_Size, means |-> Nothing]

PStackInit ==
    /\ entries = [e \in PStackEntries |-> Fresh]
    /\ allocated = {} /\ pushed = 0
    /\ reserve \in {s \in [1 .. Cardinality(PStackEntries) -> PStackEntries] :
                       \A m, n \in DOMAIN s : s[m] = s[n] => m = n}

(* An entry from the list, with whatever memory it got before. *)
GetPStackEntry ==
    /\ reserve # <<>>
    /\ allocated' = allocated \cup {Head(reserve)} /\ reserve' = Tail(reserve)
    /\ entries' = [entries EXCEPT ![Head(reserve)] = [data |-> <<>>, alloc |-> @.alloc, means |-> Nothing]]
    /\ pushed' = pushed

FreePStackEntry(e) ==
    /\ e \in allocated
    /\ allocated' = allocated \ {e} /\ reserve' = <<e>> \o reserve
    /\ UNCHANGED <<entries, pushed>>

(* Twice as much until it is enough, so no more often than size. *)
MakeRoom(alloc, size) ==
    LET enough(room) == IF size > room THEN 2 * room ELSE room
        grown[n \in 0 .. size] == IF n = 0 THEN alloc ELSE enough(grown[n - 1])
    IN grown[size]

(* Pushes code behind what e has; meaning is what it stands for. *)
Push(e, code, meaning) ==
    /\ e \in allocated /\ pushed < PushLimit
    /\ entries' = [entries EXCEPT ![e] =
                      [data |-> @.data \o code, alloc |-> MakeRoom(@.alloc, Len(@.data) + Len(code)),
                       means |-> Joined(@.means, meaning)]]
    /\ pushed' = pushed + 1
    /\ UNCHANGED <<allocated, reserve>>

DataOf(e) == entries[e].data
MeaningOf(e) == entries[e].means
TreeOf(e) == MeaningOf(e).tree

(* The constant something means, if it means one. *)
Plain(m) == IF Len(m.tree) = 2 /\ m.tree[1].op = "Constant" /\ m.tree[2].op = "Negate"
                               /\ m.tree[1].type \in {"int", "float"}
            THEN Node("Constant", m.tree[1].type, -m.tree[1].value, <<>>) ELSE m

PushLeaf(e) ==
    \/ Push(e, PushConstantInteger(1), Node("Constant", "int", 1, <<>>))
    \/ \E n \in Lengths : Push(e, PushConstantText("string", n), Node("Constant", "string", n, <<>>))
    \/ Push(e, PushConstantObject("object"), Node("Constant", "object", 0, <<>>))
    \/ Push(e, PushSimpleOp("Negate", "int"), Node("Negate", "int", 0, <<>>))
    \/ Push(e, PushBinaryOp("Add", "int"), Node("Add", "int", 0, <<>>))
    \/ \E flags \in 0 .. 1 : Push(e, PushVariable(flags), Node("Variable", "int", flags, <<>>))
    \/ Push(e, PushLine(1), Node("Line", "unknown", 1, <<>>))

(* Around the code of another entry. *)
PushAround(e, data, m) ==
    \/ \E n \in Lengths : Push(e, PushDeclaration(n, NscSimplifyConstant(data)),
                                  Node("Declaration", "int", n, <<Plain(m)>>))
    \/ Push(e, PushStatement(2, data), Node("Statement", "unknown", 2, <<m>>))
    \/ Push(e, PushArgument(data), Node("Argument", "int", 0, <<m>>))
    \/ \E pure \in 0 .. 1 : Push(e, PushCall(pure, data), Node("Call", "int", pure, <<m>>))
    \/ \E op \in Assignments \cap Ops : Push(e, PushAssignment(op, data), Node(op, "int", 0, <<m>>))
    \/ Push(e, PushElement(1, data), Node("Element", "float", 1, <<m>>))
    \/ Push(e, PushReturn(data), Node("Return", "int", 0, <<m>>))
    \/ \E op \in {"Case", "Default"} \cap Ops :
         Push(e, PushCase(op, NscSimplifyConstant(data)), Node(op, "unknown", 0, <<Plain(m)>>))
    \/ Push(e, data, m)   \* AppendData

(* What a layout takes from two operands. *)
Laid(layout, none, first, second) ==
    [n \in 1 .. 5 |-> CASE layout[n] = 0 -> none [] layout[n] = 1 -> first [] OTHER -> second]

PushBetween(e, lhs, rhs, l, r) ==
    \/ \E op \in {"LogicalAND", "LogicalOR"} \cap Ops :
         Push(e, PushLogicalOp(op, lhs, rhs), Node(op, "int", 0, <<l, r>>))
    \/ \E op \in FiveBlocks \cap Ops, layout \in Layouts :
         Push(e, Push5Block(op, Laid(layout, <<>>, lhs, rhs)),
              Node(op, "unknown", 0, Laid(layout, Nothing, l, r)))

PStackNext ==
    \/ GetPStackEntry
    \/ \E e \in allocated :
         \/ FreePStackEntry(e)
         \/ PushLeaf(e)
         \/ \E o \in allocated \ {e} : PushAround(e, DataOf(o), MeaningOf(o))
         \/ \E l, r \in allocated \ {e} :
              PushBetween(e, DataOf(l), DataOf(r), MeaningOf(l), MeaningOf(r))

PStackSpec == PStackInit /\ [][PStackNext]_pstackVars

-----------------------------------------------------------------------------
(* The enumerator visits what was pushed: the same codes in the same order *)
(* and nesting, wherever blocks were copied and whatever follows them; so  *)
(* the test for side effects sees every one there is.  And all of it is    *)
(* within the memory the entry has (MakeRoom, NscPStackEntry.h:560). *)
VisitsWhatWasPushed ==
    \A e \in allocated : /\ Len(DataOf(e)) <= entries[e].alloc
                         /\ ProcessPCodeBlock(DataOf(e)).tree = TreeOf(e)
                         /\ GetHasSideEffects(DataOf(e)) = MeaningOf(e).stops

(* The parser knows a lone constant, variable or assignment by the size of *)
(* its first code: nothing else passes for one, a constant with an         *)
(* operator behind it the least.                                           *)
Lone(tree, ops) == Len(tree) = 1 /\ tree[1].op \in ops
SimplesRecognised ==
    \A e \in allocated :
      /\ IsSimpleConstant(DataOf(e)) <=> Lone(TreeOf(e), {"Constant"})
      /\ IsSimpleVariable(DataOf(e)) <=> Lone(TreeOf(e), {"Variable"}) /\ TreeOf(e)[1].value = 0
      /\ IsAssignment(DataOf(e)) <=> Lone(TreeOf(e), Assignments)
=============================================================================
