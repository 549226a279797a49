--------------------------- MODULE NscDebugSymbols ---------------------------
(***************************************************************************)
(* The local variables of the debug file: where each is on the stack, and  *)
(* from where to where in the code.  CodeRoutine, Declaration and          *)
(* Statement (CodeData) open and close them.                               *)
(*                                                                         *)
(* m_anVariables has offsets of symbols in m_sLocalSymbols, but they are   *)
(* taken relative to the symbols of the context and turned back the same   *)
(* way: they are pointers, and stay behind when m_sLocalSymbols grows.     *)
(***************************************************************************)
EXTENDS Integers, Sequences, SequencesExt

CONSTANTS Sizes,      \* of types, in cells: none, for an action
          Arguments,  \* sequences of sizes, as the arguments lie on the stack
          GrowSize,   \* of m_sLocalSymbols, in symbols
          CodeLimit   \* how long the code may get

ASSUME DebugAssumption == /\ Sizes \subseteq Nat /\ Arguments \subseteq Seq(Sizes)
                          /\ GrowSize \in Nat \ {0} /\ CodeLimit \in Nat

VARIABLES out,      \* m_pauchOut - m_pauchCode
          routine,  \* NoRoutine, or m_nReturnSize and m_nArgumentSize
          nSPDepth, \* m_nSPDepth
          scopes,   \* what it was where the statements began that are being coded
          local     \* m_sLocalSymbols and m_anVariables, see Empty

debugVars == <<out, routine, nSPDepth, scopes, local>>

-----------------------------------------------------------------------------
NoRoutine == [ret |-> -1, args |-> -1]
Unset == -1   \* 0xffffffff

(* A variable is a symbol and the buffer it was in when it was added; moved *)
(* says that one was open when the symbols went to another buffer.         *)
Empty == [symbols |-> <<>>, allocated |-> 0, buffer |-> 0, variables |-> <<>>, moved |-> FALSE]

MakeRoom(l) ==
    IF Len(l.symbols) < l.allocated THEN l
    ELSE [l EXCEPT !.allocated = @ + GrowSize, !.buffer = @ + 1,
                   !.moved = @ \/ l.variables # <<>>]

AddLocalVariable(l, nStackOffset, size, nCompiledStart) ==
    LET room == MakeRoom(l) IN
    [room EXCEPT !.symbols = Append(@, [offset |-> nStackOffset, size |-> size,
                                        start |-> nCompiledStart, end |-> Unset]),
                 !.variables = Append(@, [symbol |-> Len(room.symbols) + 1, buffer |-> room.buffer])]

(* Whether the variable behind a pointer is that deep: anything, where the *)
(* buffer is no longer there.                                              *)
(* Faulty: leaves the one that begins at the depth. *)
IsDeeper(l, variable, nDepth) ==
    IF variable.buffer # l.buffer THEN BOOLEAN ELSE {l.symbols[variable.symbol].offset > nDepth}

IsDeep(l, variable, nDepth) ==
    IF variable.buffer # l.buffer THEN BOOLEAN ELSE {l.symbols[variable.symbol].offset >= nDepth}

(* PurgeVariables ends those at the end that are deep; which these may be. *)
Kept(l, nDepth) ==
    {k \in 0 .. Len(l.variables) :
        /\ \A n \in k + 1 .. Len(l.variables) : TRUE \in IsDeep(l, l.variables[n], nDepth)
        /\ k > 0 => FALSE \in IsDeep(l, l.variables[k], nDepth)}

Ended(l, k) == {l.variables[n].symbol : n \in {m \in k + 1 .. Len(l.variables) :
                                                 l.variables[m].buffer = l.buffer}}

PurgeVariables(l, nDepth, at) ==
    {[l EXCEPT !.variables = SubSeq(@, 1, k),
               !.symbols = [n \in DOMAIN @ |-> IF n \in Ended(l, k) THEN [@[n] EXCEPT !.end = at]
                                                                   ELSE @[n]]] :
        k \in Kept(l, nDepth)}

-----------------------------------------------------------------------------
DebugInit ==
    /\ out = 0 /\ routine = NoRoutine /\ nSPDepth = 0 /\ scopes = <<>>
    /\ local = Empty

Total(sizes) ==
    LET total[n \in 0 .. Len(sizes)] == IF n = 0 THEN 0 ELSE total[n - 1] + sizes[n]
    IN total[Len(sizes)]

AddArgument(l, nOffset, size) ==
    [l |-> AddLocalVariable(l, nOffset, size, out), nOffset |-> nOffset + size]
AddArguments(l, nReturnSize, args) ==
    LET added[n \in 0 .. Len(args)] ==
          IF n = 0 THEN [l |-> l, nOffset |-> nReturnSize]
          ELSE AddArgument(added[n - 1].l, added[n - 1].nOffset, args[n])
    IN added[Len(args)].l

(* The value returned, if the routine is not void (which a structure of no *)
(* size is not), and the arguments above it. *)
BeginRoutine(nReturnSize, args) ==
    /\ routine = NoRoutine /\ out < CodeLimit
    /\ routine' = [ret |-> nReturnSize, args |-> Total(args)]
    /\ \E retval \in {AddLocalVariable(local, 0, nReturnSize, out)} \cup (IF nReturnSize = 0 THEN {local} ELSE {}) :
         local' = AddArguments(retval, nReturnSize, args)
    /\ nSPDepth' = Total(args)
    /\ UNCHANGED <<out, scopes>>

(* NscPCode_Declaration, which CodeDeclaration refuses for a type of no    *)
(* size; without an RSADD the variable starts with the code of its value.  *)
Declare(size) ==
    /\ scopes # <<>> /\ out < CodeLimit
    /\ out' = out + 1
    /\ \E nOffset \in {out, out + 1} :
         local' = AddLocalVariable(local, nSPDepth + routine.ret, size, nOffset)
    /\ nSPDepth' = nSPDepth + size
    /\ UNCHANGED <<routine, scopes>>

(* NscPCode_Statement: what it declared goes with it. *)
BeginStatement ==
    /\ routine # NoRoutine /\ out < CodeLimit
    /\ scopes' = Append(scopes, nSPDepth)
    /\ out' = out + 1
    /\ UNCHANGED <<routine, nSPDepth, local>>

EndStatement ==
    LET nLocals == nSPDepth - Last(scopes) IN
    /\ scopes # <<>>
    /\ scopes' = Front(scopes) /\ nSPDepth' = nSPDepth - nLocals
    /\ IF nLocals = 0 THEN UNCHANGED <<out, local>>
       ELSE /\ local' \in PurgeVariables(local, routine.ret + nSPDepth - nLocals, out)
            /\ out' = out + 1
    /\ UNCHANGED routine

(* The end of CodeRoutine: the arguments go, and then the value returned. *)
EndRoutine ==
    LET movsp == IF routine.args = 0 THEN 0 ELSE 1 IN
    /\ routine # NoRoutine /\ scopes = <<>>
    /\ \E l \in PurgeVariables(local, routine.ret, out) :
         local' \in PurgeVariables(l, 0, out + movsp)
    /\ out' = out + movsp + 1
    /\ routine' = NoRoutine /\ nSPDepth' = 0
    /\ UNCHANGED scopes

DebugNext ==
    \/ \E ret \in Sizes \cup {0}, args \in Arguments : BeginRoutine(ret, args)
    \/ \E size \in Sizes \ {0} : Declare(size)
    \/ BeginStatement \/ EndStatement \/ EndRoutine

DebugSpec == DebugInit /\ [][DebugNext]_debugVars

-----------------------------------------------------------------------------
Cells(n) == local.symbols[n].offset .. local.symbols[n].offset + local.symbols[n].size - 1
Open == {n \in DOMAIN local.symbols : local.symbols[n].end = Unset}
Frame == IF routine = NoRoutine THEN {} ELSE 0 .. routine.ret + nSPDepth - 1

(* At every place in the code, the variables the debug file has there are  *)
(* those that are on the stack: the open ones take up the frame of the     *)
(* routine, each its own cells, and none starts before those ended that    *)
(* had its cells (PurgeVariables stops at the first that is not deep).     *)
(* Only as long as the symbols never went to another buffer with some open.*)
VariablesDescribed ==
    local.moved \/
    /\ UNION {Cells(n) : n \in Open} = Frame
    /\ \A m, n \in DOMAIN local.symbols :
         m < n /\ Cells(m) \cap Cells(n) # {} => m \notin Open /\ local.symbols[m].end <= local.symbols[n].start
=============================================================================
