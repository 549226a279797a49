------------------------------ MODULE NscCompile ------------------------------
(***************************************************************************)
(* A script is compiled (NscCodeGen) and then run by the engine (NscExec); *)
(* the properties relate the code to what the generator believes about the *)
(* stack, and the run to what the script means (NscSource).                *)
(***************************************************************************)
EXTENDS NscExec

Source == INSTANCE NscSource
Gather == INSTANCE NscGather

vars == <<genVars, execVars>>

Init == GenInit /\ ExecInit

Next == \/ GenNext /\ UNCHANGED execVars
        \/ ExecNext /\ UNCHANGED genVars

Spec == Init /\ [][Next]_vars

-----------------------------------------------------------------------------

(* Wherever the engine gets to, by whatever branches, breaks, returns and  *)
(* calls, the stack is as deep as the generator believed when it computed  *)
(* the operands there (m_nSPDepth + m_nExpDepth): every variable is found  *)
(* where CodeCP looked for it.  A JMP is left out: what a break or a return *)
(* pops in front of it is not counted.                                     *)
DepthAgrees ==
    status = "run" /\ pc \in DOMAIN code /\ I.fn # "#loader" /\ I.op # "JMP" =>
        Len(stack) = This.base + I.depth + This.saved

RetSize(name) ==
    CASE name = "#loader" -> IF prog.isMain THEN 0 ELSE 1
      [] name = "#globals" -> 0
      [] OTHER -> LET i == CHOOSE k \in 1 .. Len(prog.routines) : prog.routines[k].name = name
                  IN prog.routines[i].ret

(* A routine pops its arguments and locals on every path to its RETN and   *)
(* leaves its return value: the caller's stack is as it was.               *)
ReturnsBalanced ==
    At("RETN") /\ ~This.situation => Len(stack) = This.base + RetSize(I.fn)

(* The routines #globals called that have not returned. *)
Callers == {frames[i].ret - JumpSize : i \in {k \in 1 .. Len(frames) : frames[k].ret # HaltAddress}}
CalledAtGlobalScope == {jumps[s] : s \in {c \in Callers : code[c].fn = "#globals"}}

(* The engine never meets an instruction it cannot execute unless the      *)
(* compiler warned of the very call it is in: a function that uses globals *)
(* and is called before the base pointer is set, by whatever functions in  *)
(* between, or a situation stored at global scope.                         *)
NoIllegalReference ==
    status = "fault" =>
      \/ \E f \in CalledAtGlobalScope : <<"WarningBPFuncCalledBeforeBPSet", f>> \in messages
      \/ /\ pc \in DOMAIN code /\ I.op = "STORE_STATE" /\ I.fn = "#globals"
         /\ <<"WarningStoreStateAtGlobalScope">> \in messages

(* The calls of the engine, their order and their arguments are those of   *)
(* the source, for every answer of the engine, with and without            *)
(* optimisations.  The code halts where the source has come to its end     *)
(* with the answers the engine gave, and nowhere before: when it is cut    *)
(* off at MaxEvents the source has more to ask.  StartingConditional       *)
(* returns the value of the source.                                        *)
Answers == [i \in 1 .. Len(trace) |-> trace[i].ret]

SameCalls ==
    status \in {"halt", "cut"} =>
      LET run == Source!Run(prog.script, Answers)
      IN /\ run.trace = trace
         /\ status = "halt" => run.go # "stop"
         /\ status = "cut" => run.go = "stop"
         /\ status = "halt" /\ run.go = "on" /\ ~prog.isMain => stack = <<run.val>>
=============================================================================
