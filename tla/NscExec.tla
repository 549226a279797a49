------------------------------- MODULE NscExec -------------------------------
(***************************************************************************)
(* The virtual machine of the game runs the generated script.  It is not   *)
(* part of this repository: the effect of each instruction is the one      *)
(* CNscCodeGenerator counts on (the changes of m_nSPDepth and m_nExpDepth, *)
(* the operands CodeCP, CodeMOVSP and CodeSTORE_STATE compute), and the    *)
(* one the table of the decompiler lists.  One stack slot holds one int.   *)
(*                                                                         *)
(* Calls of engine functions are the only observable effects of a script:  *)
(* trace records them, with the value the engine chose to return.          *)
(***************************************************************************)
EXTENDS NscCodeGen

CONSTANTS MaxEvents,   \* bound on the events of a run
          Returns      \* what an engine function may return

VARIABLES status,   \* "off", "run", "halt", "cut" (MaxEvents met) or "fault"
          pc,       \* offset of the next instruction
          stack,    \* the values, the top of the stack last
          bp,       \* the base pointer: the stack depth at SAVEBP
          frames,   \* return addresses, the innermost call last
          trace     \* the events so far

execVars == <<status, pc, stack, bp, frames, trace>>

(* A frame: where RETN goes, the depth of the stack below the return slot, *)
(* the slots SAVEBP added, and whether the frame is a script situation.    *)
Frame(ret, base, situation) ==
    [ret |-> ret, base |-> base, saved |-> 0, situation |-> situation]

ExecInit ==
    /\ status = "off" /\ pc = HeaderSize
    /\ stack = <<>> /\ bp = 0 /\ frames = <<>> /\ trace = <<>>

HaltAddress == 0

(* The engine loads the script once it is written out. *)
Load ==
    /\ status = "off" /\ Generated
    /\ status' = "run"
    /\ frames' = <<Frame(HaltAddress, 0, FALSE)>>
    /\ UNCHANGED <<pc, stack, bp, trace>>

-----------------------------------------------------------------------------

I == code[pc]
This == frames[Len(frames)]
Top(n) == stack[Len(stack) - n + 1]
Dropped(n) == SubSeq(stack, 1, Len(stack) - n)
At(op) == status = "run" /\ pc \in DOMAIN code /\ I.op = op
NextPc == pc + InstrSize(I.op)
IsJump == pc \in DOMAIN jumps

(* The slots an instruction takes to be on the stack. *)
Needs ==
    CASE I.op \in {"MOVSP", "CPTOPSP", "CPDOWNSP", "INCISP"} -> I.a
      [] I.op = "ACTION" -> I.b[1]
      [] I.op = "STORE_STATE" -> I.b
      [] I.op \in {"EQUAL", "LOGAND", "LOGOR"} -> 2
      [] I.op \in {"JZ", "JNZ", "NOT", "RESTOREBP"} -> 1
      [] OTHER -> 0

(* What the machine cannot execute: an offset that is not an instruction,  *)
(* a jump whose operand was never written, a reference below the stack or  *)
(* outside the globals.                                                    *)
Illegal ==
    \/ pc \notin DOMAIN code
    \/ IsJump /\ disp[pc] = Unwritten
    \/ Needs > Len(stack) \/ Needs < 0
    \/ I.op \in {"CPTOPBP", "CPDOWNBP", "INCIBP"} /\ I.a \notin 1 .. bp
    \/ I.op = "STORE_STATE" /\ I.a > bp

Fault ==
    /\ status = "run" /\ Illegal
    /\ status' = "fault"
    /\ UNCHANGED <<pc, stack, bp, frames, trace>>

(* An instruction that only changes the stack. *)
Do(op, result) ==
    /\ At(op) /\ ~Illegal
    /\ stack' = result
    /\ pc' = NextPc
    /\ UNCHANGED <<status, bp, frames, trace>>

Bool(c) == IF c THEN 1 ELSE 0

ExecStack ==
    \/ Do("NOP", stack)
    \/ Do("CONST", Append(stack, I.a))
    \/ Do("RSADD", Append(stack, 0))
    \/ Do("MOVSP", Dropped(I.a))
    \/ Do("CPTOPSP", Append(stack, Top(I.a)))
    \/ Do("CPDOWNSP", [stack EXCEPT ![Len(stack) - I.a + 1] = Top(1)])
    \/ Do("CPTOPBP", Append(stack, stack[bp - I.a + 1]))
    \/ Do("CPDOWNBP", [stack EXCEPT ![bp - I.a + 1] = Top(1)])
    \/ Do("INCISP", [stack EXCEPT ![Len(stack) - I.a + 1] = @ + 1])
    \/ Do("INCIBP", [stack EXCEPT ![bp - I.a + 1] = @ + 1])
    \/ Do("NOT", Append(Dropped(1), Bool(Top(1) = 0)))
    \/ Do("EQUAL", Append(Dropped(2), Bool(Top(2) = Top(1))))
    \/ Do("LOGAND", Append(Dropped(2), Bool(Top(2) # 0 /\ Top(1) # 0)))
    \/ Do("LOGOR", Append(Dropped(2), Bool(Top(2) # 0 \/ Top(1) # 0)))

(* SAVEBP pushes the base pointer of the caller and starts a new one. *)
ExecSaveBP ==
    /\ At("SAVEBP") /\ ~Illegal
    /\ bp' = Len(stack)
    /\ stack' = Append(stack, bp)
    /\ frames' = [frames EXCEPT ![Len(frames)].saved = 1]
    /\ pc' = NextPc
    /\ UNCHANGED <<status, trace>>

ExecRestoreBP ==
    /\ At("RESTOREBP") /\ ~Illegal
    /\ bp' = Top(1)
    /\ stack' = Dropped(1)
    /\ frames' = [frames EXCEPT ![Len(frames)].saved = 0]
    /\ pc' = NextPc
    /\ UNCHANGED <<status, trace>>

JumpTo == pc + disp[pc]

ExecJump ==
    /\ At("JMP") /\ ~Illegal
    /\ pc' = JumpTo
    /\ UNCHANGED <<status, stack, bp, frames, trace>>

ExecBranch ==
    /\ At("JZ") \/ At("JNZ")
    /\ ~Illegal
    /\ pc' = IF (Top(1) = 0) = (I.op = "JZ") THEN JumpTo ELSE NextPc
    /\ stack' = Dropped(1)
    /\ UNCHANGED <<status, bp, frames, trace>>

(* The frame of the callee starts where its first instruction takes it to. *)
ExecCall ==
    /\ At("JSR") /\ ~Illegal
    /\ pc' = JumpTo
    /\ frames' = Append(frames, Frame(NextPc, Len(stack) - code[JumpTo].depth, FALSE))
    /\ UNCHANGED <<status, stack, bp, trace>>

ExecReturn ==
    /\ At("RETN") /\ ~Illegal
    /\ frames' = SubSeq(frames, 1, Len(frames) - 1)
    /\ pc' = This.ret
    /\ status' = IF This.ret = HaltAddress THEN "halt" ELSE status
    /\ UNCHANGED <<stack, bp, trace>>

Event(id, args, ret) == trace' = Append(trace, [id |-> id, args |-> args, ret |-> ret])

(* An engine function takes its arguments, the first on top, and returns. *)
ExecAction ==
    /\ At("ACTION") /\ ~Illegal
    /\ Len(trace) < MaxEvents
    /\ LET n == I.b[1]
           args == [i \in 1 .. n |-> Top(i)]
       IN \E v \in IF I.b[2] = 1 THEN Returns ELSE {0} :
            /\ Event(I.a, args, v)
            /\ stack' = IF I.b[2] = 1 THEN Append(Dropped(n), v) ELSE Dropped(n)
    /\ pc' = NextPc
    /\ UNCHANGED <<status, bp, frames>>

(* STORE_STATE: the engine saves the globals and the stack of the routine. *)
(* It goes on (0), or the run goes on as the situation it saved (1), which *)
(* starts behind the jump over it.                                         *)
ExecStoreState ==
    /\ At("STORE_STATE") /\ ~Illegal
    /\ Len(trace) < MaxEvents
    /\ \/ /\ Event("situation", <<>>, 0)
          /\ pc' = NextPc
          /\ UNCHANGED <<stack, bp, frames>>
       \/ /\ Event("situation", <<>>, 1)
          /\ pc' = NextPc + JumpSize
          /\ stack' = SubSeq(stack, bp - I.a + 1, bp)
                      \o SubSeq(stack, Len(stack) - I.b + 1, Len(stack))
          /\ bp' = I.a
          /\ frames' = <<Frame(HaltAddress, I.a, TRUE)>>
    /\ UNCHANGED status

(* The bound of the model: no more than MaxEvents events. *)
Cut ==
    /\ At("ACTION") \/ At("STORE_STATE")
    /\ ~Illegal /\ Len(trace) = MaxEvents
    /\ status' = "cut"
    /\ UNCHANGED <<pc, stack, bp, frames, trace>>

ExecNext ==
    \/ Load \/ Fault \/ Cut
    \/ ExecStack \/ ExecSaveBP \/ ExecRestoreBP
    \/ ExecJump \/ ExecBranch \/ ExecCall \/ ExecReturn
    \/ ExecAction \/ ExecStoreState
=============================================================================
