----------------------------- MODULE NscCodeGen -----------------------------
(***************************************************************************)
(* CNscCodeGenerator: from the PCode of the functions of a script to NCS   *)
(* instructions (NscCodeGenerator.cpp, GenerateOutput and below).          *)
(*                                                                         *)
(* The source is a recursive descent, CodeData, over PCode trees.  Its     *)
(* call stack is the sequence work here: coding an operation replaces it   *)
(* by what CodeData does for it, in order, and each item that emits an     *)
(* instruction or touches a label is one step.  A block of PCode is a      *)
(* sequence of nodes, the records the expansions below take apart.         *)
(*                                                                         *)
(* Left out: line tables and debug symbols, the values of constants that   *)
(* are not integers, intrinsics, structures, functions the compiler makes  *)
(* up (fDefaultFunction) and the growth of the buffer.                     *)
(***************************************************************************)
EXTENDS NscLinker, Sequences, FiniteSets

CONSTANTS Programs    \* the translated scripts, records as below

(* A program is a record                                                   *)
(*   isMain    whether the entry symbol is main or StartingConditional     *)
(*   globals   the globals that get a stack slot, records [sym, init, ...]  *)
(*   create    fCreateGlobal: whether there is a #globals routine          *)
(*   constants the initialisers of the globals treated as constants        *)
(*   entry     the name of the entry symbol                                *)
(*   routines  m_anFunctions: records [name, ret, args, defined, body]     *)
(*   usesGlobals  the functions flagged NscFuncFlag_UsesGlobalVars         *)
(*   defaults  callee -> the arguments of its prototype                    *)
(*   opt       fEnableOptimizations;  optDecl  m_fOptDeclaration           *)
(*   v130      m_nVersion >= 130                                           *)

VARIABLES prog,       \* the program being compiled
          code,       \* m_pauchCode but for the operands of jumps
          work,       \* what is left to do, the innermost call first
          nextLabel,  \* m_nNextLabel
          depth,      \* m_nSPDepth, m_nExpDepth, m_nBPDepth
          fn,         \* the routine being coded and m_fGlobalScope
          brk,        \* m_pszBreakLabel with m_nBreakBlockDepth
          cont,       \* m_pszContinueLabel with m_nContinueBlockDepth
          default,    \* m_pszDefaultLabel
          cases,      \* NscPCodeCase::szLabel, by case statement
          messages    \* what GenerateMessage was called with, and of what

ctxVars == <<fn, brk, cont, default, cases, messages>>
genVars == <<linkerVars, prog, code, work, nextLabel, depth, ctxVars>>

Off(n) == <<"off", n>>           \* the label "off_%08X"
Fn(name) == <<"fn", name>>       \* the label of a routine
NoLabel == <<"null">>

InstrSize(op) ==
    CASE op \in {"CPTOPSP", "CPDOWNSP", "CPTOPBP", "CPDOWNBP"} -> 8
      [] op \in {"CONST", "MOVSP", "INCISP", "INCIBP"} -> 6
      [] op \in {"JMP", "JZ", "JNZ", "JSR"} -> JumpSize
      [] op = "STORE_STATE" -> 10
      [] op = "ACTION" -> 5
      [] OTHER -> 2

(* The instruction written at out, with the routine it belongs to and the  *)
(* stack depth the generator believes in, counted from the return slot.    *)
Instr(op, a, b) ==
    [op |-> op, a |-> a, b |-> b, fn |-> fn.name,
     depth |-> fn.ret + depth.sp + depth.exp]

WriteInstr(op, a, b) ==
    code' = [s \in DOMAIN code \cup {out} |->
               IF s = out THEN Instr(op, a, b) ELSE code[s]]

-----------------------------------------------------------------------------
(* The items of work. *)

Code(n) == [do |-> "code", pc |-> n]
Data(block) == [i \in 1 .. Len(block) |-> Code(block[i])]
Scan(block) == [i \in 1 .. Len(block) |-> [do |-> "scan", pc |-> block[i]]]
(* An instruction that adds dSP to m_nSPDepth and dExp to m_nExpDepth. *)
Ins(op, a, b, dSP, dExp) ==
    <<[do |-> "ins", op |-> op, a |-> a, b |-> b, dSP |-> dSP, dExp |-> dExp]>>
MOVSP(n, dSP, dExp) == IF n = 0 THEN <<>> ELSE Ins("MOVSP", n, 0, dSP, dExp)
Jump(op, l, dExp) == <<[do |-> "jump", op |-> op, label |-> l, dExp |-> dExp]>>
JMP(l) == Jump("JMP", l, 0)
JZ(l) == Jump("JZ", l, -1)
JNZ(l) == Jump("JNZ", l, -1)
Resolve(l) == <<[do |-> "resolve", label |-> l]>>
Define(l) == <<[do |-> "define", label |-> l]>>
Adjust(dSP, dExp, dBP) ==
    <<[do |-> "adjust", dSP |-> dSP, dExp |-> dExp, dBP |-> dBP]>>
RestoreLabels == <<[do |-> "restore", brk |-> brk, cont |-> cont]>>
AssertNoExp == <<[do |-> "assert"]>>
DropExp == <<[do |-> "drop"]>>
When(c, items) == IF c THEN items ELSE <<>>
Report(message) == messages' = messages \cup {message}

Head1 == work[1]
Doing(kind) == work # <<>> /\ Head1.do = kind
Coding(op) == Doing("code") /\ Head1.pc.op = op
Node == Head1.pc

Then(items) == work' = items \o Tail(work)

(* Steps that only take an operation apart, with k labels made first. *)
L(k) == Off(nextLabel + k - 1)
TakeApart(k, items) ==
    /\ ForwardLabels({L(i) : i \in 1 .. k})
    /\ nextLabel' = nextLabel + k
    /\ Then(items)
    /\ UNCHANGED <<prog, code>>

IsSimpleConstant(block) == Len(block) = 1 /\ block[1].op = "Const"
(* The value of a condition known at compile time, -1 if there is none. *)
CondValue(block) ==
    IF prog.opt /\ IsSimpleConstant(block)
    THEN IF block[1].v # 0 THEN 1 ELSE 0
    ELSE -1

-----------------------------------------------------------------------------
(* Items that emit an instruction, place a label or set a register. *)

EmitIns ==
    /\ Doing("ins")
    /\ WriteInstr(Head1.op, Head1.a, Head1.b)
    /\ Emit(InstrSize(Head1.op))
    /\ depth' = [sp |-> depth.sp + Head1.dSP, exp |-> depth.exp + Head1.dExp, bp |-> depth.bp]
    /\ Then(<<>>)
    /\ UNCHANGED <<prog, nextLabel, ctxVars>>

(* CodeJMP, CodeJZ, CodeJNZ, CodeJSR. *)
EmitJump ==
    /\ Doing("jump")
    /\ WriteInstr(Head1.op, 0, 0)
    /\ ReferenceLabel(Head1.label)
    /\ depth' = [sp |-> depth.sp, exp |-> depth.exp + Head1.dExp, bp |-> depth.bp]
    /\ Then(<<>>)
    /\ UNCHANGED <<prog, nextLabel, ctxVars>>

ResolveLabel ==
    /\ Doing("resolve")
    /\ ForwardResolve(Head1.label)
    /\ Then(<<>>)
    /\ UNCHANGED <<prog, code, nextLabel, depth, ctxVars>>

DefineRoutineLabel ==
    /\ Doing("define")
    /\ DefineLabel(Head1.label)
    /\ fn' = IF Head1.label = Fn("#globals")
             THEN [fn EXCEPT !.name = "#globals", !.global = TRUE] ELSE fn
    /\ Then(<<>>)
    /\ UNCHANGED <<prog, code, nextLabel, depth, brk, cont, default, cases, messages>>

AdjustDepth ==
    /\ Doing("adjust")
    /\ depth' = [sp |-> depth.sp + Head1.dSP, exp |-> depth.exp + Head1.dExp,
                 bp |-> depth.bp + Head1.dBP]
    /\ Then(<<>>)
    /\ UNCHANGED <<linkerVars, prog, code, nextLabel, ctxVars>>

(* The end of an optimised declaration: what the initialiser left on the   *)
(* expression stack becomes the variable.                                  *)
AdoptInit ==
    /\ Doing("adopt")
    /\ depth' = [sp |-> depth.sp + depth.exp - Head1.exp, exp |-> Head1.exp, bp |-> depth.bp]
    /\ Then(<<>>)
    /\ UNCHANGED <<linkerVars, prog, code, nextLabel, ctxVars>>

Restore ==
    /\ Doing("restore")
    /\ brk' = Head1.brk /\ cont' = Head1.cont
    /\ Then(<<>>)
    /\ UNCHANGED <<linkerVars, prog, code, nextLabel, depth, fn, default, cases, messages>>

(* Places where the source asserts m_nExpDepth == 0. *)
PassAssert ==
    /\ Doing("assert")
    /\ Then(<<>>)
    /\ UNCHANGED <<linkerVars, prog, code, nextLabel, depth, ctxVars>>

(* Faulty: the depth still counts what was dropped. *)
DropExpressionUncounted ==
    /\ Doing("drop")
    /\ Then(MOVSP(depth.exp, 0, 0))
    /\ UNCHANGED <<linkerVars, prog, code, nextLabel, depth, ctxVars>>

(* for drops the value of its first and third expressions. *)
DropExpression ==
    /\ Doing("drop")
    /\ Then(MOVSP(depth.exp, 0, -depth.exp))
    /\ UNCHANGED <<linkerVars, prog, code, nextLabel, depth, ctxVars>>

-----------------------------------------------------------------------------
(* Expressions. *)

CodeConst ==
    /\ Coding("Const")
    /\ TakeApart(0, Ins("CONST", Node.v, 0, 0, 1))
    /\ UNCHANGED <<depth, ctxVars>>

(* The stack offset of a global: m_nBPDepth when #globals reached it. *)
GlobalOffset(sym) ==
    (CHOOSE i \in 1 .. Len(prog.globals) : prog.globals[i].sym = sym) - 1

(* The operand CodeCP computes for a variable, and the instructions it picks. *)
BySP(global) == ~global \/ fn.global
VarOffset(n) ==
    IF ~n.global THEN depth.sp + depth.exp - n.off
    ELSE depth.bp - GlobalOffset(n.sym) + IF fn.global THEN depth.exp ELSE 0
Pick(global, spOp, bpOp) == IF BySP(global) THEN spOp ELSE bpOp

(* A global treated as a constant is replaced by its initialiser. *)
CodeConstantVariable ==
    /\ Coding("Var") /\ Node.global /\ Node.sym \in DOMAIN prog.constants
    /\ TakeApart(0, Data(prog.constants[Node.sym]))
    /\ UNCHANGED <<depth, ctxVars>>

CodeVariable ==
    /\ Coding("Var")
    /\ ~(Node.global /\ Node.sym \in DOMAIN prog.constants)
    /\ LET at == VarOffset(Node)
           inc(d) == Ins(Pick(Node.global, "INCISP", "INCIBP"), at + d, 0, 0, 0)
       IN TakeApart(0,
            When(Node.inc = "pre", inc(0))
            \o Ins(Pick(Node.global, "CPTOPSP", "CPTOPBP"), at, 1, 0, 1)
            \o When(Node.inc = "post", inc(IF BySP(Node.global) THEN 1 ELSE 0)))
    /\ UNCHANGED <<depth, ctxVars>>

CodeAssignment ==
    /\ Coding("Asn")
    /\ TakeApart(0, Data(Node.rhs)
                    \o <<Code([op |-> "Store", sym |-> Node.sym, off |-> Node.off,
                              global |-> Node.global])>>)
    /\ UNCHANGED <<depth, ctxVars>>

(* The copy at the end of an assignment. *)
CodeStore ==
    /\ Coding("Store")
    /\ TakeApart(0, Ins(Pick(Node.global, "CPDOWNSP", "CPDOWNBP"),
                        VarOffset(Node), 1, 0, 0))
    /\ UNCHANGED <<depth, ctxVars>>

(* Operators whose operands come before them in the block. *)
CodeOperator ==
    /\ Coding("Operator")
    /\ TakeApart(0, Ins(Node.code, 0, 0, 0, 1 - Node.operands))
    /\ UNCHANGED <<depth, ctxVars>>

CodeLogicalAND ==
    /\ Coding("And")
    /\ TakeApart(1, Data(Node.lhs) \o Ins("CPTOPSP", 1, 1, 0, 1) \o JZ(L(1))
                    \o Data(Node.rhs) \o Ins("LOGAND", 0, 0, 0, -1) \o Resolve(L(1)))
    /\ UNCHANGED <<depth, ctxVars>>

(* Without optimisations the shape of the stock compiler is kept, up to its *)
(* bug before version 130: the second JZ tests a value known not to be 0.   *)
CodeLogicalOR ==
    /\ Coding("Or")
    /\ IF prog.opt
       THEN TakeApart(1, Data(Node.lhs) \o Ins("CPTOPSP", 1, 1, 0, 1) \o JNZ(L(1))
                         \o Data(Node.rhs) \o Ins("LOGOR", 0, 0, 0, -1) \o Resolve(L(1)))
       ELSE TakeApart(2, Data(Node.lhs) \o Ins("CPTOPSP", 1, 1, 0, 1) \o JZ(L(2))
                         \o Ins("CPTOPSP", 1, 1, 0, 1)
                         \o (IF prog.v130 THEN JMP(L(1)) \o Adjust(0, -1, 0) ELSE JZ(L(1)))
                         \o Resolve(L(2)) \o Data(Node.rhs) \o Resolve(L(1))
                         \o Ins("LOGOR", 0, 0, 0, -1))
    /\ UNCHANGED <<depth, ctxVars>>

CodeConditional ==
    /\ Coding("Cond")
    /\ CASE CondValue(Node.cond) = 1 -> TakeApart(0, Data(Node.then))
         [] CondValue(Node.cond) = 0 -> TakeApart(0, Data(Node.els))
         [] OTHER ->
              TakeApart(2, Data(Node.cond) \o JZ(L(2))
                           \o Data(Node.then) \o Adjust(0, -1, 0) \o JMP(L(1))
                           \o Resolve(L(2)) \o Data(Node.els) \o Resolve(L(1)))
    /\ UNCHANGED <<depth, ctxVars>>

(* An argument: a script situation is coded out of line. *)
Argument(arg) ==
    IF arg.action THEN <<Code([op |-> "Situation", data |-> arg.data])>>
    ELSE Data(arg.data)

(* The arguments of a call, the missing ones from the prototype. *)
Arguments(n, p) ==
    LET proto == p.defaults[n.fn]
    IN  [i \in 1 .. Len(proto) |-> IF i <= Len(n.args) THEN n.args[i] ELSE proto[i]]

ArgumentSize(args) == Cardinality({i \in 1 .. Len(args) : ~args[i].action})

(* Arguments are coded from the last to the first. *)
Args(args) == <<Code([op |-> "Args", args |-> args])>>

CodeArguments ==
    /\ Coding("Args")
    /\ LET n == Len(Node.args)
       IN TakeApart(0, IF n = 0 THEN <<>>
                       ELSE Argument(Node.args[n]) \o Args(SubSeq(Node.args, 1, n - 1)))
    /\ UNCHANGED <<depth, ctxVars>>

CodeCall ==
    /\ Coding("Call")
    /\ LET args == Arguments(Node, prog)
           size == ArgumentSize(args)
       IN IF Node.engine
          THEN TakeApart(0, Args(args)
                            \o <<Code([op |-> "Action", fn |-> Node.fn, args |-> size,
                                       ret |-> Node.ret])>>)
          ELSE TakeApart(0, When(Node.ret = 1, Ins("RSADD", 0, 0, 0, 1))
                            \o Args(args) \o <<Code([op |-> "Jsr", fn |-> Node.fn, size |-> size])>>)
    /\ UNCHANGED <<depth, ctxVars>>

(* At global scope the base pointer is not set yet. *)
CodeJsr ==
    /\ Coding("Jsr")
    /\ TakeApart(0, Jump("JSR", Fn(Node.fn), -Node.size))
    /\ IF fn.global /\ Node.fn \in prog.usesGlobals
       THEN Report(<<"WarningBPFuncCalledBeforeBPSet", Fn(Node.fn)>>) ELSE UNCHANGED messages
    /\ UNCHANGED <<depth, fn, brk, cont, default, cases>>

(* ACTION names the engine function; b packs its argument size and result. *)
CodeACTION ==
    /\ Coding("Action")
    /\ TakeApart(0, Ins("ACTION", Node.fn, <<Node.args, Node.ret>>,
                        0, Node.ret - Node.args))
    /\ UNCHANGED <<depth, ctxVars>>

(* STORE_STATE saves the globals and the stack of the routine, then the    *)
(* code of the situation is skipped.                                       *)
CodeSituation ==
    /\ Coding("Situation")
    /\ TakeApart(1, Ins("STORE_STATE", depth.bp, fn.ret + depth.sp + depth.exp, 0, 0)
                    \o JMP(L(1)) \o Data(Node.data) \o Ins("RETN", 0, 0, 0, 0)
                    \o Resolve(L(1)) \o Adjust(-depth.exp, depth.exp, 0))
    /\ depth' = [sp |-> depth.sp + depth.exp, exp |-> 0, bp |-> depth.bp]
    /\ IF fn.global THEN Report(<<"WarningStoreStateAtGlobalScope">>) ELSE UNCHANGED messages
    /\ UNCHANGED <<fn, brk, cont, default, cases>>

CodeExpressionEnd ==
    /\ Coding("End")
    /\ TakeApart(0, MOVSP(Node.size, 0, -Node.size) \o AssertNoExp)
    /\ UNCHANGED <<depth, ctxVars>>

-----------------------------------------------------------------------------
(* Statements. *)

(* CodeDeclaration with the stack counter of a local variable. *)
Declaration(n) ==
    IF n.init # <<>> /\ prog.optDecl /\ ~n.selfRef
    THEN Data(n.init) \o <<[do |-> "adopt", exp |-> depth.exp]>>
    ELSE Ins("RSADD", 0, 0, 1, 0)
         \o When(n.init # <<>>,
                 Data(n.init) \o Ins("CPDOWNSP", 2, 1, 0, 0) \o MOVSP(1, 0, -1))

CodeDeclaration ==
    /\ Coding("Decl")
    /\ TakeApart(0, Declaration(Node))
    /\ UNCHANGED <<depth, ctxVars>>

CodeStatement ==
    /\ Coding("Stmt")
    /\ TakeApart(0, AssertNoExp \o Data(Node.data)
                    \o MOVSP(Node.locals, -Node.locals, 0) \o AssertNoExp)
    /\ UNCHANGED <<depth, ctxVars>>

(* break and continue drop what the block has on the stack above the depth *)
(* of their target, unless the bug of the stock compiler is kept.          *)
NoBugBreakContinue == prog.opt \/ prog.v130

LeaveToKeepsLocals(target) == JMP(target.label)   \* faulty: pops nothing

LeaveTo(target) ==
    When(NoBugBreakContinue /\ target.depth < depth.sp,
         MOVSP(depth.sp - target.depth, 0, 0))
    \o JMP(target.label)

CodeBreak ==
    /\ Coding("Break")
    /\ TakeApart(0, LeaveTo(brk))
    /\ UNCHANGED <<depth, ctxVars>>

CodeContinue ==
    /\ Coding("Continue")
    /\ TakeApart(0, LeaveTo(cont))
    /\ UNCHANGED <<depth, ctxVars>>

CodeReturn ==
    /\ Coding("Return")
    /\ TakeApart(0, IF Node.data = <<>> THEN <<Code([op |-> "Leave"])>>
                    ELSE Data(Node.data) \o <<Code([op |-> "SetReturn"]), Code([op |-> "Leave"])>>)
    /\ UNCHANGED <<depth, ctxVars>>

(* The copy of the value into the return slot, below the arguments. *)
CodeSetReturn ==
    /\ Coding("SetReturn")
    /\ TakeApart(0, Ins("CPDOWNSP", fn.ret + depth.sp + depth.exp, fn.ret, 0, 0))
    /\ UNCHANGED <<depth, ctxVars>>

CodeLeave ==
    /\ Coding("Leave")
    /\ TakeApart(0, MOVSP(depth.sp + depth.exp - fn.args, 0, 0)
                    \o When(prog.opt, Adjust(0, -fn.ret, 0)) \o JMP(fn.return))
    /\ UNCHANGED <<depth, ctxVars>>

(* Version 130 has a NOP in front of an else, of an empty one too. *)
CodeIf ==
    /\ Coding("If")
    /\ CASE CondValue(Node.cond) = 1 -> TakeApart(0, Data(Node.then))
         [] CondValue(Node.cond) = 0 -> TakeApart(0, Data(Node.els))
         [] CondValue(Node.cond) = -1 /\ Node.els = <<>> /\ prog.opt ->
              TakeApart(1, Data(Node.cond) \o JZ(L(1)) \o Data(Node.then) \o Resolve(L(1)))
         [] OTHER ->
              TakeApart(2, Data(Node.cond) \o JZ(L(2)) \o Data(Node.then) \o JMP(L(1))
                           \o Resolve(L(2))
                           \o When(prog.v130 /\ (Node.els # <<>> \/ Node.hasElse),
                                   Ins("NOP", 0, 0, 0, 0))
                           \o Data(Node.els) \o Resolve(L(1)))
    /\ UNCHANGED <<depth, ctxVars>>

(* Loops take their labels and remember the block depth for break and continue. *)
EnterLoop(breakLabel, continueLabel) ==
    /\ brk' = [label |-> breakLabel, depth |-> depth.sp]
    /\ cont' = [label |-> continueLabel, depth |-> depth.sp]
    /\ UNCHANGED <<depth, fn, default, cases, messages>>

(* Labels: start, end, test. *)
DoTest(n) ==
    CASE CondValue(n.cond) = 1 -> JMP(L(1))
      [] CondValue(n.cond) = 0 -> <<>>
      [] OTHER -> Resolve(L(3)) \o Data(n.cond)
                  \o (IF prog.opt THEN JNZ(L(1)) ELSE JZ(L(2)) \o JMP(L(1)))

CodeDo ==
    /\ Coding("Do")
    /\ TakeApart(3, Resolve(L(1)) \o Data(Node.body) \o DoTest(Node)
                    \o Resolve(L(2)) \o RestoreLabels)
    /\ EnterLoop(L(2), L(3))

(* Labels: test, end, continue. *)
CodeWhile ==
    /\ Coding("While")
    /\ IF CondValue(Node.cond) = 0
       THEN TakeApart(0, <<>>) /\ UNCHANGED <<depth, ctxVars>>
       ELSE /\ TakeApart(3,
                 Resolve(L(1)) \o When(prog.opt, Resolve(L(3)))
                 \o When(CondValue(Node.cond) = -1, Data(Node.cond) \o JZ(L(2)))
                 \o Data(Node.body) \o When(~prog.opt, Resolve(L(3)))
                 \o JMP(L(1)) \o Resolve(L(2)) \o RestoreLabels)
            /\ EnterLoop(L(2), L(3))

(* Labels: test, end, increment. *)
ForTest(n) ==
    CASE n.cond = <<>> -> When(~prog.opt, Ins("CONST", 1, 0, 0, 1) \o JZ(L(2)))
      [] CondValue(n.cond) = -1 /\ n.cond # <<>> -> Data(n.cond) \o JZ(L(2))
      [] OTHER -> <<>>

CodeFor ==
    /\ Coding("For")
    /\ LET runs == CondValue(Node.cond) # 0
       IN TakeApart(3, AssertNoExp \o Data(Node.init) \o DropExp
                       \o Resolve(L(1)) \o ForTest(Node) \o When(runs, Data(Node.body))
                       \o Resolve(L(3))
                       \o When(runs, AssertNoExp \o Data(Node.inc) \o DropExp \o JMP(L(1)))
                       \o Resolve(L(2)) \o RestoreLabels)
    /\ EnterLoop(L(2), L(3))

(* The value stays on the stack while the body runs; label: end. *)
CodeSwitch ==
    /\ Coding("Switch")
    /\ TakeApart(1, Data(Node.cond) \o Scan(Node.body)
                    \o <<[do |-> "jmpdefault", end |-> L(1)]>> \o Adjust(1, -1, 0)
                    \o Data(Node.body) \o Resolve(L(1)) \o MOVSP(1, -1, 0) \o RestoreLabels)
    /\ brk' = [label |-> L(1), depth |-> depth.sp + 1]
    /\ default' = NoLabel
    /\ UNCHANGED <<depth, fn, cont, cases, messages>>

(* Faulty: the default label is not taken. *)
JumpToEnd ==
    /\ Doing("jmpdefault")
    /\ TakeApart(0, JMP(Head1.end))
    /\ UNCHANGED <<depth, ctxVars>>

JumpToDefault ==
    /\ Doing("jmpdefault")
    /\ TakeApart(0, JMP(IF default # NoLabel THEN default ELSE Head1.end))
    /\ UNCHANGED <<depth, ctxVars>>

SetCase(id, l) ==
    cases' = [c \in DOMAIN cases \cup {id} |-> IF c = id THEN l ELSE cases[c]]

(* CodeScanCase: the comparisons of the case labels; it looks into nested  *)
(* compound statements only.                                               *)
ScanStatement ==
    /\ Doing("scan") /\ Node.op = "Stmt"
    /\ TakeApart(0, Scan(Node.data))
    /\ UNCHANGED <<depth, ctxVars>>

ScanCase ==
    /\ Doing("scan") /\ Node.op = "Case"
    /\ TakeApart(1, Ins("CPTOPSP", 1, 1, 0, 1) \o Data(Node.value)
                    \o Ins("EQUAL", 0, 0, 0, -1) \o JNZ(L(1)))
    /\ SetCase(Node.id, L(1))
    /\ UNCHANGED <<depth, fn, brk, cont, default, messages>>

ScanDefault ==
    /\ Doing("scan") /\ Node.op = "Default"
    /\ TakeApart(1, <<>>)
    /\ SetCase(Node.id, L(1))
    /\ default' = L(1)
    /\ UNCHANGED <<depth, fn, brk, cont, messages>>

ScanOther ==
    /\ Doing("scan") /\ Node.op \notin {"Stmt", "Case", "Default"}
    /\ TakeApart(0, <<>>)
    /\ UNCHANGED <<depth, ctxVars>>

(* Faulty: the default label is not placed. *)
CodeCaseOnly ==
    /\ Doing("code") /\ Node.op \in {"Case", "Default"}
    /\ TakeApart(0, When(Node.op = "Case" /\ Node.id \in DOMAIN cases, Resolve(cases[Node.id])))
    /\ UNCHANGED <<depth, ctxVars>>

CodeCase ==
    /\ Doing("code") /\ Node.op \in {"Case", "Default"}
    /\ TakeApart(0, When(Node.id \in DOMAIN cases, Resolve(cases[Node.id])))
    /\ UNCHANGED <<depth, ctxVars>>

-----------------------------------------------------------------------------
(* Routines. *)

(* CodeRoutine; a function without a body is an error. *)
CodeRoutine ==
    /\ Doing("routine")
    /\ IF Head1.r.defined
       THEN Then(Define(Fn(Head1.r.name)) \o <<[do |-> "begin", r |-> Head1.r]>>)
            /\ UNCHANGED messages
       ELSE Then(<<>>) /\ Report(<<"ErrorFunctionBodyMissing", Fn(Head1.r.name)>>)
    /\ UNCHANGED <<linkerVars, prog, code, nextLabel, depth, fn, brk, cont, default, cases>>

(* Faulty: the arguments stay on the stack. *)
BeginRoutineKeepsArguments ==
    /\ Doing("begin")
    /\ LET r == Head1.r
       IN /\ fn' = [name |-> r.name, ret |-> r.ret, args |-> r.args,
                    return |-> L(1), global |-> FALSE]
          /\ depth' = [sp |-> r.args, exp |-> 0, bp |-> depth.bp]
          /\ brk' = [brk EXCEPT !.depth = r.args]
          /\ cont' = [cont EXCEPT !.depth = r.args]
          /\ TakeApart(1, Data(r.body) \o Resolve(L(1)) \o Ins("RETN", 0, 0, 0, 0))
    /\ UNCHANGED <<default, cases, messages>>

BeginRoutine ==
    /\ Doing("begin")
    /\ LET r == Head1.r
       IN /\ fn' = [name |-> r.name, ret |-> r.ret, args |-> r.args,
                    return |-> L(1), global |-> FALSE]
          /\ depth' = [sp |-> r.args, exp |-> 0, bp |-> depth.bp]
          /\ brk' = [brk EXCEPT !.depth = r.args]
          /\ cont' = [cont EXCEPT !.depth = r.args]
          /\ TakeApart(1, Data(r.body) \o Resolve(L(1)) \o MOVSP(r.args, -r.args, 0)
                          \o Ins("RETN", 0, 0, 0, 0))
    /\ UNCHANGED <<default, cases, messages>>

(* A global variable with its initialiser, in #globals.  m_nBPDepth counts *)
(* it after an optimised declaration and before any other.                 *)
CodeGlobal ==
    /\ Doing("global")
    /\ LET n == Head1.pc
           post == n.init # <<>> /\ prog.optDecl /\ ~n.selfRef
       IN TakeApart(0, AssertNoExp \o When(~post, Adjust(0, 0, 1))
                       \o <<Code([op |-> "Decl", init |-> n.init, selfRef |-> n.selfRef])>>
                       \o When(post, Adjust(0, 0, 1)) \o AssertNoExp)
    /\ UNCHANGED <<depth, ctxVars>>

(* The end of #globals: set the base pointer, run the entry symbol, hand   *)
(* its result down to the loader and drop the globals.                     *)
CodeCallEntry ==
    /\ Doing("callentry")
    /\ TakeApart(0, Ins("SAVEBP", 0, 0, 0, 0)
                    \o When(~prog.isMain, Ins("RSADD", 0, 0, 0, 1))
                    \o Jump("JSR", Fn(prog.entry), 0)
                    \o When(~prog.isMain, Ins("CPDOWNSP", depth.bp + 3, 1, 0, 0)
                                          \o MOVSP(1, 0, -1))
                    \o Ins("RESTOREBP", 0, 0, 0, 0)
                    \o MOVSP(depth.bp, -depth.bp, 0) \o Ins("RETN", 0, 0, 0, 0))
    /\ UNCHANGED <<depth, ctxVars>>

(* GenerateOutput: the loader, #globals, then every function in use. *)
Loader(p) ==
    When(~p.isMain, Ins("RSADD", 0, 0, 0, 0))
    \o Jump("JSR", Fn(IF p.create THEN "#globals" ELSE p.entry), 0)
    \o Ins("RETN", 0, 0, 0, 0)

Globals(p) ==
    When(p.create,
         Define(Fn("#globals"))
         \o [i \in 1 .. Len(p.globals) |-> [do |-> "global", pc |-> p.globals[i]]]
         \o <<[do |-> "callentry"]>>)

Routines(p) == [i \in 1 .. Len(p.routines) |-> [do |-> "routine", r |-> p.routines[i]]]

GenInit ==
    /\ LinkerInit
    /\ prog \in Programs
    /\ code = <<>>
    /\ work = Loader(prog) \o Globals(prog) \o Routines(prog)
    /\ nextLabel = 1
    /\ depth = [sp |-> 0, exp |-> 0, bp |-> 0]
    /\ fn = [name |-> "#loader", ret |-> 0, args |-> 0, return |-> NoLabel, global |-> FALSE]
    /\ brk = [label |-> NoLabel, depth |-> 0]
    /\ cont = [label |-> NoLabel, depth |-> 0]
    /\ default = NoLabel
    /\ cases = <<>>
    /\ messages = {}

GenNext ==
    \/ EmitIns \/ EmitJump \/ ResolveLabel \/ DefineRoutineLabel
    \/ AdjustDepth \/ AdoptInit \/ Restore \/ PassAssert \/ DropExpression
    \/ CodeConst \/ CodeConstantVariable \/ CodeVariable \/ CodeAssignment \/ CodeStore \/ CodeOperator
    \/ CodeLogicalAND \/ CodeLogicalOR \/ CodeConditional
    \/ CodeCall \/ CodeArguments \/ CodeJsr \/ CodeACTION \/ CodeSituation \/ CodeExpressionEnd
    \/ CodeDeclaration \/ CodeStatement \/ CodeBreak \/ CodeContinue
    \/ CodeReturn \/ CodeSetReturn \/ CodeLeave
    \/ CodeIf \/ CodeDo \/ CodeWhile \/ CodeFor \/ CodeSwitch \/ JumpToDefault
    \/ ScanStatement \/ ScanCase \/ ScanDefault \/ ScanOther \/ CodeCase
    \/ CodeRoutine \/ BeginRoutine \/ CodeGlobal \/ CodeCallEntry

GenSpec == GenInit /\ [][GenNext]_genVars

(* The script is written out: nothing is left to code and nothing failed. *)
Failed == \E m \in messages : m[1] = "ErrorFunctionBodyMissing"
Generated == work = <<>> /\ ~Failed

-----------------------------------------------------------------------------

(* The assertions of the generator: nothing is left on the expression      *)
(* stack between statements and around globals (CodeData, GenerateOutput), *)
(* and a label that is resolved or defined exists and has no place yet     *)
(* (ForwardResolve, DefineLabel).                                          *)
AssertsHold ==
    /\ Doing("assert") => depth.exp = 0
    /\ Doing("resolve") => Head1.label \in DOMAIN linker
    /\ Doing("resolve") \/ Doing("define") => EntryOf(Head1.label).nOffset = 0

(* Every jump of a script that is written out has its operand: each label  *)
(* a break, a continue, a case or a call names was placed by then.         *)
JumpsPatched == Generated => Dangling = {}
=============================================================================
