------------------------------ MODULE NscScope ------------------------------
(***************************************************************************)
(* What the semantic actions of the parser make of a script: the scopes    *)
(* (NscSymbolFence) that give local variables their stack offsets, and the *)
(* PCode of statements and expressions (NscParserRoutines.cpp:             *)
(* NscBuildStatementFence, NscBuildStatement, NscBuild5Block, NscBuildCase, *)
(* NscBuildReturn, NscBuildFunctionDeclarator; NscContext: GetFence,       *)
(* RestoreFence, AddVariable).                                             *)
(*                                                                         *)
(* A script is a syntax tree: records with a field op.  Every variable has *)
(* the type int, and takes one stack slot.                                 *)
(***************************************************************************)
EXTENDS Integers, Sequences

(* The fence a statement is parsed under: nPrevLocals, nLocals, fEatScope, *)
(* the type, the nearest fence that is not a plain scope (type and         *)
(* nLocals), the visible variables, and whether NscBuildCase complained    *)
(* (skipped) or found no switch (outside).                                 *)
Fence(type, prev, eat, vars) ==
    [type |-> type, prev |-> prev, n |-> 0, eat |-> eat, vars |-> vars,
     outer |-> <<"none", 0>>, skipped |-> FALSE, outside |-> FALSE]

(* GetFence: a new fence inside the fence f. *)
PushFence(f, type, eat) ==
    [Fence(type, f.prev + f.n + IF type = "Switch" THEN 1 ELSE 0, eat, f.vars)
       EXCEPT !.outer = IF f.type = "Scope" THEN f.outer ELSE <<f.type, f.n>>]

(* RestoreFence: back to f after the inner fence g. *)
PopFence(f, g) == [f EXCEPT !.skipped = @ \/ g.skipped, !.outside = @ \/ g.outside]

(* AddVariable for a local variable. *)
AddVariable(f, x) ==
    [f EXCEPT !.n = @ + 1,
              !.vars = [y \in DOMAIN @ \cup {x} |->
                          IF y = x THEN [global |-> FALSE, off |-> f.prev + f.n] ELSE @[y]]]

(* The fence NscBuildCase looks at: the nearest that is not a plain scope. *)
SwitchFence(f) == IF f.type = "Scope" THEN f.outer ELSE <<f.type, f.n>>

-----------------------------------------------------------------------------
(* PCode of expressions. *)

Var(x, vars, inc) ==
    <<[op |-> "Var", sym |-> x, off |-> vars[x].off, global |-> vars[x].global, inc |-> inc]>>

Operator(code, operands) == <<[op |-> "Operator", code |-> code, operands |-> operands]>>

IsConst(block) == Len(block) = 1 /\ block[1].op = "Const"
Constant(b) == <<[op |-> "Const", v |-> IF b THEN 1 ELSE 0]>>

(* With optimisations an operator on constants becomes its value.          *)
PNot(p, fold) ==
    IF fold /\ IsConst(p) THEN Constant(p[1].v = 0) ELSE p \o Operator("NOT", 1)

PEqual(l, r, fold) ==
    IF fold /\ IsConst(l) /\ IsConst(r) THEN Constant(l[1].v = r[1].v)
    ELSE l \o r \o Operator("EQUAL", 2)

(* && and || with a constant on the left are decided by it, or are the     *)
(* right side as it is: a constant is made 0 or 1, other values are not.   *)
PLogical(op, l, r, fold) ==
    IF ~fold \/ ~IsConst(l)
    THEN <<[op |-> IF op = "and" THEN "And" ELSE "Or", lhs |-> l, rhs |-> r]>>
    ELSE IF (l[1].v = 0) = (op = "and") THEN Constant(op = "or")
    ELSE IF IsConst(r) THEN Constant(r[1].v # 0)
    ELSE r

RECURSIVE PExpr(_, _, _), PArgs(_, _, _)

PExpr(e, vars, script) ==
    CASE e.op = "const" -> <<[op |-> "Const", v |-> e.v]>>
      [] e.op = "var" -> Var(e.x, vars, "none")
      [] e.op = "inc" -> Var(e.x, vars, e.when)
      [] e.op = "set" ->
           <<[op |-> "Asn", sym |-> e.x, off |-> vars[e.x].off, global |-> vars[e.x].global,
              rhs |-> PExpr(e.e, vars, script)]>>
      [] e.op = "not" -> PNot(PExpr(e.e, vars, script), script.opt)
      [] e.op = "eq" -> PEqual(PExpr(e.l, vars, script), PExpr(e.r, vars, script), script.opt)
      [] e.op \in {"and", "or"} ->
           PLogical(e.op, PExpr(e.l, vars, script), PExpr(e.r, vars, script), script.opt)
      [] e.op = "cond" -> <<[op |-> "Cond", cond |-> PExpr(e.c, vars, script),
                             then |-> PExpr(e.t, vars, script),
                             els |-> PExpr(e.f, vars, script)]>>
      [] e.op = "call" -> <<[op |-> "Call", fn |-> e.f, engine |-> FALSE,
                             ret |-> script.funs[e.f].ret,
                             args |-> PArgs(e.args, vars, script)]>>
      [] e.op = "act" -> <<[op |-> "Call", fn |-> e.id, engine |-> TRUE, ret |-> e.ret,
                            args |-> PArgs(e.args, vars, script)]>>

PArgs(args, vars, script) ==
    [i \in 1 .. Len(args) |->
       IF args[i].op = "situation"
       THEN [action |-> TRUE, data |-> PExpr(args[i].e, vars, script)]
       ELSE [action |-> FALSE, data |-> PExpr(args[i], vars, script)]]

ValueSize(e, script) ==
    CASE e.op = "act" -> e.ret
      [] e.op = "call" -> script.funs[e.f].ret
      [] OTHER -> 1

-----------------------------------------------------------------------------
(* PCode of statements: [pc, f], the code and the fence after them. *)

Code1(node, f) == [pc |-> <<node>>, f |-> f]

(* NscBuildStatement ends an expression statement with ExpressionEnd. *)
ExpressionEnd(size) == IF size = 0 THEN <<>> ELSE <<[op |-> "End", size |-> size]>>

RECURSIVE PStmt(_, _, _), PList(_, _, _)

PList(list, f, script) ==
    IF list = <<>> THEN [pc |-> <<>>, f |-> f]
    ELSE LET h == PStmt(list[1], f, script)
             t == PList(Tail(list), h.f, script)
         IN [pc |-> h.pc \o t.pc, f |-> t.f]

(* The body of a control statement under its own fence, which eats the     *)
(* scope of a following brace.                                             *)
PBody(s, type, f, script) == PStmt(s, PushFence(f, type, TRUE), script)

PStmt(s, f, script) ==
    CASE s.op = "exp" ->
           [pc |-> PExpr(s.e, f.vars, script) \o ExpressionEnd(ValueSize(s.e, script)),
            f |-> f]
      [] s.op = "decl" ->
           LET g == AddVariable(f, s.x)
           IN Code1([op |-> "Decl", selfRef |-> s.selfRef,
                     init |-> IF s.init = <<>> THEN <<>> ELSE PExpr(s.init[1], g.vars, script)], g)
      [] s.op = "block" ->
           IF f.eat
           THEN LET b == PList(s.body, [f EXCEPT !.eat = FALSE], script)
                IN Code1([op |-> "Stmt", data |-> b.pc, locals |-> b.f.n], b.f)
           ELSE LET b == PList(s.body, PushFence(f, "Scope", FALSE), script)
                IN Code1([op |-> "Stmt", data |-> b.pc, locals |-> b.f.n], PopFence(f, b.f))
      [] s.op = "if" ->
           LET t == PBody(s.t, "If", f, script)
               e == IF s.f = <<>> THEN [pc |-> <<>>, f |-> f]
                    ELSE PBody(s.f[1], "If", f, script)
           IN Code1([op |-> "If", cond |-> PExpr(s.c, f.vars, script), then |-> t.pc,
                     els |-> e.pc, hasElse |-> s.f # <<>>], PopFence(PopFence(f, t.f), e.f))
      [] s.op = "while" ->
           LET b == PBody(s.body, "While", f, script)
           IN Code1([op |-> "While", cond |-> PExpr(s.c, f.vars, script),
                     body |-> b.pc], PopFence(f, b.f))
      [] s.op = "do" ->
           LET b == PBody(s.body, "Do", f, script)
           IN Code1([op |-> "Do", cond |-> PExpr(s.c, f.vars, script),
                     body |-> b.pc], PopFence(f, b.f))
      [] s.op = "for" ->
           LET b == PBody(s.body, "For", f, script)
               opt(e) == IF e = <<>> THEN <<>> ELSE PExpr(e[1], f.vars, script)
           IN Code1([op |-> "For", init |-> opt(s.init), cond |-> opt(s.c),
                     inc |-> opt(s.inc), body |-> b.pc], PopFence(f, b.f))
      [] s.op = "switch" ->
           LET b == PBody(s.body, "Switch", f, script)
           IN Code1([op |-> "Switch", cond |-> PExpr(s.e, f.vars, script),
                     body |-> b.pc], PopFence(f, b.f))
      [] s.op \in {"case", "default"} ->
           LET sw == SwitchFence(f)
               node == IF s.op = "case"
                       THEN [op |-> "Case", id |-> s.id, value |-> <<[op |-> "Const", v |-> s.v]>>]
                       ELSE [op |-> "Default", id |-> s.id]
           IN IF sw[1] # "Switch" THEN [pc |-> <<>>, f |-> [f EXCEPT !.outside = TRUE]]
              ELSE Code1(node, [f EXCEPT !.skipped = @ \/ sw[2] # 0])
      [] s.op = "break" -> Code1([op |-> "Break"], f)
      [] s.op = "continue" -> Code1([op |-> "Continue"], f)
      [] s.op = "return" ->
           LET v == IF s.e = <<>> THEN <<>> ELSE PExpr(s.e[1], f.vars, script)
           IN [pc |-> <<[op |-> "Return", data |-> v]>>
                      \o (IF script.opt THEN <<>> ELSE ExpressionEnd(Len(s.e))),
               f |-> f]

-----------------------------------------------------------------------------
(* Functions and scripts. *)

RECURSIVE AddVariables(_, _)
AddVariables(f, xs) ==
    IF xs = <<>> THEN f ELSE AddVariables(AddVariable(f, xs[Len(xs)]), SubSeq(xs, 1, Len(xs) - 1))

(* The generator gives a global its stack offset once it knows which       *)
(* globals have one.                                                       *)
GlobalVars(script) ==
    [x \in {script.globals[i].x : i \in 1 .. Len(script.globals)} |->
       [global |-> TRUE, off |-> 0]]

(* Parameters are variables of the function fence, the last one first; the *)
(* body is a compound statement with a scope of its own.                   *)
PFunction(name, script) ==
    LET fun == script.funs[name]
        f0 == AddVariables(Fence("Function", 0, FALSE, GlobalVars(script)), fun.params)
    IN PStmt([op |-> "block", body |-> fun.body], f0, script)

(* Whether the parser reports an error: a case label after a declaration. *)
Rejected(script) ==
    \E name \in DOMAIN script.funs : PFunction(name, script).f.skipped
=============================================================================
