------------------------------ MODULE NscGather ------------------------------
(***************************************************************************)
(* What CNscCodeGenerator finds out about a script before it codes it      *)
(* (GatherUsed, and the choice of the globals to treat as constants in     *)
(* GenerateOutput), and the program NscCodeGen gets from a script.         *)
(***************************************************************************)
EXTENDS NscScope

(* The blocks inside a node, in the order GatherUsed runs over them. *)
Blocks(n) ==
    CASE n.op = "Asn" -> <<n.rhs>>
      [] n.op \in {"And", "Or"} -> <<n.lhs, n.rhs>>
      [] n.op \in {"If", "Cond"} -> <<n.cond, n.then, n.els>>
      [] n.op \in {"While", "Do", "Switch"} -> <<n.cond, n.body>>
      [] n.op = "For" -> <<n.init, n.cond, n.inc, n.body>>
      [] n.op \in {"Stmt", "Return"} -> <<n.data>>
      [] n.op = "Decl" -> <<n.init>>
      [] n.op = "Case" -> <<n.value>>
      [] n.op = "Call" -> [i \in 1 .. Len(n.args) |-> n.args[i].data]
      [] OTHER -> <<>>

(* What is known: the routines in use (m_anFunctions), the globals flagged *)
(* Referenced and Modified, the functions flagged UsesGlobalVars.          *)
Nothing == [funs |-> <<>>, referenced |-> {}, modified |-> {}, usesGlobals |-> {}]

(* A use of a global variable in the function f ("" outside functions). *)
Mark(n, f, g) ==
    IF n.op \in {"Var", "Asn"} /\ n.global
    THEN [g EXCEPT !.referenced = @ \cup {n.sym},
                   !.modified = IF n.op = "Asn" \/ n.inc # "none" THEN @ \cup {n.sym} ELSE @,
                   !.usesGlobals = @ \cup ({f} \ {""})]
    ELSE g

InUse(f, g) == \E i \in 1 .. Len(g.funs) : g.funs[i] = f

RECURSIVE GatherBlocks(_, _, _, _), GatherBlock(_, _, _, _), GatherFunction(_, _, _)

GatherBlocks(blocks, f, g, script) ==
    IF blocks = <<>> THEN g
    ELSE GatherBlocks(Tail(blocks), f, GatherBlock(blocks[1], f, g, script), script)

(* Faulty: UsesGlobalVars stays with the function that names a global. *)
GatherBlockLocal(block, f, g, script) ==
    IF block = <<>> THEN g
    ELSE LET n == block[1]
             inner == GatherBlocks(Blocks(n), f, Mark(n, f, g), script)
             new == n.op = "Call" /\ ~n.engine /\ ~InUse(n.fn, inner)
         IN GatherBlock(Tail(block), f,
                        IF new THEN GatherFunction(n.fn, inner, script) ELSE inner, script)

(* The callee is gathered when it is met first, and hands UsesGlobalVars   *)
(* up to that caller only.                                                 *)
GatherBlock(block, f, g, script) ==
    IF block = <<>> THEN g
    ELSE LET n == block[1]
             inner == GatherBlocks(Blocks(n), f, Mark(n, f, g), script)
             new == n.op = "Call" /\ ~n.engine /\ ~InUse(n.fn, inner)
             callee == GatherFunction(n.fn, inner, script)
             after == IF ~new THEN inner
                      ELSE IF n.fn \in callee.usesGlobals
                      THEN [callee EXCEPT !.usesGlobals = @ \cup ({f} \ {""})]
                      ELSE callee
         IN GatherBlock(Tail(block), f, after, script)

GatherFunction(f, g, script) ==
    GatherBlock(PFunction(f, script).pc, f, [g EXCEPT !.funs = Append(@, f)], script)

(* The initialiser of a global. *)
GlobalInit(gv, script) ==
    IF gv.init = <<>> THEN <<>> ELSE PExpr(gv.init[1], GlobalVars(script), script)

Gathered(script) ==
    LET inits == [i \in 1 .. Len(script.globals) |-> GlobalInit(script.globals[i], script)]
    IN GatherFunction(script.entry, GatherBlocks(inits, "", Nothing, script), script)

(* CNscPCodeSideEffectChecker: calls, assignments and increments. *)
RECURSIVE SideEffects(_)
SideEffects(block) ==
    \E i \in 1 .. Len(block) :
      \/ block[i].op \in {"Call", "Asn"}
      \/ block[i].op = "Var" /\ block[i].inc # "none"
      \/ \E j \in 1 .. Len(Blocks(block[i])) : SideEffects(Blocks(block[i])[j])

(* With optimisations a global that nothing modifies is replaced by its    *)
(* initialiser wherever it is read.                                        *)
TreatAsConstant(gv, g, script) ==
    /\ script.opt
    /\ gv.x \notin g.modified
    /\ ~(gv.init = <<>> /\ gv.x \in g.referenced)
    /\ ~SideEffects(GlobalInit(gv, script))
    /\ ~gv.selfRef

Routine(name, script) ==
    [name |-> name, ret |-> script.funs[name].ret, args |-> Len(script.funs[name].params),
     defined |-> script.funs[name].defined, body |-> PFunction(name, script).pc]

(* The program NscCodeGen gets. *)
Translate(script) ==
    LET g == Gathered(script)
        slots == SelectSeq(script.globals, LAMBDA gv : ~TreatAsConstant(gv, g, script))
        consts == {i \in 1 .. Len(script.globals) : TreatAsConstant(script.globals[i], g, script)}
    IN [script |-> script,
        isMain |-> script.entry = "main",
        entry |-> script.entry,
        create |-> script.globals # <<>> /\ (slots # <<>> \/ ~script.opt \/ script.v130),
        globals |-> [i \in 1 .. Len(slots) |->
                       [op |-> "Global", sym |-> slots[i].x, selfRef |-> slots[i].selfRef,
                        init |-> GlobalInit(slots[i], script)]],
        constants |-> [x \in {script.globals[i].x : i \in consts} |->
                         GlobalInit(script.globals[CHOOSE i \in consts : script.globals[i].x = x], script)],
        usesGlobals |-> g.usesGlobals,
        routines |-> [i \in 1 .. Len(g.funs) |-> Routine(g.funs[i], script)],
        defaults |-> [f \in DOMAIN script.defaults |->
                        PArgs(script.defaults[f], GlobalVars(script), script)],
        opt |-> script.opt, optDecl |-> script.opt, v130 |-> script.v130]
=============================================================================
