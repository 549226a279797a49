------------------------------- MODULE NscPCode -------------------------------
(***************************************************************************)
(* What the parser guarantees about the PCode it hands to the generator    *)
(* (NscParserRoutines.cpp), and GatherUsed about the routines.             *)
(*                                                                         *)
(* A tree is not taken apart recursively: the constants name every node of *)
(* a program, and the assumption relates each node to the nodes it is made *)
(* of.  One value takes one slot.                                          *)
(***************************************************************************)
EXTENDS NscCodeGen

CONSTANTS Exprs(_),   \* the nodes of the expressions of a program
          About(_)    \* its other nodes, and what holds of them

(* About(p)[n] is a record                                                 *)
(*   size      what is left on the expression stack behind the node        *)
(*   exits     the jumps it may take out of itself: "break", "continue"    *)
(*   labels    the case and default labels CodeScanCase finds in it        *)
(*   ids       all the case and default labels in it                       *)
(*   returns   the sizes of the values its return statements return        *)

Tree(p) == [prog |-> p, exprs |-> Exprs(p), about |-> About(p)]

ExprOps == {"Const", "Var", "Asn", "Operator", "And", "Or", "Cond", "Call"}

ExprSize(n) ==
    CASE n.op = "Operator" -> 1 - n.operands
      [] n.op = "Call" -> n.ret
      [] OTHER -> 1

SizeOf(n, t) == IF n.op \in ExprOps THEN ExprSize(n) ELSE t.about[n].size

(* m_nExpDepth after the first i nodes of a block, counted from its start. *)
Heights(b, t) ==
    LET h[i \in 0 .. Len(b)] == IF i = 0 THEN 0 ELSE h[i - 1] + SizeOf(b[i], t)
    IN h
Net(b, t) == Heights(b, t)[Len(b)]

(* A block that is an expression of v slots, or none. *)
ExprBlock(b, v, t) == b \in Seq(t.exprs) /\ Net(b, t) = v
OptBlock(b, v, t) == b = <<>> \/ ExprBlock(b, v, t)
ArgsOK(args, t) ==
    \A i \in 1 .. Len(args) :
      ExprBlock(args[i].data, IF args[i].action THEN 0 ELSE 1, t)

Names(t) == {t.prog.routines[i].name : i \in 1 .. Len(t.prog.routines)}

(* Each operator has the operands it needs in front of it; only a call of  *)
(* a void function is a situation; a function that is called is gathered.  *)
ExprOK(n, t) ==
    /\ n.op \in ExprOps
    /\ ExprSize(n) \in Int
    /\ n.op = "Var" /\ n.global /\ n.sym \in DOMAIN t.prog.constants =>
         ExprBlock(t.prog.constants[n.sym], 1, t)
    /\ n.op = "Asn" => ExprBlock(n.rhs, 1, t)
    /\ n.op \in {"And", "Or"} => ExprBlock(n.lhs, 1, t) /\ ExprBlock(n.rhs, 1, t)
    /\ n.op = "Cond" => /\ ExprBlock(n.cond, 1, t)
                        /\ ExprBlock(n.then, 1, t) /\ ExprBlock(n.els, 1, t)
    /\ n.op = "Call" => /\ Len(n.args) \in Nat /\ Len(t.prog.defaults[n.fn]) \in Nat
                        /\ ArgsOK(Arguments(n, t.prog), t)
                        /\ n.ret \in {0, 1}
                        /\ ~n.engine => n.fn \in Names(t)

(* What holds of the nodes of a block of statements. *)
Of(n, t, attribute) == IF n \in DOMAIN t.about THEN t.about[n][attribute] ELSE {}
OfBlock(b, t, attribute) == UNION {Of(b[i], t, attribute) : i \in 1 .. Len(b)}

(* A block of statements: End drops all that is left of an expression,     *)
(* and a statement starts without any.  A label belongs to one statement.  *)
StmtBlock(b, t) ==
    /\ b \in Seq(t.exprs \cup DOMAIN t.about)
    /\ Net(b, t) = 0
    /\ \A i \in 1 .. Len(b) :
         b[i] \in DOMAIN t.about =>
           Heights(b, t)[IF b[i].op = "End" THEN i ELSE i - 1] = 0
    /\ \A i, j \in 1 .. Len(b) : i # j => Of(b[i], t, "ids") \cap Of(b[j], t, "ids") = {}

(* A block inside the node that a hides from CodeScanCase. *)
Inside(b, a, t) ==
    /\ StmtBlock(b, t)
    /\ OfBlock(b, t, "ids") \subseteq a.ids
    /\ OfBlock(b, t, "returns") \subseteq a.returns

Statement(n, a, t) ==
    CASE n.op = "Decl" -> OptBlock(n.init, 1, t)
      [] n.op = "Stmt" -> /\ Inside(n.data, a, t)
                          /\ OfBlock(n.data, t, "exits") \subseteq a.exits
                          /\ OfBlock(n.data, t, "labels") = a.labels
      [] n.op = "If" -> /\ ExprBlock(n.cond, 1, t)
                        /\ Inside(n.then, a, t) /\ Inside(n.els, a, t)
                        /\ OfBlock(n.then, t, "ids") \cap OfBlock(n.els, t, "ids") = {}
                        /\ OfBlock(n.then \o n.els, t, "exits") \subseteq a.exits
      [] n.op \in {"While", "Do"} -> ExprBlock(n.cond, 1, t) /\ Inside(n.body, a, t)
      [] n.op = "For" -> /\ {n.init, n.inc} \subseteq Seq(t.exprs)
                         /\ OptBlock(n.cond, 1, t)
                         /\ Inside(n.body, a, t)
      [] n.op = "Switch" -> /\ ExprBlock(n.cond, 1, t)
                            /\ Inside(n.body, a, t)
                            /\ OfBlock(n.body, t, "exits") \ {"break"} \subseteq a.exits
      [] n.op = "Case" -> ExprBlock(n.value, 1, t) /\ a.labels = {n.id}
      [] n.op = "Default" -> a.labels = {n.id}
      [] n.op = "Break" -> "break" \in a.exits
      [] n.op = "Continue" -> "continue" \in a.exits
      [] n.op = "Return" -> n.data \in Seq(t.exprs) /\ Net(n.data, t) \in a.returns
      [] OTHER -> n.op = "End" /\ n.size \in Nat

StatementOK(n, t) ==
    LET a == t.about[n] IN
    /\ Statement(n, a, t)
    /\ a.size = CASE n.op = "End" -> -n.size
                  [] n.op = "Return" -> IF t.prog.opt THEN 0 ELSE Net(n.data, t)
                  [] OTHER -> 0
    /\ a.labels \subseteq a.ids
    /\ n.op \notin {"Stmt", "Case", "Default"} => a.labels = {}
    /\ n.op \in {"Decl", "Break", "Continue", "Return", "End"} => a.ids = {}

(* A body has no jumps and labels of loops and switches elsewhere, returns *)
(* what the function returns, and is coded once.                           *)
RoutinesOK(t) ==
    LET rs == t.prog.routines
        body(i) == IF rs[i].defined THEN rs[i].body ELSE <<>> IN
    /\ Len(rs) \in Nat /\ Len(t.prog.globals) \in Nat
    /\ \A i \in 1 .. Len(rs) :
         /\ StmtBlock(body(i), t)
         /\ OfBlock(body(i), t, "exits") = {}
         /\ OfBlock(body(i), t, "labels") = {}
         /\ OfBlock(body(i), t, "returns") \subseteq {rs[i].ret}
         /\ rs[i].name # "#globals"
         /\ \A j \in 1 .. Len(rs) :
              i # j => /\ rs[i].name # rs[j].name
                       /\ OfBlock(body(i), t, "ids") \cap OfBlock(body(j), t, "ids") = {}
    /\ t.prog.entry \in Names(t)

Facts == [size : Int, exits : SUBSET {"break", "continue"}, labels : SUBSET Int,
          ids : SUBSET Int, returns : SUBSET Int]

PCodeOK(t) ==
    /\ t.about \in [DOMAIN t.about -> Facts]
    /\ \A n \in t.exprs : ExprOK(n, t)
    /\ \A n \in DOMAIN t.about : StatementOK(n, t)
    /\ \A i \in 1 .. Len(t.prog.globals) : OptBlock(t.prog.globals[i].init, 1, t)
    /\ RoutinesOK(t)

ASSUME PCodeAssumption == \A p \in Programs : PCodeOK(Tree(p))

(* No continue in a do loop whose condition is a constant: with            *)
(* optimisations the label of the condition has no place then.             *)
ContinuesPlaced ==
    \A p \in Programs :
      LET t == Tree(p) IN
      \A n \in DOMAIN t.about :
        n.op = "Do" /\ p.opt /\ IsSimpleConstant(n.cond) =>
          "continue" \notin OfBlock(n.body, t, "exits")
=============================================================================
