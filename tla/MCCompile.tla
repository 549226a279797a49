------------------------------ MODULE MCCompile ------------------------------
(***************************************************************************)
(* Families of small scripts for NscCompile.  cond() and act1() ... are    *)
(* engine functions; cond() returns whatever the engine likes.             *)
(***************************************************************************)
EXTENDS NscCompile, NscPCode

(* Syntax trees. *)
Cst(v) == [op |-> "const", v |-> v]
Vr(x) == [op |-> "var", x |-> x]
Inc(x, when) == [op |-> "inc", x |-> x, when |-> when]
Asn(x, e) == [op |-> "set", x |-> x, e |-> e]
Not(e) == [op |-> "not", e |-> e]
Bin(op, l, r) == [op |-> op, l |-> l, r |-> r]
Cnd(c, t, f) == [op |-> "cond", c |-> c, t |-> t, f |-> f]
Fun(f, args) == [op |-> "call", f |-> f, args |-> args]
Act(id, args) == [op |-> "act", id |-> id, args |-> args, ret |-> 0]
Ask(id) == [op |-> "act", id |-> id, args |-> <<>>, ret |-> 1]
Keep(e) == [op |-> "act", id |-> "keep", args |-> <<[op |-> "situation", e |-> e]>>, ret |-> 1]
Situation(e) == [op |-> "situation", e |-> e]

Exp(e) == [op |-> "exp", e |-> e]
Decl(x) == [op |-> "decl", x |-> x, init |-> <<>>, selfRef |-> FALSE]
DeclIs(x, e) == [op |-> "decl", x |-> x, init |-> <<e>>, selfRef |-> FALSE]
Blk(list) == [op |-> "block", body |-> list]
If(c, t) == [op |-> "if", c |-> c, t |-> t, f |-> <<>>]
IfElse(c, t, f) == [op |-> "if", c |-> c, t |-> t, f |-> <<f>>]
Lp(op, c, body) == [op |-> op, c |-> c, body |-> body]
For(i, c, n, body) == [op |-> "for", init |-> i, c |-> c, inc |-> n, body |-> body]
Sw(e, list) == [op |-> "switch", e |-> e, body |-> Blk(list)]
Case(id, v) == [op |-> "case", id |-> id, v |-> v]
Default(id) == [op |-> "default", id |-> id]
Break == [op |-> "break"]
Continue == [op |-> "continue"]
Ret == [op |-> "return", e |-> <<>>]
RetIs(e) == [op |-> "return", e |-> <<e>>]
Say(id) == Exp(Act(id, <<>>))
Show(e) == Exp(Act("show", <<e>>))

(* A script of functions funs with the globals, compiled under flags. *)
Script(funs, globals, entry, flags) ==
    [funs |-> funs, globals |-> globals, entry |-> entry,
     defaults |-> [f \in DOMAIN funs \cup {"say", "show", "cond", "later", "later2", "show2", "dfl", "end", "keep"} |->
                     IF f \in {"later", "keep"} THEN <<Situation(Act("say", <<>>))>>
                     ELSE IF f = "later2" THEN <<Situation(Act("say", <<>>)), Cst(0)>>
                     ELSE IF f = "show" THEN <<Cst(0)>>
                     ELSE IF f = "show2" THEN <<Cst(0), Cst(0)>>
                     ELSE IF f \notin DOMAIN funs THEN <<>>
                     ELSE [i \in 1 .. Len(funs[f].params) |-> Cst(7)]],
     opt |-> flags[1], v130 |-> flags[2]]
Fn0(params, ret, body) == [params |-> params, ret |-> ret, body |-> body, defined |-> TRUE]
Prototype(params, ret) == [Fn0(params, ret, <<>>) EXCEPT !.defined = FALSE]
Main(body) == [main |-> Fn0(<<>>, 0, body)]
Global(x, init) == [x |-> x, init |-> init, selfRef |-> FALSE]

Modern == {<<TRUE, TRUE>>, <<FALSE, TRUE>>}
All == Modern \cup {<<FALSE, FALSE>>}

Cond == Ask("cond")

(* Scripts the parser accepts, translated. *)
Compiled(scripts) == {Gather!Translate(s) : s \in {t \in scripts : ~Gather!Rejected(t)}}

(* Loops of two statements with locals, breaks, continues and returns.  A  *)
(* do loop has no constant condition here: see DoContinue.                 *)
LoopBody ==
    { Say("say"), DeclIs("y", Cst(2)),
      If(Cond, Break), If(Cond, Blk(<<DeclIs("z", Vr("x")), Continue>>)),
      IfElse(Cond, Blk(<<DeclIs("z", Cond), If(Vr("z"), Ret)>>), Blk(<<Decl("z"), Break>>)),
      Blk(<<DeclIs("x", Cond), Exp(Inc("x", "post")), Show(Vr("x"))>>) }
Loops(body) ==
    { Lp("while", Cond, body), Lp("while", Cst(1), body), Lp("do", Cond, body),
      For(<<Asn("x", Cst(0))>>, <<Not(Bin("eq", Vr("x"), Cst(2)))>>, <<Inc("x", "post")>>, body),
      For(<<>>, <<>>, <<>>, body) }
LoopScripts ==
    UNION { { Script(Main(<<DeclIs("x", Cst(5)), l, Show(Vr("x"))>>), <<>>, "main", flags)
              : l \in Loops(Blk(<<s, t>>)), flags \in Modern }
            : s \in LoopBody, t \in LoopBody }

(* Switches with default anywhere, labels in nested blocks, declarations   *)
(* between and behind the labels, inside a loop. *)
Arm == { Say("say"), Break, If(Cond, Break), If(Cond, Continue),
         Blk(<<DeclIs("y", Cst(3)), If(Cond, Break), Show(Vr("y"))>>) }
Switches(a, b) ==
    { <<Case(1, 0), a, Case(2, 1), b, Default(3), Say("dfl")>>,
      <<Default(3), a, Case(1, 0), b, Say("end")>>,
      <<Case(1, 0), a, Blk(<<DeclIs("w", Cst(1)), Show(Vr("w"))>>), Case(2, 1), b>>,
      <<Case(1, 1), a, Blk(<<Case(2, 0), b, DeclIs("w", Cst(4)), Show(Vr("w"))>>)>>,
      <<DeclIs("w", Cst(1)), Case(1, 0), a, b>>,
      <<Case(1, 0), a, DeclIs("w", Cst(1)), b, Show(Vr("w"))>> }
SwitchScripts ==
    UNION { { Script(Main(<<DeclIs("x", Cst(5)), Lp(loop, Cond, Blk(<<Sw(Cond, sw), Show(Vr("x"))>>))>>),
                     <<>>, "main", flags)
              : sw \in Switches(a, b), loop \in {"while", "do"}, flags \in Modern }
            : a \in Arm, b \in Arm }

StatementPrograms == Compiled(LoopScripts \cup SwitchScripts)

(* Expressions over a variable that is local or global. *)
Atom == { Vr("x"), Cond, Inc("x", "post"), Inc("x", "pre"), Asn("x", Cond), Cst(0), Cst(1) }
Expression ==
    { Bin("eq", l, r) : l \in Atom, r \in Atom }
    \cup { Not(Bin(op, l, r)) : op \in {"and", "or"}, l \in Atom, r \in Atom }
    \cup { Cnd(c, l, Inc("x", "post")) : c \in {Vr("x"), Cond, Cst(0), Cst(1)}, l \in Atom }
    \cup { Asn("x", Cnd(Bin("or", Cond, l), Cond, Vr("x"))) : l \in Atom }
ExpressionScripts ==
    UNION { { Script(Main(<<DeclIs("x", Cst(1)), Exp(e), Show(e), Show(Vr("x"))>>), <<>>, "main", flags),
              Script(Main(<<Decl("y"), Show(e), Show(Vr("x"))>>), <<Global("x", <<Cst(1)>>)>>,
                     "main", flags) } : e \in Expression, flags \in All }

(* Calls with given and defaulted arguments, returns from within loops,    *)
(* recursion, and situations stored under locals and pending arguments.    *)
FBody ==
    { <<RetIs(Vr("a"))>>,
      <<DeclIs("y", Vr("b")), If(Cond, Blk(<<DeclIs("z", Cst(1)), RetIs(Bin("eq", Vr("z"), Vr("a")))>>)),
        RetIs(Vr("y"))>>,
      <<Lp("while", Cond, Blk(<<DeclIs("y", Vr("a")), Exp(Inc("b", "pre")), If(Cond, RetIs(Vr("b")))>>)),
        RetIs(Vr("a"))>>,
      <<If(Cond, RetIs(Fun("f", <<Vr("b"), Vr("a")>>))), RetIs(Asn("b", Vr("a")))>>,
      <<Exp(Act("later", <<Situation(Act("show2", <<Vr("a"), Vr("b")>>))>>)), RetIs(Vr("b"))>> }
HBody ==
    { <<>>, <<Decl("y"), If(Cond, Ret), Show(Vr("y"))>>,
      <<Exp(Act("later2", <<Situation(Fun("h", <<>>)), Fun("f", <<Cst(2)>>)>>)), Say("say")>> }
CallScripts ==
    { Script([main |-> Fn0(<<>>, 0, <<DeclIs("x", Cst(3)), Show(Fun("f", <<Vr("x"), Cst(4)>>)),
                                     Exp(Fun("h", <<>>)), Exp(Fun("f", <<Vr("x")>>)), Show(Vr("x"))>>),
              f |-> Fn0(<<"a", "b">>, 1, body), h |-> Fn0(<<>>, 0, hbody)], <<>>, "main", flags)
      : body \in FBody, hbody \in HBody, flags \in All }
    \cup
    { Script([StartingConditional |-> Fn0(<<>>, 1, <<If(Cond, RetIs(Fun("f", <<>>))), RetIs(Cond)>>),
              f |-> Fn0(<<"a", "b">>, 1, body)], globals, "StartingConditional", flags)
      : body \in FBody, globals \in {<<>>, <<Global("g", <<Cond>>)>>}, flags \in All }
(* h is declared and called but has no body. *)
MissingBody ==
    { Script([main |-> Fn0(<<>>, 0, <<Exp(Fun("h", <<>>))>>), h |-> Prototype(<<>>, 0)],
             <<>>, "main", flags) : flags \in All }

(* Globals: with slots or treated as constants, modified or not, set by    *)
(* calls, read by functions before the base pointer is set. *)
GlobalPairs ==
    { <<Global("g", <<Cst(2)>>), Global("k", i)>>
      : i \in {<<>>, <<Cst(3)>>, <<Cond>>, <<Fun("f", <<>>)>>, <<Fun("h", <<>>)>>,
               <<Asn("g", Cst(4))>>, <<Inc("g", "pre")>>, <<Vr("g")>>, <<Keep(Act("say", <<>>))>>} }
    \cup { <<Global("k", <<Fun("h", <<>>)>>), Global("g", <<Fun("f", <<>>)>>)>> }
GlobalUses ==
    { Say("say"), Exp(Asn("g", Vr("k"))), Exp(Inc("k", "post")), Exp(Fun("f", <<>>)),
      Exp(Act("later", <<Situation(Act("show2", <<Vr("g"), Vr("k")>>))>>)) }
(* f reads a global or not, h calls f, and f may call h. *)
Readers ==
    { <<RetIs(Cst(6))>>, <<RetIs(Vr("g"))>>,
      <<If(Cond, RetIs(Fun("h", <<>>))), RetIs(Inc("g", "pre"))>> }
(* The value of k is taken from g once; with optimisations the code takes  *)
(* it whenever k is read, so scripts that change g meanwhile are left out. *)
ReadsLater(globals, uses, body, flags) ==
    /\ flags[1] /\ globals[2].init = <<Vr("g")>>
    /\ Exp(Asn("g", Vr("k"))) \in uses \/ \E i \in 1 .. Len(body) : body[i] = RetIs(Inc("g", "pre"))

GlobalScript(globals, s, t, body, flags) ==
    Script([main |-> Fn0(<<>>, 0, <<DeclIs("x", Vr("g")), s, t, Exp(Act("show2", <<Vr("k"), Vr("g")>>))>>),
            f |-> Fn0(<<>>, 1, body), h |-> Fn0(<<>>, 1, <<RetIs(Fun("f", <<>>))>>)],
           globals, "main", flags)
GlobalScripts ==
    UNION { { GlobalScript(globals, s, t, body, flags)
              : flags \in {x \in All : ~ReadsLater(globals, {s, t}, body, x)} }
            : s \in GlobalUses, t \in GlobalUses, globals \in GlobalPairs, body \in Readers }

ExpressionPrograms ==
    Compiled(ExpressionScripts \cup CallScripts \cup MissingBody \cup GlobalScripts)

AllPrograms == StatementPrograms \cup ExpressionPrograms

(* The nodes of the programs, and what holds of the statements. *)
RECURSIVE NodesIn(_), Total(_), All4(_, _)
NodesIn(block) ==
    UNION {{block[i]} \cup UNION {NodesIn(Gather!Blocks(block[i])[k])
                                  : k \in 1 .. Len(Gather!Blocks(block[i]))}
           : i \in 1 .. Len(block)}

ProgramNodes(p) ==
    UNION {NodesIn(IF p.routines[i].defined THEN p.routines[i].body ELSE <<>>)
           : i \in 1 .. Len(p.routines)}
    \cup UNION {NodesIn(p.globals[i].init) : i \in 1 .. Len(p.globals)}
    \cup UNION {NodesIn(p.constants[x]) : x \in DOMAIN p.constants}
    \cup UNION {UNION {NodesIn(p.defaults[f][i].data) : i \in 1 .. Len(p.defaults[f])}
                : f \in DOMAIN p.defaults}

Total(block) == IF block = <<>> THEN 0 ELSE ExprSize(block[1]) + Total(Tail(block))

(* The union over a block of an attribute of its nodes. *)
All4(block, a) ==
    LET of(n) ==
          LET inside == UNION {All4(Gather!Blocks(n)[k], a) : k \in 1 .. Len(Gather!Blocks(n))} IN
          CASE n.op \in {"Case", "Default"} /\ a \in {"labels", "ids"} -> {n.id}
            [] n.op = "Break" /\ a = "exits" -> {"break"}
            [] n.op = "Continue" /\ a = "exits" -> {"continue"}
            [] n.op = "Return" /\ a = "returns" -> {Total(n.data)}
            [] n.op = "If" /\ a = "labels" -> {}
            [] n.op = "Switch" /\ a = "exits" -> inside \ {"break"}
            [] n.op \in {"Switch", "Do", "While", "For"} /\ a \in {"labels", "exits"} -> {}
            [] OTHER -> inside
    IN UNION {of(block[i]) : i \in 1 .. Len(block)}

ExprsOf(p) == {n \in ProgramNodes(p) : n.op \in ExprOps}
AboutOf(p) ==
    [n \in {m \in ProgramNodes(p) : m.op \notin ExprOps} |->
       [size |-> CASE n.op = "End" -> -n.size
                   [] n.op = "Return" -> IF p.opt THEN 0 ELSE Total(n.data)
                   [] OTHER -> 0,
        exits |-> All4(<<n>>, "exits"), labels |-> All4(<<n>>, "labels"),
        ids |-> All4(<<n>>, "ids"), returns |-> All4(<<n>>, "returns")]]

(* The abstract labels, over the offsets and labels a step can be about. *)
LabelsNext == \E l \in DOMAIN linker' : Labels!Jump(out, l) \/ Labels!Place(l, out)
RefinesLabels == Labels!Init /\ [][LabelsNext]_(Labels!labelVars)

-----------------------------------------------------------------------------
(* A script for the disagreement a run shows. *)

One(body, globals, flags) == Compiled({Script(Main(body), globals, "main", flags)})

(* do { say(); if (cond()) continue; } while (1); with optimisations. *)
DoContinue == One(<<Lp("do", Cst(1), Blk(<<Say("say"), If(Cond, Continue)>>))>>, <<>>, <<TRUE, TRUE>>)

(* It is the one the theorem about JumpsPatched leaves out. *)
ASSUME PlacedAssumption == ContinuesPlaced <=> Programs # DoContinue
=============================================================================
