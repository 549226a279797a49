------------------------------ MODULE NscSource ------------------------------
(***************************************************************************)
(* What a script means, without PCode, stack or labels: the engine calls   *)
(* it makes, for given answers of the engine.  The generated code has to   *)
(* make the same calls (NscCompile).  Scripts are the trees of NscScope.   *)
(*                                                                         *)
(* A state of an evaluation: env the local variables, g the globals, tape  *)
(* the answers still to come, trace the calls made, val the last value,    *)
(* vals the arguments evaluated so far of the call at hand,                *)
(* seek the case label a switch looks for, and go what happens next: "on", *)
(* "break", "continue", "return", "stop" where an answer was needed and the *)
(* tape was at its end, or "done" when a situation ran to its end in place *)
(* of the rest of the script.                                              *)
(***************************************************************************)
EXTENDS Integers, Sequences

Start(tape) ==
    [env |-> <<>>, g |-> <<>>, tape |-> tape, trace |-> <<>>, val |-> 0,
     vals |-> <<>>, seek |-> 0, go |-> "on"]

Value(st, v) == [st EXCEPT !.val = v]
Truth(c) == IF c THEN 1 ELSE 0
Update(f, x, v) == [y \in DOMAIN f \cup {x} |-> IF y = x THEN v ELSE f[y]]
Get(st, x) == IF x \in DOMAIN st.env THEN st.env[x] ELSE st.g[x]
Set(st, x, v) ==
    IF x \in DOMAIN st.env THEN [st EXCEPT !.env = Update(@, x, v), !.val = v]
    ELSE [st EXCEPT !.g = Update(@, x, v), !.val = v]

(* An event, answered by the head of the tape. *)
Do1(st, id, args) ==
    IF st.tape = <<>> THEN [st EXCEPT !.go = "stop"]
    ELSE [st EXCEPT !.trace = Append(@, [id |-> id, args |-> args, ret |-> st.tape[1]]),
                    !.tape = Tail(@), !.val = st.tape[1]]

(* A jump out of a loop, a switch or a function has arrived. *)
Arrive(st, kinds) == IF st.go \in kinds THEN [st EXCEPT !.go = "on"] ELSE st

(* The variables a block declares are not visible behind it. *)
Leave(outer, st, own) ==
    [st EXCEPT !.env = [x \in DOMAIN outer.env |->
                          IF x \in own THEN outer.env[x] ELSE st.env[x]]]

(* The case and default labels of a block, in order. *)
RECURSIVE CaseLabels(_)
CaseLabels(list) ==
    IF list = <<>> THEN <<>>
    ELSE (CASE list[1].op \in {"case", "default"} -> <<list[1]>>
            [] list[1].op = "block" -> CaseLabels(list[1].body)
            [] OTHER -> <<>>) \o CaseLabels(Tail(list))

(* The label a switch over v goes to, 0 if there is none. *)
Chosen(labels, v) ==
    LET hit == {i \in 1 .. Len(labels) : labels[i].op = "case" /\ labels[i].v = v}
        dfl == {i \in 1 .. Len(labels) : labels[i].op = "default"}
        first(S) == labels[CHOOSE i \in S : \A j \in S : i <= j].id
    IN IF hit # {} THEN first(hit) ELSE IF dfl # {} THEN first(dfl) ELSE 0

(* The meaning of a node: an expression, a statement, or one of the nodes  *)
(* below that stand for a list of statements, arguments and a loop.        *)
RECURSIVE Eval(_, _, _)

List(list) == [op |-> "list", list |-> list]
Args(args) == [op |-> "args", args |-> args]
Loop(c, inc, body) == [op |-> "loop", c |-> c, inc |-> inc, body |-> body]

Call(f, args, st, script) ==
    LET fun == script.funs[f]
        n == Len(fun.params)
        all == [i \in 1 .. n |-> IF i <= Len(args) THEN args[i] ELSE script.defaults[f][i]]
        a == Eval(Args(all), [st EXCEPT !.vals = <<>>], script)
        in == [a EXCEPT !.env = [x \in {fun.params[i] : i \in 1 .. n} |->
                                   a.vals[CHOOSE i \in 1 .. n : fun.params[i] = x]]]
        end == Arrive(Eval(List(fun.body), in, script), {"return"})
    IN IF a.go # "on" THEN a ELSE [end EXCEPT !.env = st.env, !.vals = st.vals]

Action(n, st, script) ==
    LET a == Eval(Args(n.args), [st EXCEPT !.vals = <<>>], script)
    IN IF a.go # "on" THEN a ELSE [Do1(a, n.id, a.vals) EXCEPT !.vals = st.vals]

(* Arguments are evaluated from the last to the first. *)
Arguments(args, st, script) ==
    LET a == args[Len(args)]
        s == Eval(a, st, script)
    IN Eval(Args(SubSeq(args, 1, Len(args) - 1)),
            IF a.op = "situation" THEN s ELSE [s EXCEPT !.vals = <<s.val>> \o @], script)

(* A situation is the code the engine may run later, in place of what      *)
(* follows.                                                                *)
MaybeRun(n, st, script) ==
    LET s == Do1(st, "situation", <<>>)
        r == Eval(n.e, s, script)
    IN IF s.go # "on" \/ s.val # 1 THEN s
       ELSE IF r.go = "on" THEN [r EXCEPT !.go = "done"] ELSE r

(* || evaluates both sides when the code of old compilers is asked for. *)
ShortOr(script) == script.opt \/ script.v130

Expression(e, st, script) ==
    CASE e.op = "const" -> Value(st, e.v)
      [] e.op = "var" -> Value(st, Get(st, e.x))
      [] e.op = "inc" ->
           LET v == Get(st, e.x) IN Value(Set(st, e.x, v + 1), IF e.when = "pre" THEN v + 1 ELSE v)
      [] e.op = "set" -> LET r == Eval(e.e, st, script) IN Set(r, e.x, r.val)
      [] e.op = "not" -> LET r == Eval(e.e, st, script) IN Value(r, Truth(r.val = 0))
      [] e.op = "eq" ->
           LET l == Eval(e.l, st, script) r == Eval(e.r, l, script)
           IN Value(r, Truth(l.val = r.val))
      [] e.op = "and" ->
           LET l == Eval(e.l, st, script) r == Eval(e.r, l, script)
           IN IF l.val = 0 THEN Value(l, 0) ELSE Value(r, Truth(r.val # 0))
      [] e.op = "or" ->
           LET l == Eval(e.l, st, script) r == Eval(e.r, l, script)
           IN IF ShortOr(script) /\ l.val # 0 THEN Value(l, 1)
              ELSE Value(r, Truth(l.val # 0 \/ r.val # 0))
      [] e.op = "cond" ->
           LET c == Eval(e.c, st, script)
           IN Eval(IF c.val # 0 THEN e.t ELSE e.f, c, script)
      [] e.op = "call" -> Call(e.f, e.args, st, script)
      [] e.op = "act" -> Action(e, st, script)
      [] e.op = "situation" -> MaybeRun(e, st, script)
      [] e.op = "args" -> IF e.args = <<>> THEN st ELSE Arguments(e.args, st, script)

Own(list) == {list[i].x : i \in {k \in 1 .. Len(list) : list[k].op = "decl"}}

One == [op |-> "const", v |-> 1]
Opt(e) == IF e = <<>> THEN One ELSE e[1]

Statement(s, st, script) ==
    CASE s.op = "exp" -> Eval(s.e, st, script)
      [] s.op = "decl" ->
           LET d == [st EXCEPT !.env = Update(@, s.x, 0)]
               r == Eval(s.init[1], d, script)
           IN IF s.init = <<>> \/ st.seek # 0 THEN d ELSE Set(r, s.x, r.val)
      [] s.op = "list" ->
           IF s.list = <<>> THEN st
           ELSE Eval(List(Tail(s.list)), Eval(s.list[1], st, script), script)
      [] s.op = "block" -> Leave(st, Eval(List(s.body), st, script), Own(s.body))
      [] s.op = "if" ->
           LET c == Eval(s.c, st, script)
           IN Eval(IF c.val # 0 THEN s.t ELSE List(s.f), c, script)
      [] s.op = "loop" ->
           LET t == Eval(s.c, st, script)
               b == Arrive(Eval(s.body, t, script), {"continue"})
           IN IF t.go # "on" \/ t.val = 0 THEN t
              ELSE Eval(s, Eval(s.inc, b, script), script)
      [] s.op = "while" -> Arrive(Eval(Loop(s.c, One, s.body), st, script), {"break"})
      [] s.op = "do" ->
           LET b == Arrive(Eval(s.body, st, script), {"continue"})
           IN Arrive(Eval(Loop(s.c, One, s.body), b, script), {"break"})
      [] s.op = "for" ->
           LET i == Eval(Opt(s.init), st, script)
           IN Arrive(Eval(Loop(Opt(s.c), Opt(s.inc), s.body), i, script), {"break"})
      [] s.op = "switch" ->
           LET v == Eval(s.e, st, script)
               id == Chosen(CaseLabels(s.body.body), v.val)
           IN IF v.go # "on" \/ id = 0 THEN v
              ELSE Arrive(Eval(s.body, [v EXCEPT !.seek = id], script), {"break"})
      [] s.op \in {"case", "default"} ->
           IF st.seek = s.id THEN [st EXCEPT !.seek = 0] ELSE st
      [] s.op = "break" -> [st EXCEPT !.go = "break"]
      [] s.op = "continue" -> [st EXCEPT !.go = "continue"]
      [] s.op = "return" ->
           LET r == Eval(IF s.e = <<>> THEN List(<<>>) ELSE s.e[1], st, script)
           IN IF r.go = "on" THEN [r EXCEPT !.go = "return"] ELSE r

Expressions == {"const", "var", "inc", "set", "not", "eq", "and", "or", "cond",
                "call", "act", "situation", "args"}
(* What a switch looks at on its way to a label. *)
Passed == {"case", "default", "block", "decl", "list"}

Eval(n, st, script) ==
    IF st.go # "on" \/ (st.seek # 0 /\ n.op \notin Passed) THEN st
    ELSE IF n.op \in Expressions THEN Expression(n, st, script)
    ELSE Statement(n, st, script)

(* A whole script: its globals in order, then the entry symbol. *)
GlobalOf(gv) ==
    [op |-> "set", x |-> gv.x, e |-> IF gv.init = <<>> THEN [One EXCEPT !.v = 0] ELSE gv.init[1]]

Run(script, tape) ==
    LET n == Len(script.globals)
        start == [Start(tape) EXCEPT !.g = [x \in {script.globals[i].x : i \in 1 .. n} |-> 0]]
    IN Call(script.entry, <<>>,
            Eval(List([i \in 1 .. n |-> [op |-> "exp", e |-> GlobalOf(script.globals[i])]]),
                 start, script),
            script)
=============================================================================
