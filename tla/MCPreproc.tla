------------------------------ MODULE MCPreproc ------------------------------
(* A script and a file it may include, of a few lines each, in every order. *)
EXTENDS NscPreproc

L(op) == [op |-> op, operand |-> "", value |-> <<>>, negated |-> FALSE,
          last |-> FALSE, malformed |-> FALSE]
Of(op, operand) == [L(op) EXCEPT !.operand = operand]
Text(value) == [L("text") EXCEPT !.value = value]
Define(name, value) == [Of("define", name) EXCEPT !.value = value]

MCLines ==
    {Text(<<"B", "/*">>), Text(<<"*/", "A">>), Text(<<"//", "/*">>), [Text(<<"A">>) EXCEPT !.last = TRUE],
     Define("A", <<"B">>), Define("B", <<"A">>), Define("A", <<>>), Define("M", <<"0">>),
     [Define("A", <<>>) EXCEPT !.malformed = TRUE],
     Of("undef", "A"), L("error"),
     Of("ifdef", "A"), [Of("ifndef", "A") EXCEPT !.last = TRUE],
     Of("if", "1"), Of("if", "A"), [Of("if", "M") EXCEPT !.negated = TRUE],
     Of("elif", "1"), Of("elif", "A"), L("else"), L("endif"),
     [L("else") EXCEPT !.malformed = TRUE],
     Of("include", "inc"), Of("include", "script"), Of("include", "lost"),
     L("unknown")}

MCBaseName == [f \in Files |-> f]
MCBuiltIn == <<"M">>
=============================================================================
