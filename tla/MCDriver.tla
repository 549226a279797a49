------------------------------ MODULE MCDriver ------------------------------
(* Three scripts and two includes, some of which may be broken, missing or  *)
(* include each other, and the command lines that queue them.               *)
EXTENDS Nwnsc

MCNames == {"nwscript", "a", "a.b", "d", "b", "c"}
MCDirs == {".", "inc", "ovr"}

T(includes, main) == [includes |-> includes, fault |-> "none", main |-> main]
Faulty(text, fault) == [text EXCEPT !.fault = fault]

(* a and a.b are scripts, d is a file to include, but also an input; b and  *)
(* c are included, c may be found twice. *)
Whole ==
    [at \in {<<".", "a">>, <<".", "a.b">>, <<".", "d">>, <<"inc", "b">>, <<"ovr", "c">>,
             <<Archive, "c">>, <<Archive, "nwscript">>} |->
       CASE at[2] = "a"   -> T(<<"b", "c">>, TRUE)
         [] at[2] = "a.b" -> T(<<"c", "b">>, TRUE)
         [] at[2] = "d"   -> T(<<"b">>, FALSE)
         [] at[2] = "b"   -> T(<<"c">>, FALSE)
         [] at[2] = "c"   -> T(<<>>, at[1] = Archive)
         [] OTHER         -> T(<<>>, FALSE)]

(* What may be different: b, c, whether a has an entry point or fails      *)
(* late, and nwscript. *)
Others(at) ==
    CASE at = <<"inc", "b">> ->
           {Faulty(Whole[at], f) : f \in {"none", "syntax", "semantic", "late"}}
             \cup {T(<<"a", "c", "b">>, FALSE)}
      [] at = <<".", "a">> -> {Whole[at], Faulty(Whole[at], "late"), T(<<"b", "c">>, FALSE)}
      [] at = <<Archive, "nwscript">> -> {Whole[at], Faulty(Whole[at], "syntax")}
      [] OTHER -> {Whole[at]}

MCMissing == {{}, {<<Archive, "nwscript">>}, {<<"inc", "b">>}, {<<"ovr", "c">>},
              {<<"ovr", "c">>, <<Archive, "c">>}}

MCInstallations ==
    {[at \in DOMAIN Whole \ gone |->
        CASE at = <<"inc", "b">> -> b [] at = <<".", "a">> -> a
          [] at = <<Archive, "nwscript">> -> n [] OTHER -> Whole[at]] :
       b \in Others(<<"inc", "b">>), a \in Others(<<".", "a">>),
       n \in Others(<<Archive, "nwscript">>), gone \in MCMissing}

On(x) == [kind |-> "switch", value |-> x]
F(x) == [kind |-> "file", value |-> IF x \in {"*", "?", "??"} THEN <<x>> ELSE <<".", x>>]
Option(kind, x) == [kind |-> kind, value |-> x]
At(lines) == [kind |-> "response", lines |-> lines]
Bad == [kind |-> "bad"]

(* Archives, includes and <installdir>/ovr. *)
Usual == <<On("l"), Option("path", "inc")>>

MCCommandLines ==
    {Usual \o rest : rest \in
       {<<F("a")>>, <<F("d"), F("a")>>, <<On("y"), F("a"), F("a.b")>>,
        <<On("y"), On("M"), F("d"), F("a.b"), F("a")>>,
        <<On("g"), On("M"), F("*")>>, <<On("y"), F("*"), F("a")>>, <<F("?"), F("a")>>,
        <<F("??")>>, <<F("??"), F("a")>>, <<On("y"), F("?"), F("??")>>,
        <<On("c"), On("g"), F("d"), F("a")>>,
        <<Option("out", <<"out">>), On("g"), F("a"), F("a.b")>>,
        <<Option("out", <<"SKIP_OUTPUT">>), F("a")>>,
        <<Option("batch", <<"to">>), On("g"), F("*"), F("a.b")>>,
        <<On("d"), On("y"), F("a"), F("d")>>,
        <<F("a"), At(<<On("y"), F("c"), F("a.b")>>)>>, <<At(<<>>), F("a")>>,
        <<At(<<F("a"), At(<<F("a.b")>>)>>)>>, <<At(<<F("a")>>), At(<<F("a.b")>>)>>,
        <<F("a"), Bad>>, <<On("y")>>}}
    \cup {<<>>, <<F("a"), F("a.b")>>, <<On("l"), On("y"), F("a"), F("d")>>}

(* "?" matches nothing, "??" the directories "." and "..". *)
MCMatches == [w \in {<<"*">>, <<"?">>, <<"??">>} |->
                IF w = <<"*">> THEN <<<<".", "a">>, <<".", "d">>, <<".", "a.b">>>> ELSE <<>>]
MCFolders == {<<"??">>}

MCShort == [p \in {<<".", n>> : n \in MCNames} |-> IF p[2] = "a.b" THEN "a" ELSE p[2]]
MCSkip == <<"SKIP_OUTPUT">>
=============================================================================
