------------------------------- MODULE MCDebug -------------------------------
(* Routines of no argument or two, their types of no cell, one and three. *)
EXTENDS NscDebugSymbols

MCArguments == {<<>>, <<0, 3>>}
=============================================================================
