------------------------------- MODULE MCFences -------------------------------
(* Functions of a few statements, within each other and one after another. *)
EXTENDS NscFences, TLC

Symmetric == Permutations(Entries)
=============================================================================
