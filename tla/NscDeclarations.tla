--------------------------- MODULE NscDeclarations ---------------------------
(***************************************************************************)
(* What the symbol table promises the parser: a name means the newest of   *)
(* its visible declarations, and when a scope ends what is visible is what *)
(* was visible where it began, whatever was declared within.               *)
(***************************************************************************)
EXTENDS Integers, Sequences

VARIABLES visible,    \* the visible declarations, records [name, kind, at]
          scopes      \* for each open scope what was visible where it began

(* The declarations of b that are not in a are newer than those of a. *)
Extends(b, a) ==
    /\ a \subseteq b
    /\ \A new \in b \ a, old \in a : old.at < new.at

Init == scopes = <<>>

Declare == /\ Extends(visible', visible)
           /\ scopes' = scopes

(* A function is declared where its scope is not open yet, its parameters  *)
(* within. *)
Enter == \E outside \in {scopes'[i] : i \in DOMAIN scopes'} :
           /\ Extends(outside, visible)
           /\ Extends(visible', outside)
           /\ scopes' = Append(scopes, outside)

Leave == \E i \in DOMAIN scopes : /\ visible' = scopes[i]
                                  /\ scopes' = SubSeq(scopes, 1, i - 1)

Next == Declare \/ Enter \/ Leave

Spec == Init /\ [][Next]_<<visible, scopes>>
=============================================================================
