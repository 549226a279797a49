------------------------------ MODULE MCPStack ------------------------------
(* Three entries; the blocks of five come from two operands and from none. *)
EXTENDS NscPStack, TLC

CONSTANTS e1, e2, e3

MCLayouts == {<<1, 2, 1, 0, 2>>}
MCSymmetry == Permutations(PStackEntries)

(* What a free entry holds is not read any more. *)
MCView == <<[e \in PStackEntries |-> IF e \in allocated THEN entries[e]
                                                        ELSE [alloc |-> entries[e].alloc]],
            allocated, reserve, pushed>>
=============================================================================
