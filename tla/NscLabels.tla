------------------------------ MODULE NscLabels ------------------------------
(***************************************************************************)
(* What the label linker of CNscCodeGenerator promises, without its symbol *)
(* table and its chains of back links: the operand of a jump holds the     *)
(* distance to the place of its label as soon as that place is known, and  *)
(* is not written before.                                                  *)
(***************************************************************************)
EXTENDS Integers

CONSTANTS Unwritten   \* an operand whose bytes have not been written

VARIABLES target,     \* offset of a jump -> the label it names
          place,      \* label -> offset, for the labels placed so far
          disp        \* offset of a jump -> its operand

labelVars == <<target, place, disp>>

Init == /\ target = <<>>
        /\ place = <<>>
        /\ disp = <<>>

(* A jump to l is emitted at offset s. *)
Jump(s, l) ==
    /\ s \notin DOMAIN target
    /\ target' = [t \in DOMAIN target \cup {s} |-> IF t = s THEN l ELSE target[t]]
    /\ disp' = [t \in DOMAIN target \cup {s} |->
                  IF t # s THEN disp[t]
                  ELSE IF l \in DOMAIN place THEN place[l] - s ELSE Unwritten]
    /\ UNCHANGED place

(* Label l is placed at offset p: every jump that names it is completed. *)
Place(l, p) ==
    /\ l \notin DOMAIN place
    /\ place' = [k \in DOMAIN place \cup {l} |-> IF k = l THEN p ELSE place[k]]
    /\ disp' = [t \in DOMAIN target |-> IF target[t] = l THEN p - t ELSE disp[t]]
    /\ UNCHANGED target

Next == \E n \in Nat : \E l : Jump(n, l) \/ Place(l, n)

Spec == Init /\ [][Next]_labelVars
=============================================================================
