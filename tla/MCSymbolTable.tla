---------------------------- MODULE MCSymbolTable ----------------------------
(* Three names, two of them in one bucket, and a buffer that grows. *)
EXTENDS NscSymbolTable

CONSTANTS a, b, c

MCNames == {a, b, c}
MCHashIndex == [n \in MCNames |-> IF n = c THEN 2 ELSE 1]
MCSymbolSize == [n \in MCNames |-> IF n = b THEN 3 ELSE 2]
=============================================================================
