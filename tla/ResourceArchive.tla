--------------------------- MODULE ResourceArchive ---------------------------
(***************************************************************************)
(* What the resource manager promises the compiler: once built, a catalog  *)
(* gives every known name one resource, a handle stands for the resource   *)
(* it was opened on until it is closed, and a read returns the bytes of    *)
(* that resource whatever else was opened or read meanwhile.               *)
(***************************************************************************)
EXTENDS Integers, FiniteSets

CONSTANTS Ids,      \* <<type, name>>
          Handles,  \* without INVALID
          INVALID,
          Indexes, Offsets, Lengths  \* what the operations are asked for

VARIABLES catalog,  \* from the ids that exist to resources
                    \* [type, bif, from, size]
          open,     \* from open handles to resources
          answer    \* what the last operation returned

Init == catalog = <<>> /\ open = <<>> /\ answer = [op |-> "none"]

Build == /\ catalog = <<>>
         /\ UNCHANGED <<open, answer>>

(* A fresh handle, if there is one. *)
OpenAs(id) ==
    \/ \E h \in Handles \ DOMAIN open :
         /\ answer' = [op |-> "open", handle |-> h]
         /\ open' = [g \in DOMAIN open \cup {h} |-> IF g = h THEN catalog[id] ELSE open[g]]
    \/ /\ answer' = [op |-> "throws"]
       /\ Handles \subseteq DOMAIN open
       /\ open' = open

OpenNone == answer' = [op |-> "open", handle |-> INVALID] /\ open' = open

Open(id) == /\ IF id \in DOMAIN catalog THEN OpenAs(id) ELSE OpenNone
            /\ catalog' = catalog

OpenByIndex(i) ==
    /\ IF i < Cardinality(DOMAIN catalog)
       THEN \E id \in DOMAIN catalog : OpenAs(id)
       ELSE OpenNone
    /\ catalog' = catalog

Close(h) == /\ answer' = [op |-> "close", ok |-> h \in DOMAIN open]
            /\ open' = [g \in DOMAIN open \ {h} |-> open[g]]
            /\ catalog' = catalog

Least(m, n) == IF m < n THEN m ELSE n

Read(h, offset, n) ==
    /\ answer' =
         IF h \in DOMAIN open /\ offset < open[h].size
         THEN LET count == Least(n, open[h].size - offset) IN
              [op |-> "read", ok |-> TRUE, bif |-> open[h].bif, count |-> count,
               from |-> IF count = 0 THEN 0 ELSE open[h].from + offset]
         ELSE [op |-> "read", ok |-> FALSE]
    /\ UNCHANGED <<catalog, open>>

(* Size, type and file of what a handle stands for. *)
Query(h) == /\ answer' = IF h \in DOMAIN open
                         THEN [op |-> "query", ok |-> TRUE, size |-> open[h].size,
                               type |-> open[h].type, bif |-> open[h].bif]
                         ELSE [op |-> "query", ok |-> FALSE]
            /\ UNCHANGED <<catalog, open>>

Next == \/ Build
        \/ \E id \in Ids : Open(id)
        \/ \E i \in Indexes : OpenByIndex(i)
        \/ \E h \in Handles \cup {INVALID} : Close(h) \/ Query(h)
        \/ \E h \in Handles \cup {INVALID}, offset \in Offsets, n \in Lengths : Read(h, offset, n)

Spec == Init /\ [][Next]_<<catalog, open, answer>>
=============================================================================
