---------------------------- MODULE MCResources ----------------------------
(* Three archives, one of which may be missing or broken: the first two     *)
(* share a bif, and names repeat within an archive and between them.        *)
EXTENDS ResourceManager

CONSTANTS m, n, N

MCNames == {m, n, N}
MCLower == [x \in MCNames |-> IF x = N THEN n ELSE x]
MCPaths == {"one", "two"}
MCKeyList == <<"patch", "xp", "base">>

BifEntry(id, offset, size) == [id |-> id, offset |-> offset, size |-> size, type |-> 1]

(* Headers of 2, entries of 1; resources in front of the table. *)
OneBif == [good |-> TRUE, size |-> 9, tableAt |-> 7,
           table |-> <<BifEntry(0, 2, 3), BifEntry(9, 5, 2)>>]

(* An empty resource, the table last, a resource that ends the file. *)
TwoBif == [good |-> TRUE, size |-> 8, tableAt |-> 2,
           table |-> <<BifEntry(16, 6, 2), BifEntry(1, 4, 0), BifEntry(2, 4, 3)>>]

(* What a bif may be instead: absent, an index out of order, an offset that *)
(* overflows, an entry or a table behind the end, an empty table. *)
OtherBifs == {[TwoBif EXCEPT !.good = FALSE],
              [TwoBif EXCEPT !.table[2].id = 2],
              [TwoBif EXCEPT !.table[3].offset = 14],
              [TwoBif EXCEPT !.table[3].offset = 7],
              [TwoBif EXCEPT !.tableAt = 6],
              [TwoBif EXCEPT !.tableAt = 8]}

Bif(path) == [usable |-> TRUE, path |-> path]
KeyEntry(name, type, bif, file) == [name |-> name, type |-> type, bif |-> bif, file |-> file]

Patch == [good |-> TRUE, bifs |-> <<Bif("two")>>,
          keys |-> <<KeyEntry(n, 1, 0, 0), KeyEntry(m, 2, 0, 1), KeyEntry(n, 1, 0, 2)>>]
Xp == [good |-> TRUE, bifs |-> <<Bif("one"), Bif("two")>>,
       keys |-> <<KeyEntry(N, 1, 0, 0), KeyEntry(m, 1, 1, 2)>>]
Base == [good |-> TRUE, bifs |-> <<Bif("one")>>,
         keys |-> <<KeyEntry(m, 1, 0, 0), KeyEntry(n, 1, 0, 1)>>]

OtherPatches == {[Patch EXCEPT !.good = FALSE],
                 [Patch EXCEPT !.bifs[1].usable = FALSE],
                 [Patch EXCEPT !.keys[1].bif = 1],
                 [Patch EXCEPT !.keys[2].file = 3]}

Installation(patch, two) ==
    [bif |-> [p \in MCPaths |-> IF p = "one" THEN OneBif ELSE two],
     key |-> [k \in {"patch", "xp", "base"} |->
                CASE k = "patch" -> patch [] k = "xp" -> Xp [] k = "base" -> Base]]

MCDisks == {Installation(Patch, two) : two \in {TwoBif} \cup OtherBifs}
           \cup {Installation(patch, TwoBif) : patch \in OtherPatches}
=============================================================================
