---------------------------- MODULE BifFileReader ----------------------------
(***************************************************************************)
(* BifFileReader over FileWrapper: a mapped file with one position, the    *)
(* directory parsed from its variable table, and reads that seek only when *)
(* they do not continue the last one.                                      *)
(***************************************************************************)
EXTENDS Integers, Sequences

CONSTANTS HeaderSize,  \* sizeof (BIF_HEADER)
          EntrySize,   \* sizeof (BIF_RESOURCE)
          IdMod,       \* 2^20, the index part of a resource identifier
          Width        \* 2^32, arithmetic on the fields of BIF_RESOURCE

ASSUME BifAssumption == {HeaderSize, EntrySize, IdMod, Width} \subseteq Nat \ {0}

(* BIF_RESOURCE. *)
Entry == [id : Nat, offset : Nat, size : Nat, type : Nat]

(* A file: whether it exists with the right FileType and Version, its size *)
(* and VariableTableOffset, and its variable table. *)
File == [good : BOOLEAN, size : Nat, tableAt : Nat, table : Seq(Entry)]

(* m_ResDir, m_File's size, FileWrapper::m_Offset and m_NextOffset. *)
Reader == [dir : Seq(Entry), size : Nat, position : Nat, next : Nat]

INVALID_FILE == 0

(* ParseBifFile's tests of one entry: its index, the 32 bit overflow and   *)
(* the end of the file. *)
ValidEntry(f, i) ==
    LET e == f.table[i] IN /\ e.id % IdMod = i - 1
                           /\ (e.offset + e.size) % Width >= e.offset
                           /\ e.offset + e.size <= f.size

(* A table right at the end of the file is empty whatever its count says. *)
NoTable(f) == f.tableAt = f.size

TableEnd(f) == f.tableAt + EntrySize * Len(f.table)

(* The constructor returns; otherwise it throws, whichever test fails. *)
Opens(f) == /\ f.good
            /\ HeaderSize <= f.size
            /\ \/ NoTable(f)
               \/ /\ f.tableAt < f.size
                  /\ TableEnd(f) <= f.size
                  /\ \A i \in DOMAIN f.table : ValidEntry(f, i)

Opened(f) == [dir |-> IF NoTable(f) THEN <<>> ELSE f.table,
              size |-> f.size,
              position |-> IF NoTable(f) THEN HeaderSize ELSE TableEnd(f),
              next |-> 0]

(* A FileId or a handle minus one indexes the directory from 0. *)
Listed(dir, i) == i + 1 \in DOMAIN dir

BifOpenFileByIndex(r, i) ==
    IF Listed(r.dir, i) /\ r.dir[i + 1].id % IdMod = i THEN i + 1 ELSE INVALID_FILE

Minimum(m, n) == IF m < n THEN m ELSE n

(* What a read returns: no, or the count bytes of the file at from. *)
NoBytes == [ok |-> FALSE, from |-> 0, count |-> 0]
Bytes(from, n) == [ok |-> TRUE, from |-> IF n = 0 THEN 0 ELSE from, count |-> n]

(* SeekOffset, unless the read before ended here; a failure moves nothing. *)
Seek(r, want) ==
    IF want = r.next \/ want >= r.size THEN r
    ELSE [r EXCEPT !.position = want, !.next = want]

SeekFails(r, want) == want # r.next /\ want >= r.size

(* FileWrapper::ReadFile: all of the bytes or an exception. *)
Reads(r, n) == n = 0 \/ r.position + n <= r.size

(* Faulty: does not remember where the read ended. *)
AdvanceOnly(r, n) == [r EXCEPT !.position = @ + n]

Advance(r, n) == [r EXCEPT !.position = @ + n, !.next = @ + n]

(* ReadEncapsulatedFile: the reader afterwards and the bytes. *)
BifRead(r, h, offset, n) ==
    IF ~Listed(r.dir, h - 1) THEN [reader |-> r, bytes |-> NoBytes]
    ELSE LET e == r.dir[h] IN
    IF offset >= e.size THEN [reader |-> r, bytes |-> NoBytes]
    ELSE LET count == Minimum(n, e.size - offset)
             s == Seek(r, e.offset + offset)
         IN IF SeekFails(r, e.offset + offset) \/ ~Reads(s, count)
            THEN [reader |-> s, bytes |-> NoBytes]
            ELSE [reader |-> Advance(s, count), bytes |-> Bytes(s.position, count)]

(* GetEncapsulatedFileSize. *)
BifSize(r, h) == IF Listed(r.dir, h - 1) THEN r.dir[h].size ELSE 0
=============================================================================
