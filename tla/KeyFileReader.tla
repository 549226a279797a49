---------------------------- MODULE KeyFileReader ----------------------------
(***************************************************************************)
(* KeyFileReader: the names of the resources in a set of bif files, each   *)
(* with a reader of its own.  A handle is an index into the directory plus *)
(* one and needs no state; every operation opens and closes a handle of    *)
(* the bif reader on the way.                                              *)
(***************************************************************************)
EXTENDS BifFileReader

CONSTANTS Names, Types

(* KEY_RESOURCE: ResID split into the index of the bif and of the file. *)
Key == [name : Names, type : Types, bif : Nat, file : Nat]

(* A .key file: whether it exists with the right magic, its bifs as        *)
(* [usable, path], where usable says that the name is at most 1023 long    *)
(* and Drives is zero or has the installation's bit, and its keys.  The    *)
(* tables themselves are in range. *)
KeyFile(Paths) == [good : BOOLEAN,
                   bifs : Seq([usable : BOOLEAN, path : Paths]),
                   keys : Seq(Key)]

KeyReader == [bifs : Seq(Reader), dir : Seq(Key)]

(* Faulty: leaves the range of the file within the bif unchecked. *)
KeysInRangeOfBifs(f, bif) == \A i \in DOMAIN f.keys : f.keys[i].bif + 1 \in DOMAIN f.bifs

(* What ParseKeyFile asks of the directory; bifs are already open. *)
KeysInRange(f, bif) ==
    \A i \in DOMAIN f.keys :
      /\ f.keys[i].bif + 1 \in DOMAIN f.bifs
      /\ Listed(Opened(bif[f.bifs[f.keys[i].bif + 1].path]).dir, f.keys[i].file)

(* The constructor returns, bif being the bif files of the installation. *)
KeyOpens(f, bif) ==
    /\ f.good
    /\ \A i \in DOMAIN f.bifs : f.bifs[i].usable /\ Opens(bif[f.bifs[i].path])
    /\ KeysInRange(f, bif)

KeyOpened(f, bif) ==
    [bifs |-> [i \in DOMAIN f.bifs |-> Opened(bif[f.bifs[i].path])],
     dir |-> f.keys]

Count(k) == Len(k.dir)

\* The directory entry of a file, as the resource manager indexes it.
KeyFileEntry(k, i) == <<k.dir[i + 1].type, k.dir[i + 1].name>>

KeyOpenFileByIndex(k, i) == IF Listed(k.dir, i) THEN i + 1 ELSE INVALID_FILE

KeyCloseFile(h) == h # INVALID_FILE

(* The handle of the bif reader behind a valid handle of this one. *)
BifHandle(k, h) == BifOpenFileByIndex(k.bifs[k.dir[h].bif + 1], k.dir[h].file)

(* A valid handle whose bif can be opened. *)
Behind(k, h) == Listed(k.dir, h - 1) /\ BifHandle(k, h) # INVALID_FILE

KeyRead(k, h, offset, n) ==
    IF ~Behind(k, h) THEN [reader |-> k, bytes |-> NoBytes]
    ELSE LET b == k.dir[h].bif + 1
             read == BifRead(k.bifs[b], BifHandle(k, h), offset, n)
         IN [reader |-> [k EXCEPT !.bifs[b] = read.reader], bytes |-> read.bytes]

KeySize(k, h) ==
    IF Behind(k, h) THEN BifSize(k.bifs[k.dir[h].bif + 1], BifHandle(k, h)) ELSE 0

(* GetResourceAccessorName: the path of the bif, by its index; it throws   *)
(* without one. *)
NoName == -1
KeyAccessorName(k, h) == IF Behind(k, h) THEN k.dir[h].bif ELSE NoName
=============================================================================
