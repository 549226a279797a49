------------------------ MODULE ResourceManagerProofs ------------------------
(***************************************************************************)
(* The resource manager, for any archives, broken or whole, and any        *)
(* sequence of operations: what it believes of its files is so, the index  *)
(* leads to the most precedent file of a name, and it implements the       *)
(* archive of names, resources and handles.                                *)
(***************************************************************************)
EXTENDS ResourceManager, FiniteSetTheorems, SequenceTheorems, WellFoundedInduction, TLAPS

(* Every non-empty set of natural numbers has a least element. *)
LEMMA LessThanWellFounded == IsWellFoundedOn({ss \in Nat \X Nat : ss[1] < ss[2]}, Nat)
BY NatLessThanWellFounded DEF OpToRel

LEMMA Least ==
    ASSUME NEW T, T \subseteq Nat, T # {}
    PROVE  \E x \in T : \A y \in T : x <= y
<1> DEFINE R == {ss \in Nat \X Nat : ss[1] < ss[2]}
<1>1. \A x, y \in Nat : y < x => <<y, x>> \in R
  OBVIOUS
<1>2. IsWellFoundedOn(R, Nat)
  BY LessThanWellFounded
<1> HIDE DEF R
<1>3. \E x \in T : \A y \in T : ~ (<<y, x>> \in R)
  BY <1>2, WFMin, Zenon
<1>4. PICK x \in T : \A y \in T : ~ (<<y, x>> \in R)
  BY <1>3
<1>5. ASSUME NEW y \in T PROVE ~ (y < x)
  <2>1. x \in Nat /\ y \in Nat
    OBVIOUS
  <2> QED BY <1>1, <1>4, <2>1, Zenon
<1>6. ASSUME NEW y \in T PROVE x <= y
  BY <1>5
<1> QED BY <1>6

-----------------------------------------------------------------------------
(* Readers of bif files. *)

ReaderOK(r) ==
    /\ r \in Reader
    /\ r.next \in {0, r.position}
    /\ \A i \in DOMAIN r.dir : /\ r.dir[i].id % IdMod = i - 1
                               /\ r.dir[i].offset >= HeaderSize
                               /\ r.dir[i].offset + r.dir[i].size <= r.size

(* A file that passes the tests of ParseBifFile has its resources within   *)
(* it, each with its place as identifier. *)
LEMMA OpenedOK ==
    ASSUME NEW f \in File, Opens(f),
           \A i \in DOMAIN f.table : f.table[i].offset >= HeaderSize
    PROVE  ReaderOK(Opened(f))
<1>1. /\ f.size \in Nat /\ f.tableAt \in Nat /\ f.table \in Seq(Entry)
      /\ Len(f.table) \in Nat /\ DOMAIN f.table = 1 .. Len(f.table)
  BY LenProperties DEF File
<1>2. HeaderSize \in Nat /\ EntrySize * Len(f.table) \in Nat
  BY <1>1, BifAssumption
<1>3. TableEnd(f) \in Nat
  BY <1>1, <1>2 DEF TableEnd
<1>4. CASE NoTable(f)
  BY <1>1, <1>2, <1>4, EmptySeq DEF Opened, ReaderOK, Reader
<1>5. CASE ~NoTable(f)
  <2>1. \A i \in DOMAIN f.table : ValidEntry(f, i)
    BY <1>5 DEF Opens
  <2>2. Opened(f) = [dir |-> f.table, size |-> f.size, position |-> TableEnd(f), next |-> 0]
    BY <1>5 DEF Opened
  <2> DEFINE r == Opened(f)
  <2> HIDE DEF r
  <2>3. /\ r.dir = f.table /\ r.size = f.size /\ r.next = 0
        /\ r \in Reader
    BY <1>1, <1>3, <2>2 DEF Reader, r
  <2>4. \A i \in DOMAIN r.dir : /\ r.dir[i].id % IdMod = i - 1
                               /\ r.dir[i].offset >= HeaderSize
                               /\ r.dir[i].offset + r.dir[i].size <= r.size
    BY <2>1, <2>3 DEF ValidEntry
  <2>5. ReaderOK(r)
    BY <2>3, <2>4 DEF ReaderOK
  <2> QED BY <2>5 DEF r
<1> QED BY <1>4, <1>5

(* A byte of an entry is one of the file. *)
LEMMA Inside ==
    ASSUME NEW from \in Nat \ {0}, NEW at \in Nat, NEW size \in Nat, NEW end \in Nat,
           at < size, from + size <= end
    PROVE  from + at \in Nat \ {0} /\ from + at < end
OBVIOUS

(* The last byte of a part of an entry is one of the file. *)
LEMMA Within ==
    ASSUME NEW from \in Nat, NEW at \in Nat, NEW size \in Nat, NEW end \in Nat, NEW n \in Nat,
           n <= size - at, from + size <= end
    PROVE  from + at + n <= end
OBVIOUS

(* A read of an entry returns the bytes of the entry, wherever the file    *)
(* was left by the reads before, and leaves the reader right again. *)
LEMMA ReadsEntry ==
    ASSUME NEW r, ReaderOK(r), NEW h \in DOMAIN r.dir, NEW offset \in Nat, NEW n \in Nat
    PROVE  LET e == r.dir[h]
               read == BifRead(r, h, offset, n)
           IN /\ ReaderOK(read.reader)
              /\ read.reader.dir = r.dir
              /\ read.bytes = IF offset < e.size
                              THEN Bytes(e.offset + offset, Minimum(n, e.size - offset))
                              ELSE NoBytes
<1> DEFINE e == r.dir[h]
           want == e.offset + offset
           count == Minimum(n, e.size - offset)
           s == Seek(r, want)
           read == BifRead(r, h, offset, n)
<1>1. /\ r.dir \in Seq(Entry) /\ r.size \in Nat /\ r.position \in Nat /\ r.next \in Nat
      /\ r = [dir |-> r.dir, size |-> r.size, position |-> r.position, next |-> r.next]
  BY DEF ReaderOK, Reader
<1>2. e \in Entry
  BY <1>1, ElementOfSeq
<1>3. /\ e.offset \in Nat /\ e.size \in Nat /\ HeaderSize \in Nat \ {0}
      /\ e.offset >= HeaderSize /\ e.offset + e.size <= r.size
  BY <1>2, BifAssumption DEF Entry, ReaderOK
<1>4. Listed(r.dir, h - 1)
  <2>1. h \in Int
    BY <1>1, LenProperties
  <2>2. (h - 1) + 1 = h
    BY <2>1
  <2> QED BY <2>2 DEF Listed
<1>5. CASE offset >= e.size
  <2>1. read = [reader |-> r, bytes |-> NoBytes]
    BY <1>4, <1>5 DEF BifRead
  <2>2. ~(offset < e.size)
    BY <1>3, <1>5
  <2> QED BY <2>1, <2>2
<1>6. CASE ~(offset >= e.size)
  <2>1. /\ want \in Nat \ {0} /\ want < r.size /\ count \in Nat
        /\ want + count <= r.size /\ offset < e.size
    <3> HIDE DEF e
    <3>1. offset < e.size /\ e.size - offset \in Nat
      BY <1>3, <1>6
    <3>2. count \in Nat /\ count <= e.size - offset
      BY <3>1 DEF Minimum
    <3> HIDE DEF count
    <3>3. e.offset \in Nat \ {0}
      BY <1>3
    <3>4. want \in Nat \ {0} /\ want < r.size
      BY <1>1, <1>3, <3>1, <3>3, Inside
    <3>5. e.offset + offset + count <= r.size
      BY <1>1, <1>3, <3>1, <3>2, Within
    <3> QED BY <3>1, <3>2, <3>4, <3>5
  <2>2. /\ s.position = want /\ s.next = want /\ s.size = r.size /\ s.dir = r.dir
        /\ s \in Reader /\ ~SeekFails(r, want)
    <3>1. CASE want = r.next
      BY <1>1, <2>1, <3>1 DEF Seek, SeekFails, ReaderOK, Reader
    <3>2. CASE want # r.next
      <4> HIDE DEF want
      <4>1. s = [r EXCEPT !.position = want, !.next = want]
        BY <1>1, <2>1, <3>2 DEF Seek
      <4>2. s = [dir |-> r.dir, size |-> r.size, position |-> want, next |-> want]
        BY <1>1, <4>1
      <4> HIDE DEF s
      <4> QED BY <1>1, <2>1, <4>2 DEF SeekFails, Reader
    <3> QED BY <3>1, <3>2
  <2>3. Reads(s, count)
    BY <2>1, <2>2 DEF Reads
  <2> HIDE DEF s, want, count
  <2>4. read = [reader |-> Advance(s, count), bytes |-> Bytes(s.position, count)]
    BY <1>4, <1>6, <2>2, <2>3 DEF BifRead, s, want, count
  <2>5. Advance(s, count) = [s EXCEPT !.position = want + count, !.next = want + count]
    BY <2>2 DEF Advance, Reader
  <2>6. /\ Advance(s, count) \in Reader
        /\ Advance(s, count).position = want + count /\ Advance(s, count).next = want + count
        /\ Advance(s, count).size = r.size /\ Advance(s, count).dir = r.dir
    <3>1. /\ r.dir \in Seq(Entry) /\ want + count \in Nat
          /\ s = [dir |-> s.dir, size |-> s.size, position |-> s.position, next |-> s.next]
      BY <1>1, <2>1, <2>2 DEF Reader
    <3>2. Advance(s, count) = [dir |-> r.dir, size |-> r.size,
                               position |-> want + count, next |-> want + count]
      BY <2>2, <2>5, <3>1
    <3> QED BY <1>1, <3>1, <3>2 DEF Reader
  <2>7. ReaderOK(Advance(s, count))
    BY <2>6 DEF ReaderOK
  <2> HIDE DEF read
  <2>8. /\ read.reader = Advance(s, count) /\ read.bytes = Bytes(want, count)
    BY <2>2, <2>4
  <2> QED BY <2>1, <2>6, <2>7, <2>8 DEF read, want, count
<1> QED BY <1>5, <1>6

-----------------------------------------------------------------------------
(* Readers of key files. *)

KeyOK(k) ==
    /\ k \in KeyReader
    /\ \A b \in DOMAIN k.bifs : ReaderOK(k.bifs[b])
    /\ \A i \in DOMAIN k.dir : /\ k.dir[i].bif + 1 \in DOMAIN k.bifs
                               /\ Listed(k.bifs[k.dir[i].bif + 1].dir, k.dir[i].file)

(* The same directories, whatever the positions. *)
SameDirs(k, l) ==
    /\ k.dir = l.dir /\ DOMAIN k.bifs = DOMAIN l.bifs
    /\ \A b \in DOMAIN k.bifs : k.bifs[b].dir = l.bifs[b].dir

(* What the entry at h of a key file leads to. *)
EntryOf(k, h) == k.bifs[k.dir[h].bif + 1].dir[k.dir[h].file + 1]

(* An archive whose constructor returns has a resource behind every key. *)
LEMMA KeyOpenedOK ==
    ASSUME NEW f \in KeyFile(Paths), NEW bif \in [Paths -> File], KeyOpens(f, bif),
           \A p \in Paths : \A i \in DOMAIN bif[p].table : bif[p].table[i].offset >= HeaderSize
    PROVE  KeyOK(KeyOpened(f, bif))
<1> DEFINE k == KeyOpened(f, bif)
<1>1. /\ f.bifs \in Seq([usable : BOOLEAN, path : Paths]) /\ f.keys \in Seq(Key)
      /\ DOMAIN f.bifs = 1 .. Len(f.bifs) /\ Len(f.bifs) \in Nat
  BY LenProperties DEF KeyFile
<1>2. \A i \in DOMAIN f.bifs : f.bifs[i].path \in Paths
  <2>1. \A i \in DOMAIN f.bifs : f.bifs[i] \in [usable : BOOLEAN, path : Paths]
    BY <1>1, ElementOfSeq
  <2> QED BY <2>1
<1>3. \A i \in DOMAIN f.bifs : ReaderOK(Opened(bif[f.bifs[i].path]))
  BY <1>2, OpenedOK DEF KeyOpens
<1>4. k = [bifs |-> [i \in DOMAIN f.bifs |-> Opened(bif[f.bifs[i].path])], dir |-> f.keys]
  BY DEF KeyOpened
<1>5. k.bifs \in Seq(Reader)
  <2>1. \A i \in 1 .. Len(f.bifs) : Opened(bif[f.bifs[i].path]) \in Reader
    BY <1>1, <1>3 DEF ReaderOK
  <2>2. [i \in 1 .. Len(f.bifs) |-> Opened(bif[f.bifs[i].path])] \in Seq(Reader)
    BY <1>1, <2>1, IsASeq
  <2> QED BY <1>1, <1>4, <2>2
<1>6. k \in KeyReader
  BY <1>1, <1>4, <1>5 DEF KeyReader
<1>7. \A i \in DOMAIN f.keys :
        /\ f.keys[i].bif + 1 \in DOMAIN f.bifs
        /\ Listed(Opened(bif[f.bifs[f.keys[i].bif + 1].path]).dir, f.keys[i].file)
  BY DEF KeyOpens, KeysInRange
<1>8. \A b \in DOMAIN k.bifs : k.bifs[b] = Opened(bif[f.bifs[b].path])
  BY <1>4
<1>9. DOMAIN k.bifs = DOMAIN f.bifs /\ k.dir = f.keys
  BY <1>4
<1> HIDE DEF k
<1>10. \A b \in DOMAIN k.bifs : ReaderOK(k.bifs[b])
  BY <1>3, <1>8, <1>9
<1>11. \A i \in DOMAIN k.dir : /\ k.dir[i].bif + 1 \in DOMAIN k.bifs
                              /\ Listed(k.bifs[k.dir[i].bif + 1].dir, k.dir[i].file)
  <2> SUFFICES ASSUME NEW i \in DOMAIN k.dir
               PROVE /\ k.dir[i].bif + 1 \in DOMAIN k.bifs
                     /\ Listed(k.bifs[k.dir[i].bif + 1].dir, k.dir[i].file)
    OBVIOUS
  <2>1. k.dir[i].bif + 1 \in DOMAIN f.bifs
    BY <1>7, <1>9
  <2> QED BY <1>7, <1>8, <1>9, <2>1
<1>12. KeyOK(k)
  BY <1>6, <1>10, <1>11 DEF KeyOK
<1> QED BY <1>12 DEF k

(* What a handle of a key file is asked, the bif behind it answers. *)
LEMMA ReadsKey ==
    ASSUME NEW k, KeyOK(k), NEW h \in DOMAIN k.dir, NEW offset \in Nat, NEW n \in Nat
    PROVE  LET e == EntryOf(k, h)
               read == KeyRead(k, h, offset, n)
           IN /\ KeyOK(read.reader) /\ SameDirs(read.reader, k)
              /\ read.bytes = IF offset < e.size
                              THEN Bytes(e.offset + offset, Minimum(n, e.size - offset))
                              ELSE NoBytes
              /\ Behind(k, h) /\ KeySize(k, h) = e.size
              /\ KeyAccessorName(k, h) = k.dir[h].bif
<1> DEFINE b == k.dir[h].bif + 1
           i == k.dir[h].file + 1
           r == k.bifs[b]
           read == BifRead(r, i, offset, n)
<1>1. /\ k.dir \in Seq(Key) /\ k.bifs \in Seq(Reader)
      /\ k = [bifs |-> k.bifs, dir |-> k.dir]
  BY DEF KeyOK, KeyReader
<1>2. k.dir[h].file \in Nat /\ k.dir[h].bif \in Nat /\ h \in Int
  <2>1. DOMAIN k.dir = 1 .. Len(k.dir) /\ Len(k.dir) \in Nat
    BY <1>1, LenProperties
  <2>2. k.dir[h] \in Key
    BY <1>1, <2>1, ElementOfSeq
  <2> QED BY <2>1, <2>2 DEF Key
<1>3. b \in DOMAIN k.bifs /\ ReaderOK(r) /\ i \in DOMAIN r.dir
  BY DEF KeyOK, Listed
<1>4. Listed(k.dir, h - 1)
  <2>1. (h - 1) + 1 = h
    BY <1>2
  <2> QED BY <2>1 DEF Listed
<1>5. BifHandle(k, h) = i
  <2>1. r.dir[i].id % IdMod = k.dir[h].file
    <3>1. i - 1 = k.dir[h].file
      BY <1>2
    <3> QED BY <1>3, <3>1 DEF ReaderOK
  <2>2. Listed(r.dir, k.dir[h].file)
    BY <1>3 DEF Listed
  <2> QED BY <2>1, <2>2 DEF BifHandle, BifOpenFileByIndex
<1>6. i # INVALID_FILE
  BY <1>2 DEF INVALID_FILE
<1>7. Behind(k, h)
  BY <1>4, <1>5, <1>6 DEF Behind
<1>8. KeySize(k, h) = EntryOf(k, h).size
  <2>1. Listed(r.dir, i - 1)
    <3>1. (i - 1) + 1 = i
      BY <1>2
    <3> QED BY <1>3, <3>1 DEF Listed
  <2> QED BY <1>5, <1>7, <2>1 DEF KeySize, BifSize, EntryOf
<1>9. KeyAccessorName(k, h) = k.dir[h].bif
  BY <1>7 DEF KeyAccessorName
<1>10. KeyRead(k, h, offset, n) = [reader |-> [k EXCEPT !.bifs[b] = read.reader], bytes |-> read.bytes]
  BY <1>5, <1>7 DEF KeyRead
<1>11. /\ ReaderOK(read.reader) /\ read.reader.dir = r.dir
       /\ read.bytes = IF offset < r.dir[i].size
                       THEN Bytes(r.dir[i].offset + offset, Minimum(n, r.dir[i].size - offset))
                       ELSE NoBytes
  BY <1>3, ReadsEntry
<1> DEFINE bifs == [k.bifs EXCEPT ![b] = read.reader]
           l == [k EXCEPT !.bifs[b] = read.reader]
<1>12. l = [bifs |-> bifs, dir |-> k.dir]
  BY <1>1
<1>13. /\ bifs \in Seq(Reader) /\ DOMAIN bifs = DOMAIN k.bifs
       /\ \A c \in DOMAIN k.bifs : bifs[c] = IF c = b THEN read.reader ELSE k.bifs[c]
  <2>1. read.reader \in Reader
    BY <1>11 DEF ReaderOK
  <2> HIDE DEF read, b
  <2> QED BY <1>1, <1>3, <2>1, ExceptSeq
<1> HIDE DEF bifs
<1>14. SameDirs(l, k)
  BY <1>11, <1>12, <1>13 DEF SameDirs
<1>15. KeyOK(l)
  <2>1. l \in KeyReader
    BY <1>1, <1>12, <1>13 DEF KeyReader
  <2> QED BY <1>11, <1>12, <1>13, <2>1 DEF KeyOK
<1>16. /\ KeyRead(k, h, offset, n).reader = l
       /\ KeyRead(k, h, offset, n).bytes = read.bytes
  BY <1>10
<1>17. EntryOf(k, h) = r.dir[i]
  BY DEF EntryOf
<1> HIDE DEF l, read, r, i, b
<1> QED BY <1>7, <1>8, <1>9, <1>11, <1>14, <1>15, <1>16, <1>17

-----------------------------------------------------------------------------
(* The manager. *)

KeysOK == \A k \in DOMAIN keyFiles : KeyOK(keyFiles[k])

(* What DiscoverResources has been through. *)
Seen(f) == f[1] > provider \/ (f[1] = provider /\ f[2] >= curId)

(* The index has the files seen, each entry under its own name, and leads  *)
(* to the most precedent one.                                              *)
Indexed ==
    /\ phase = "loading" => provider = 0 /\ curId = 0 /\ entries = <<>> /\ ids = <<>>
    /\ phase = "serving" => provider = 0 /\ curId = 0
    /\ IsFiniteSet(DOMAIN ids) /\ Cardinality(DOMAIN ids) = Len(entries)
    /\ \A j \in DOMAIN entries :
         LET f == FileOf(entries[j]) IN
         /\ f \in Files /\ IdOf(f[1], f[2]) \in DOMAIN ids
         /\ ids[IdOf(f[1], f[2])] = j - 1
    /\ \A id \in DOMAIN ids : LET f == FileOf(entries[ids[id] + 1]) IN MostPrecedent(f, id) /\ Seen(f)
    /\ phase # "loading" => \A f \in Files : Seen(f) => IdOf(f[1], f[2]) \in DOMAIN ids

(* Handles are open on entries of the archives. *)
HandlesOK ==
    /\ phase # "serving" => handles = <<>>
    /\ \A h \in DOMAIN handles :
         /\ handles[h].accessor \in DOMAIN keyFiles
         /\ handles[h].handle \in DOMAIN Accessor(h).dir
         /\ handles[h].type = Accessor(h).dir[handles[h].handle].type

ManagerInv == ManagerTypeOK /\ KeysOK /\ Indexed /\ HandlesOK

(* The position each reader believes its file to have is the one it has.   *)
LEMMA KeysPositions == KeysOK => PositionsAgree
BY DEF KeysOK, KeyOK, ReaderOK, PositionsAgree

(* Files are places in the directories of the archives. *)
LEMMA FilesAre ==
    ASSUME keyFiles \in Seq(KeyReader)
    PROVE  /\ DOMAIN keyFiles = 1 .. Len(keyFiles) /\ Len(keyFiles) \in Nat
           /\ \A k \in DOMAIN keyFiles : /\ Count(keyFiles[k]) \in Nat
                                         /\ DOMAIN keyFiles[k].dir = 1 .. Count(keyFiles[k])
                                         /\ keyFiles[k].dir \in Seq(Key)
           /\ \A f : f \in Files <=> \E k \in DOMAIN keyFiles : \E i \in 0 .. Count(keyFiles[k]) - 1 : f = <<k, i>>
           /\ \A f \in Files : /\ f[1] \in DOMAIN keyFiles /\ f[2] \in Nat /\ f = <<f[1], f[2]>>
                               /\ f[2] <= Count(keyFiles[f[1]]) - 1
                               /\ f[2] + 1 \in DOMAIN keyFiles[f[1]].dir
<1>1. DOMAIN keyFiles = 1 .. Len(keyFiles) /\ Len(keyFiles) \in Nat
  BY LenProperties
<1>2. \A k \in DOMAIN keyFiles : keyFiles[k] \in KeyReader
  BY <1>1, ElementOfSeq
<1>3. \A k \in DOMAIN keyFiles : keyFiles[k].dir \in Seq(Key)
  BY <1>2 DEF KeyReader
<1>4. \A k \in DOMAIN keyFiles : /\ Count(keyFiles[k]) \in Nat
                                /\ DOMAIN keyFiles[k].dir = 1 .. Count(keyFiles[k])
  BY <1>3, LenProperties DEF Count
<1>5. \A f : f \in Files <=> \E k \in DOMAIN keyFiles : \E i \in 0 .. Count(keyFiles[k]) - 1 : f = <<k, i>>
  BY DEF Files
<1>6. ASSUME NEW f \in Files
      PROVE /\ f[1] \in DOMAIN keyFiles /\ f[2] \in Nat /\ f = <<f[1], f[2]>>
            /\ f[2] <= Count(keyFiles[f[1]]) - 1
            /\ f[2] + 1 \in DOMAIN keyFiles[f[1]].dir
  <2>1. PICK k \in DOMAIN keyFiles : \E i \in 0 .. Count(keyFiles[k]) - 1 : f = <<k, i>>
    BY <1>5
  <2>2. PICK i \in 0 .. Count(keyFiles[k]) - 1 : f = <<k, i>>
    BY <2>1
  <2>3. i \in Nat /\ i <= Count(keyFiles[k]) - 1 /\ i + 1 \in 1 .. Count(keyFiles[k])
    BY <1>4
  <2> QED BY <1>4, <2>2, <2>3
<1> QED BY <1>1, <1>3, <1>4, <1>5, <1>6

(* Behind every file of an index lies the resource its key names. *)
LEMMA KeysBehind == KeysOK /\ keyFiles \in Seq(KeyReader) => FilesBehind
<1> SUFFICES ASSUME KeysOK, keyFiles \in Seq(KeyReader), NEW f \in Files
             PROVE LET k == keyFiles[f[1]]
                       r == k.bifs[k.dir[f[2] + 1].bif + 1]
                   IN /\ k.dir[f[2] + 1].bif + 1 \in DOMAIN k.bifs
                      /\ Behind(k, f[2] + 1)
                      /\ \A offset \in Offsets, n \in Lengths :
                           offset < KeySize(k, f[2] + 1) => KeyRead(k, f[2] + 1, offset, n).bytes.ok
  BY DEF FilesBehind
<1> DEFINE k == keyFiles[f[1]]
           h == f[2] + 1
<1>1. KeyOK(k) /\ h \in DOMAIN k.dir
  BY FilesAre DEF KeysOK
<1> HIDE DEF k, h
<1>2. k.dir[h].bif + 1 \in DOMAIN k.bifs
  BY <1>1 DEF KeyOK
<1>3. Behind(k, h)
  <2>1. 0 \in Nat
    OBVIOUS
  <2> QED BY <1>1, <2>1, ReadsKey
<1>4. ASSUME NEW offset \in Offsets, NEW n \in Lengths, offset < KeySize(k, h)
      PROVE KeyRead(k, h, offset, n).bytes.ok
  <2>1. offset \in Nat /\ n \in Nat
    BY ManagerAssumption
  <2>2. KeyRead(k, h, offset, n).bytes =
          Bytes(EntryOf(k, h).offset + offset, Minimum(n, EntryOf(k, h).size - offset))
    BY <1>1, <1>4, <2>1, ReadsKey
  <2> QED BY <2>2 DEF Bytes
<1> QED BY <1>2, <1>3, <1>4 DEF k, h

-----------------------------------------------------------------------------
(* Loading and indexing. *)

(* An archive that cannot be opened is left out, one that can is right. *)
LEMMA LoadStep == ManagerInv /\ LoadKey => ManagerInv'
<1> SUFFICES ASSUME ManagerInv, LoadKey PROVE ManagerInv'
  OBVIOUS
<1> DEFINE f == disk.key[KeyList[todo]]
<1>1. /\ phase = "loading" /\ provider = 0 /\ curId = 0 /\ entries = <<>> /\ ids = <<>> /\ handles = <<>>
      /\ keyFiles \in Seq(KeyReader) /\ disk \in Disks /\ todo \in 1 .. Len(KeyList)
      /\ nextHandle \in 0 .. HandleMod - 1
  <2>1. todo > 0 /\ todo \in 0 .. Len(KeyList) /\ Len(KeyList) \in Nat
    BY ManagerAssumption, LenProperties DEF ManagerInv, ManagerTypeOK, LoadKey
  <2>2. phase = "loading"
    BY DEF LoadKey
  <2> QED BY <2>1, <2>2 DEF ManagerInv, ManagerTypeOK, Indexed, HandlesOK
<1>2. /\ phase' = "loading" /\ provider' = 0 /\ curId' = 0 /\ entries' = <<>> /\ ids' = <<>> /\ handles' = <<>>
      /\ disk' = disk /\ todo' = todo - 1 /\ nextHandle' = nextHandle
  BY <1>1 DEF LoadKey, indexing, serving
<1>3. keyFiles' \in Seq(KeyReader) /\ KeysOK'
  <2>1. f \in KeyFile(Paths) /\ disk.bif \in [Paths -> File]
    <3>1. KeyList[todo] \in {KeyList[i] : i \in DOMAIN KeyList}
      BY <1>1, ManagerAssumption, LenProperties
    <3> QED BY <1>1, <3>1, ManagerAssumption
  <2>2. CASE KeyOpens(f, disk.bif)
    <3> DEFINE k == KeyOpened(f, disk.bif)
    <3>1. KeyOK(k)
      BY <1>1, <2>1, <2>2, ManagerAssumption, KeyOpenedOK
    <3>2. keyFiles' = Append(keyFiles, k)
      BY <2>2 DEF LoadKey
    <3> HIDE DEF k
    <3>3. k \in KeyReader
      BY <3>1 DEF KeyOK
    <3>4. /\ keyFiles' \in Seq(KeyReader) /\ Len(keyFiles') = Len(keyFiles) + 1
          /\ \A i \in 1 .. Len(keyFiles) : keyFiles'[i] = keyFiles[i]
          /\ keyFiles'[Len(keyFiles) + 1] = k
      BY <1>1, <3>2, <3>3, AppendProperties
    <3>5. \A i \in DOMAIN keyFiles' : i \in DOMAIN keyFiles \/ i = Len(keyFiles) + 1
      BY <1>1, <3>4, LenProperties
    <3>6. DOMAIN keyFiles = 1 .. Len(keyFiles)
      BY <1>1, LenProperties
    <3>7. \A i \in DOMAIN keyFiles' : KeyOK(keyFiles'[i])
      BY <3>1, <3>4, <3>5, <3>6 DEF ManagerInv, KeysOK
    <3> QED BY <3>4, <3>7 DEF KeysOK
  <2>3. CASE ~KeyOpens(f, disk.bif)
    <3>1. keyFiles' = keyFiles
      BY <2>3 DEF LoadKey
    <3> QED BY <1>1, <3>1 DEF ManagerInv, KeysOK
  <2> QED BY <2>2, <2>3
<1>4. ManagerTypeOK'
  <2>1. DOMAIN ids' = {} /\ DOMAIN handles' = {}
    BY <1>2
  <2>2. Len(keyFiles') \in Nat
    BY <1>3, LenProperties
  <2>3. entries' \in Seq([accessor : 1 .. Len(keyFiles'), index : Nat])
    BY <1>2
  <2>4. Len(KeyList) \in Nat /\ todo' \in 0 .. Len(KeyList)
    BY <1>1, <1>2, ManagerAssumption, LenProperties
  <2>5. provider' \in 0 .. Len(keyFiles') /\ curId' \in 0 .. CountOf(provider)'
    BY <1>2, <2>2 DEF CountOf
  <2> QED BY <1>1, <1>2, <1>3, <2>1, <2>2, <2>3, <2>4, <2>5 DEF ManagerTypeOK
<1>5. Indexed'
  <2>1. DOMAIN ids' = {} /\ DOMAIN entries' = {} /\ Len(entries') = 0
    BY <1>2
  <2>2. IsFiniteSet(DOMAIN ids') /\ Cardinality(DOMAIN ids') = Len(entries')
    BY <2>1, FS_EmptySet
  <2> QED BY <1>2, <2>1, <2>2 DEF Indexed
<1>6. HandlesOK'
  <2>1. DOMAIN handles' = {}
    BY <1>2
  <2> QED BY <1>2, <2>1 DEF HandlesOK
<1> QED BY <1>3, <1>4, <1>5, <1>6 DEF ManagerInv

(* While files are indexed the archives stay, and no handle is open. *)
LEMMA ArchivesStay ==
    ASSUME ManagerInv, phase # "serving", UNCHANGED <<disk, loading, serving>>,
           provider' \in 0 .. Len(keyFiles), curId' \in 0 .. CountOf(provider'),
           phase' \in {"indexing", "serving"}
    PROVE  /\ KeysOK' /\ HandlesOK'
           /\ keyFiles' = keyFiles /\ Files' = Files
           /\ (/\ entries' \in Seq([accessor : 1 .. Len(keyFiles), index : Nat])
               /\ DOMAIN ids' \subseteq Ids
               /\ \A id \in DOMAIN ids' : ids'[id] \in 0 .. Len(entries') - 1) => ManagerTypeOK'
<1>1. handles = <<>> /\ handles' = <<>> /\ nextHandle' = nextHandle
  BY DEF ManagerInv, HandlesOK, serving
<1>2. keyFiles' = keyFiles /\ todo' = todo /\ disk' = disk
  BY DEF loading
<1>3. DOMAIN handles' = {}
  BY <1>1
<1>4. KeysOK' /\ HandlesOK'
  BY <1>1, <1>2, <1>3 DEF ManagerInv, KeysOK, HandlesOK
<1>5. Files' = Files
  BY <1>2 DEF Files
<1>6. CountOf(provider)' = CountOf(provider')
  BY <1>2 DEF CountOf
<1> QED BY <1>1, <1>2, <1>3, <1>4, <1>5, <1>6 DEF ManagerInv, ManagerTypeOK

(* No file is seen when the index is begun. *)
LEMMA DiscoverStep == ManagerInv /\ DiscoverResources => ManagerInv'
<1> SUFFICES ASSUME ManagerInv, DiscoverResources PROVE ManagerInv'
  OBVIOUS
<1>1. /\ phase = "loading" /\ phase' = "indexing"
      /\ provider' = Len(keyFiles) /\ curId' = CountOf(Len(keyFiles))
      /\ UNCHANGED <<disk, loading, entries, ids, serving>>
  BY DEF DiscoverResources
<1>2. keyFiles \in Seq(KeyReader) /\ entries = <<>> /\ ids = <<>>
  BY <1>1 DEF ManagerInv, ManagerTypeOK, Indexed
<1>3. Len(keyFiles) \in Nat /\ CountOf(Len(keyFiles)) \in Nat
  BY <1>2, FilesAre DEF CountOf
<1>4. DOMAIN ids' = {} /\ DOMAIN entries' = {} /\ Len(entries') = 0 /\ entries' = <<>>
  BY <1>1, <1>2
<1>5. /\ KeysOK' /\ HandlesOK' /\ ManagerTypeOK' /\ Files' = Files
  <2>1. entries' \in Seq([accessor : 1 .. Len(keyFiles), index : Nat])
    BY <1>4
  <2> QED BY <1>1, <1>3, <1>4, <2>1, ArchivesStay
<1>6. \A f \in Files' : ~Seen(f)'
  <2> SUFFICES ASSUME NEW f \in Files PROVE ~Seen(f)'
    BY <1>5
  <2>1. f[1] \in 1 .. Len(keyFiles) /\ f[2] \in Nat /\ f[2] <= Count(keyFiles[f[1]]) - 1
    BY <1>2, FilesAre
  <2>2. f[1] = Len(keyFiles) => curId' = Count(keyFiles[f[1]])
    BY <1>1, <2>1 DEF CountOf
  <2>3. Count(keyFiles[f[1]]) \in Nat
    BY <1>2, <2>1, FilesAre
  <2> QED BY <1>1, <1>3, <2>1, <2>2, <2>3 DEF Seen
<1>7. Indexed'
  <2>1. IsFiniteSet(DOMAIN ids') /\ Cardinality(DOMAIN ids') = Len(entries')
    BY <1>4, FS_EmptySet
  <2> QED BY <1>1, <1>4, <1>6, <2>1 DEF Indexed
<1> QED BY <1>5, <1>7 DEF ManagerInv

(* One file: a name that is new is claimed, one that is known stays with   *)
(* the file that was seen before it.                                       *)
LEMMA IndexStep == ManagerInv /\ IndexFile => ManagerInv'
<1> SUFFICES ASSUME ManagerInv, IndexFile PROVE ManagerInv'
  OBVIOUS
<1> DEFINE f0 == <<provider, curId - 1>>
           id == IdOf(provider, curId - 1)
           entry == [accessor |-> provider, index |-> curId - 1]
<1>1. /\ phase = "indexing" /\ phase' = "indexing" /\ curId > 0 /\ curId' = curId - 1 /\ provider' = provider
      /\ UNCHANGED <<disk, loading, serving>>
  BY DEF IndexFile
<1>2. /\ keyFiles \in Seq(KeyReader) /\ provider \in 0 .. Len(keyFiles) /\ curId \in 0 .. CountOf(provider)
      /\ Len(entries) \in Nat /\ DOMAIN entries = 1 .. Len(entries)
      /\ entries \in Seq([accessor : 1 .. Len(keyFiles), index : Nat])
      /\ \A i \in DOMAIN ids : ids[i] \in 0 .. Len(entries) - 1
  BY LenProperties DEF ManagerInv, ManagerTypeOK
<1>3. /\ provider \in DOMAIN keyFiles /\ curId \in 1 .. Count(keyFiles[provider])
      /\ Count(keyFiles[provider]) \in Nat
  <2>1. Len(keyFiles) \in Nat /\ DOMAIN keyFiles = 1 .. Len(keyFiles)
    BY <1>2, FilesAre
  <2>2. provider # 0
    BY <1>1, <1>2 DEF CountOf
  <2>3. provider \in DOMAIN keyFiles
    BY <1>2, <2>1, <2>2
  <2>4. Count(keyFiles[provider]) \in Nat
    BY <1>2, <2>3, FilesAre
  <2> QED BY <1>1, <1>2, <2>2, <2>3, <2>4 DEF CountOf
<1>4. f0 \in Files
  <2>1. curId - 1 \in 0 .. Count(keyFiles[provider]) - 1
    BY <1>3
  <2> QED BY <1>2, <1>3, <2>1, FilesAre
<1>5. id \in Ids
  <2>1. curId - 1 \in Int /\ (curId - 1) + 1 = curId /\ curId \in DOMAIN keyFiles[provider].dir
    BY <1>2, <1>3, FilesAre
  <2>2. keyFiles[provider].dir \in Seq(Key)
    BY <1>2, <1>3, FilesAre
  <2>3. keyFiles[provider].dir[curId] \in Key
    BY <2>1, <2>2, ElementOfSeq, LenProperties
  <2> QED BY <2>1, <2>3 DEF IdOf, KeyFileEntry, Ids, Key
<1>6. \A f \in Files : Seen(f)' <=> (Seen(f) \/ f = f0)
  <2> SUFFICES ASSUME NEW f \in Files PROVE Seen(f)' <=> (Seen(f) \/ f = f0)
    OBVIOUS
  <2>1. f[1] \in Nat /\ f[2] \in Nat /\ f = <<f[1], f[2]>>
    BY <1>2, FilesAre
  <2>2. f = f0 <=> f[1] = provider /\ f[2] = curId - 1
    BY <2>1
  <2> QED BY <1>1, <1>2, <1>3, <2>1, <2>2 DEF Seen
<1>7. provider \in 0 .. Len(keyFiles) /\ curId' \in 0 .. CountOf(provider')
  BY <1>1, <1>2, <1>3 DEF CountOf
<1>8. /\ KeysOK' /\ HandlesOK' /\ keyFiles' = keyFiles /\ Files' = Files
  BY <1>1, <1>7, ArchivesStay
<1>9. /\ \A k, i : IdOf(k, i)' = IdOf(k, i)
      /\ \A f, i : MostPrecedent(f, i)' <=> MostPrecedent(f, i)
  BY <1>8 DEF IdOf, MostPrecedent
<1>10. CASE id \in DOMAIN ids
  <2>1. entries' = entries /\ ids' = ids
    BY <1>10 DEF IndexFile, Index
  <2>2. ManagerTypeOK'
    BY <1>1, <1>2, <1>7, <2>1, ArchivesStay DEF ManagerInv, ManagerTypeOK
  <2>3. Indexed'
    <3>1. ASSUME NEW i \in DOMAIN ids, NEW f, f = FileOf(entries[ids[i] + 1])
          PROVE  MostPrecedent(f, i)' /\ Seen(f)'
      <4>1. MostPrecedent(f, i) /\ Seen(f)
        BY <3>1 DEF ManagerInv, Indexed
      <4>2. ids[i] + 1 \in DOMAIN entries
        BY <1>2
      <4>3. f \in Files
        BY <3>1, <4>2 DEF ManagerInv, Indexed
      <4> QED BY <1>6, <1>9, <4>1, <4>3
    <3>2. \A f \in Files' : Seen(f)' => IdOf(f[1], f[2])' \in DOMAIN ids'
      BY <1>1, <1>6, <1>8, <1>9, <1>10, <2>1 DEF ManagerInv, Indexed
    <3> QED BY <1>1, <1>8, <1>9, <2>1, <3>1, <3>2 DEF ManagerInv, Indexed
  <2> QED BY <1>8, <2>2, <2>3 DEF ManagerInv
<1>11. CASE id \notin DOMAIN ids
  <2>1. /\ entries' = Append(entries, entry)
        /\ ids' = [i \in DOMAIN ids \cup {id} |-> IF i = id THEN Len(entries) ELSE ids[i]]
    BY <1>11 DEF IndexFile, Index, Claim
  <2>2. entry \in [accessor : 1 .. Len(keyFiles), index : Nat]
    <3>1. provider \in 1 .. Len(keyFiles) /\ curId - 1 \in Nat
      BY <1>2, <1>3, FilesAre
    <3> QED BY <3>1
  <2> HIDE DEF entry
  <2>3. /\ entries' \in Seq([accessor : 1 .. Len(keyFiles), index : Nat])
        /\ Len(entries') = Len(entries) + 1
        /\ \A j \in 1 .. Len(entries) : entries'[j] = entries[j]
        /\ entries'[Len(entries) + 1] = entry
    BY <1>2, <2>1, <2>2, AppendProperties
  <2>4. DOMAIN entries' = 1 .. Len(entries) + 1
    BY <2>3, LenProperties
  <2> HIDE DEF id
  <2>5. /\ DOMAIN ids' = DOMAIN ids \cup {id} /\ ids'[id] = Len(entries)
        /\ \A i \in DOMAIN ids : ids'[i] = ids[i]
    BY <1>11, <2>1
  <2>6. FileOf(entry) = f0
    BY DEF FileOf, entry
  <2>7. ManagerTypeOK'
    <3>1. DOMAIN ids' \subseteq Ids
      BY <1>5, <2>5 DEF ManagerInv, ManagerTypeOK
    <3>2. \A i \in DOMAIN ids' : ids'[i] \in 0 .. Len(entries') - 1
      BY <1>2, <2>3, <2>5
    <3> QED BY <1>1, <1>7, <2>3, <3>1, <3>2, ArchivesStay
  <2>8. IsFiniteSet(DOMAIN ids') /\ Cardinality(DOMAIN ids') = Len(entries')
    <3>1. IsFiniteSet(DOMAIN ids) /\ Cardinality(DOMAIN ids) = Len(entries)
      BY DEF ManagerInv, Indexed
    <3>2. /\ IsFiniteSet(DOMAIN ids \cup {id})
          /\ Cardinality(DOMAIN ids \cup {id}) = Cardinality(DOMAIN ids) + 1
      BY <1>11, <3>1, FS_AddElement
    <3> QED BY <2>3, <2>5, <3>1, <3>2
  <2>9. ASSUME NEW j \in DOMAIN entries'
        PROVE LET f == FileOf(entries'[j]) IN
                f \in Files /\ IdOf(f[1], f[2]) \in DOMAIN ids' /\ ids'[IdOf(f[1], f[2])] = j - 1
    <3>1. CASE j \in 1 .. Len(entries)
      BY <1>2, <2>3, <2>5, <3>1 DEF ManagerInv, Indexed
    <3>2. CASE j = Len(entries) + 1
      <4>1. IdOf(f0[1], f0[2]) = id
        BY DEF id
      <4>2. j - 1 = Len(entries)
        BY <1>2, <3>2
      <4> QED BY <1>4, <2>3, <2>5, <2>6, <3>2, <4>1, <4>2
    <3> QED BY <1>2, <2>4, <3>1, <3>2
  <2>10. ASSUME NEW i \in DOMAIN ids', NEW f, f = FileOf(entries'[ids'[i] + 1])
         PROVE  MostPrecedent(f, i)' /\ Seen(f)'
    <3>1. CASE i \in DOMAIN ids
      <4>1. ids[i] + 1 \in 1 .. Len(entries)
        BY <1>2, <3>1
      <4>2. f = FileOf(entries[ids[i] + 1])
        BY <2>3, <2>5, <2>10, <3>1, <4>1
      <4>3. MostPrecedent(f, i) /\ Seen(f)
        BY <3>1, <4>2 DEF ManagerInv, Indexed
      <4>4. f \in Files
        BY <1>2, <4>1, <4>2 DEF ManagerInv, Indexed
      <4> QED BY <1>6, <1>9, <4>3, <4>4
    <3>2. CASE i = id
      <4>1. f = f0
        BY <2>3, <2>5, <2>6, <2>10, <3>2
      <4>2. \A g \in Files : IdOf(g[1], g[2]) = id => (g[1] < f0[1] \/ (g[1] = f0[1] /\ g[2] <= f0[2]))
        <5> SUFFICES ASSUME NEW g \in Files, IdOf(g[1], g[2]) = id
                     PROVE g[1] < provider \/ (g[1] = provider /\ g[2] <= curId - 1)
          OBVIOUS
        <5>1. ~Seen(g)
          BY <1>1, <1>11 DEF ManagerInv, Indexed
        <5>2. g[1] \in Nat /\ g[2] \in Nat
          BY <1>2, FilesAre
        <5> QED BY <1>2, <1>3, <5>1, <5>2 DEF Seen
      <4>3. IdOf(f0[1], f0[2]) = id
        BY DEF id
      <4>4. MostPrecedent(f, i)
        BY <3>2, <4>1, <4>2, <4>3 DEF MostPrecedent
      <4> QED BY <1>4, <1>6, <1>9, <4>1, <4>4
    <3> QED BY <2>5, <3>1, <3>2
  <2>11. ASSUME NEW f \in Files', Seen(f)' PROVE IdOf(f[1], f[2])' \in DOMAIN ids'
    <3>1. f \in Files /\ (Seen(f) \/ f = f0)
      BY <1>6, <1>8, <2>11
    <3>2. CASE Seen(f)
      BY <1>1, <1>9, <2>5, <3>1, <3>2 DEF ManagerInv, Indexed
    <3>3. CASE f = f0
      BY <1>9, <2>5, <3>3 DEF id
    <3> QED BY <3>1, <3>2, <3>3
  <2>12. Indexed'
    BY <1>1, <1>8, <1>9, <2>8, <2>9, <2>10, <2>11 DEF Indexed
  <2> QED BY <1>8, <2>7, <2>12 DEF ManagerInv
<1> QED BY <1>10, <1>11

(* Once a provider is through, the files of the next one are still unseen. *)
LEMMA NextProviderStep == ManagerInv /\ NextProvider => ManagerInv'
<1> SUFFICES ASSUME ManagerInv, NextProvider PROVE ManagerInv'
  OBVIOUS
<1>1. /\ phase = "indexing" /\ curId = 0 /\ phase' \in {"indexing", "serving"}
      /\ provider' = (IF provider = 0 THEN 0 ELSE provider - 1)
      /\ curId' = CountOf(provider')
      /\ phase' = "serving" => provider' = 0 /\ curId' = 0
      /\ UNCHANGED <<disk, loading, entries, ids, serving>>
  BY DEF NextProvider, CountOf
<1>2. /\ keyFiles \in Seq(KeyReader) /\ provider \in 0 .. Len(keyFiles) /\ Len(keyFiles) \in Nat
      /\ entries \in Seq([accessor : 1 .. Len(keyFiles), index : Nat]) /\ DOMAIN ids \subseteq Ids
      /\ \A i \in DOMAIN ids : ids[i] \in 0 .. Len(entries) - 1
      /\ Len(entries) \in Nat /\ DOMAIN entries = 1 .. Len(entries)
  BY LenProperties DEF ManagerInv, ManagerTypeOK
<1>3. provider' \in 0 .. Len(keyFiles) /\ curId' \in 0 .. CountOf(provider')
  <2>1. provider' \in 0 .. Len(keyFiles)
    BY <1>1, <1>2
  <2>2. CountOf(provider') \in Nat
    BY <1>2, <2>1, FilesAre DEF CountOf
  <2> QED BY <1>1, <2>1, <2>2
<1>4. KeysOK' /\ HandlesOK' /\ keyFiles' = keyFiles /\ Files' = Files /\ ManagerTypeOK'
  BY <1>1, <1>2, <1>3, ArchivesStay
<1>5. \A f \in Files : Seen(f)' <=> Seen(f)
  <2> SUFFICES ASSUME NEW f \in Files PROVE Seen(f)' <=> Seen(f)
    OBVIOUS
  <2>1. f[1] \in 1 .. Len(keyFiles) /\ f[2] \in Nat /\ f[2] < Count(keyFiles[f[1]])
    <3>1. Count(keyFiles[f[1]]) \in Nat
      BY <1>2, FilesAre
    <3> QED BY <1>2, <3>1, FilesAre
  <2>2. Count(keyFiles[f[1]]) \in Nat
    BY <1>2, FilesAre
  <2>3. f[1] = provider' => curId' = Count(keyFiles[f[1]])
    BY <1>1, <2>1 DEF CountOf
  <2> QED BY <1>1, <1>2, <2>1, <2>2, <2>3 DEF Seen
<1>6. /\ \A k, i : IdOf(k, i)' = IdOf(k, i)
      /\ \A f, i : MostPrecedent(f, i)' <=> MostPrecedent(f, i)
  BY <1>4 DEF IdOf, MostPrecedent
<1>7. ASSUME NEW i \in DOMAIN ids, NEW f, f = FileOf(entries[ids[i] + 1])
      PROVE  MostPrecedent(f, i)' /\ Seen(f)'
  <2>1. MostPrecedent(f, i) /\ Seen(f)
    BY <1>7 DEF ManagerInv, Indexed
  <2>2. ids[i] + 1 \in DOMAIN entries
    BY <1>2
  <2>3. f \in Files
    BY <1>7, <2>2 DEF ManagerInv, Indexed
  <2> QED BY <1>5, <1>6, <2>1, <2>3
<1>8. Indexed'
  BY <1>1, <1>4, <1>5, <1>6, <1>7 DEF ManagerInv, Indexed
<1> QED BY <1>4, <1>8 DEF ManagerInv

-----------------------------------------------------------------------------
(* Serving. *)

(* What is read changes positions only. *)
DirsStay ==
    /\ keyFiles' \in Seq(KeyReader) /\ Len(keyFiles') = Len(keyFiles) /\ KeysOK'
    /\ \A k \in DOMAIN keyFiles : SameDirs(keyFiles'[k], keyFiles[k])

(* The index, which leads to directories, leads to the same resources. *)
LEMMA IndexStays ==
    ASSUME ManagerInv, Serves, DirsStay
    PROVE  /\ Indexed' /\ Catalog' = Catalog /\ Files' = Files
           /\ DOMAIN keyFiles' = DOMAIN keyFiles
           /\ \A f \in Files : ResourceAt(f)' = ResourceAt(f)
           /\ (HandlesOK' /\ nextHandle' \in 0 .. HandleMod - 1 /\ DOMAIN handles' \subseteq Handles
                /\ \A h \in DOMAIN handles' :
                     handles'[h] \in [accessor : 1 .. Len(keyFiles), handle : Nat \ {INVALID_FILE},
                                      type : Types]) => ManagerInv'
<1>1. /\ phase = "serving" /\ phase' = "serving" /\ disk' = disk /\ todo' = todo
      /\ provider' = provider /\ curId' = curId /\ entries' = entries /\ ids' = ids
  BY DEF Serves, indexing
<1>2. /\ keyFiles \in Seq(KeyReader) /\ KeysOK
      /\ entries \in Seq([accessor : 1 .. Len(keyFiles), index : Nat])
      /\ Len(entries) \in Nat /\ DOMAIN entries = 1 .. Len(entries)
      /\ \A i \in DOMAIN ids : ids[i] \in 0 .. Len(entries) - 1
  BY LenProperties DEF ManagerInv, ManagerTypeOK
<1>3. DOMAIN keyFiles' = DOMAIN keyFiles
  BY <1>2, LenProperties DEF DirsStay
<1>4. \A k \in DOMAIN keyFiles : keyFiles'[k].dir = keyFiles[k].dir
  BY DEF DirsStay, SameDirs
<1>5. Files' = Files
  BY <1>3, <1>4 DEF Files, Count
<1>6. \A f \in Files : f[1] \in DOMAIN keyFiles /\ f[2] + 1 \in DOMAIN keyFiles[f[1]].dir
  BY <1>2, FilesAre
<1>7. \A f \in Files : IdOf(f[1], f[2])' = IdOf(f[1], f[2])
  BY <1>4, <1>6 DEF IdOf, KeyFileEntry
<1>8. \A f \in Files : ResourceAt(f)' = ResourceAt(f)
  <2> SUFFICES ASSUME NEW f \in Files PROVE ResourceAt(f)' = ResourceAt(f)
    OBVIOUS
  <2> DEFINE b == keyFiles[f[1]].dir[f[2] + 1].bif + 1
  <2>1. KeyOK(keyFiles[f[1]]) /\ SameDirs(keyFiles'[f[1]], keyFiles[f[1]])
    BY <1>2, <1>6 DEF KeysOK, DirsStay
  <2>2. b \in DOMAIN keyFiles[f[1]].bifs
    BY <1>6, <2>1 DEF KeyOK
  <2>3. keyFiles'[f[1]].bifs[b].dir = keyFiles[f[1]].bifs[b].dir
    BY <2>1, <2>2 DEF SameDirs
  <2>4. keyFiles'[f[1]].dir = keyFiles[f[1]].dir
    BY <1>4, <1>6
  <2> QED BY <2>3, <2>4 DEF ResourceAt
<1>9. \A f \in Files : Seen(f)' <=> Seen(f)
  BY <1>1 DEF Seen
<1>10. \A i \in DOMAIN ids : FileOf(entries[ids[i] + 1]) \in Files
  <2>1. \A i \in DOMAIN ids : ids[i] + 1 \in DOMAIN entries
    BY <1>2
  <2> QED BY <2>1 DEF ManagerInv, Indexed
<1>11. \A f \in Files : \A i : MostPrecedent(f, i)' <=> MostPrecedent(f, i)
  BY <1>5, <1>7 DEF MostPrecedent
<1>12. Indexed'
  <2>1. ASSUME NEW i \in DOMAIN ids, NEW f, f = FileOf(entries[ids[i] + 1])
        PROVE  MostPrecedent(f, i)' /\ Seen(f)'
    <3>1. MostPrecedent(f, i) /\ Seen(f)
      BY <2>1 DEF ManagerInv, Indexed
    <3> QED BY <1>9, <1>10, <1>11, <2>1, <3>1
  <2>2. ASSUME NEW j \in DOMAIN entries, NEW f, f = FileOf(entries[j])
        PROVE  f \in Files' /\ IdOf(f[1], f[2])' \in DOMAIN ids' /\ ids'[IdOf(f[1], f[2])'] = j - 1
    <3>1. f \in Files /\ IdOf(f[1], f[2]) \in DOMAIN ids /\ ids[IdOf(f[1], f[2])] = j - 1
      BY <2>2 DEF ManagerInv, Indexed
    <3> QED BY <1>1, <1>5, <1>7, <3>1
  <2>3. ASSUME NEW f \in Files', Seen(f)' PROVE IdOf(f[1], f[2])' \in DOMAIN ids'
    BY <1>1, <1>5, <1>7, <1>9, <2>3 DEF ManagerInv, Indexed
  <2> QED BY <1>1, <2>1, <2>2, <2>3 DEF ManagerInv, Indexed
<1>13. Catalog' = Catalog
  BY <1>1, <1>8, <1>10 DEF Catalog
<1>14. KeysOK' /\ CountOf(provider)' = 0
  BY <1>1 DEF DirsStay, CountOf, ManagerInv, Indexed
<1> HIDE DEF Indexed
<1>15. (HandlesOK' /\ nextHandle' \in 0 .. HandleMod - 1 /\ DOMAIN handles' \subseteq Handles
        /\ \A h \in DOMAIN handles' :
             handles'[h] \in [accessor : 1 .. Len(keyFiles), handle : Nat \ {INVALID_FILE},
                              type : Types]) => ManagerInv'
  <2>1. Len(keyFiles') = Len(keyFiles) /\ keyFiles' \in Seq(KeyReader)
    BY DEF DirsStay
  <2>2. provider' = 0 /\ curId' = 0 /\ Len(keyFiles) \in Nat
    BY <1>1, <1>2, LenProperties DEF ManagerInv, Indexed
  <2> QED BY <1>1, <1>12, <1>14, <2>1, <2>2 DEF ManagerInv, ManagerTypeOK
<1> QED BY <1>3, <1>5, <1>8, <1>12, <1>13, <1>15

(* Nothing is read. *)
LEMMA NothingRead == ManagerInv /\ keyFiles' = keyFiles => DirsStay
<1> SUFFICES ASSUME ManagerInv, keyFiles' = keyFiles PROVE DirsStay
  OBVIOUS
<1>1. KeysOK'
  BY DEF ManagerInv, KeysOK
<1> QED BY <1>1 DEF ManagerInv, ManagerTypeOK, DirsStay, SameDirs

(* A handle that is given out is not in use; there is none only if all are. *)
LEMMA AllocateFree ==
    ASSUME nextHandle \in 0 .. HandleMod - 1
    PROVE  \/ Allocate \in Handles \ DOMAIN handles
           \/ Allocate = INVALID_FILE /\ Handles \subseteq DOMAIN handles
<1>1. CASE Free = {}
  BY <1>1 DEF Allocate, Free
<1>2. CASE Free # {}
  <2> DEFINE D == {Distance(h) : h \in Free}
  <2>1. \A h \in Free : Distance(h) \in Nat
    BY ManagerAssumption DEF Free, Handles, Distance
  <2>2. D \subseteq Nat /\ D # {}
    BY <1>2, <2>1
  <2>3. PICK d \in D : \A e \in D : d <= e
    <3> HIDE DEF D
    <3> QED BY <2>2, Least
  <2>4. \E h \in Free : \A g \in Free : Distance(h) <= Distance(g)
    BY <2>3
  <2>5. Allocate \in Free
    <3> HIDE DEF D
    <3> QED BY <1>2, <2>4 DEF Allocate
  <2> QED BY <2>5 DEF Free
<1> QED BY <1>1, <1>2

(* A handle stands for a file of an archive. *)
LEMMA HandlesAre ==
    ASSUME ManagerInv, NEW g \in DOMAIN handles
    PROVE  /\ <<handles[g].accessor, handles[g].handle - 1>> \in Files
           /\ (handles[g].handle - 1) + 1 = handles[g].handle
           /\ handles[g].handle - 1 + 1 = handles[g].handle
<1>1. keyFiles \in Seq(KeyReader)
  BY DEF ManagerInv, ManagerTypeOK
<1>2. /\ handles[g].accessor \in DOMAIN keyFiles
      /\ handles[g].handle \in DOMAIN keyFiles[handles[g].accessor].dir
  BY DEF ManagerInv, HandlesOK, Accessor
<1>3. handles[g].handle \in Int /\ handles[g].handle - 1 \in 0 .. Count(keyFiles[handles[g].accessor]) - 1
  BY <1>1, <1>2, FilesAre
<1> QED BY <1>1, <1>2, <1>3, FilesAre

(* What leaves the handles alone leaves them open on the same resources. *)
LEMMA HandlesStay ==
    ASSUME ManagerInv, Serves, DirsStay, handles' = handles, nextHandle' = nextHandle
    PROVE  ManagerInv' /\ Catalog' = Catalog /\ OpenResources' = OpenResources
<1>1. \A k \in DOMAIN keyFiles : keyFiles'[k].dir = keyFiles[k].dir
  BY DEF DirsStay, SameDirs
<1>2. HandlesOK'
  <2>1. DOMAIN keyFiles' = DOMAIN keyFiles
    BY IndexStays
  <2> QED BY <1>1, <2>1 DEF ManagerInv, HandlesOK, Accessor, Serves
<1>3. ManagerInv' /\ Catalog' = Catalog
  BY <1>2, IndexStays DEF ManagerInv, ManagerTypeOK
<1>4. OpenResources' = OpenResources
  BY HandlesAre, IndexStays DEF OpenResources
<1> QED BY <1>3, <1>4

(* A handle is given out on an entry: the archive opens its resource. *)
LEMMA OpenEntryStep ==
    ASSUME ManagerInv, Serves, keyFiles' = keyFiles,
           NEW j \in DOMAIN entries, OpenEntry(entries[j]),
           NEW id \in DOMAIN ids, ids[id] = j - 1
    PROVE  ManagerInv' /\ Archive!OpenAs(id) /\ Catalog' = Catalog
<1> DEFINE e == entries[j]
           f == FileOf(e)
           h == Allocate
           k == keyFiles[e.accessor]
           inner == KeyOpenFileByIndex(k, e.index)
           open == [accessor |-> e.accessor, handle |-> inner, type |-> k.dir[e.index + 1].type]
<1>1. /\ keyFiles \in Seq(KeyReader) /\ nextHandle \in 0 .. HandleMod - 1
      /\ DOMAIN handles \subseteq Handles /\ phase = "serving" /\ phase' = "serving"
      /\ \A g \in DOMAIN handles :
           handles[g] \in [accessor : 1 .. Len(keyFiles), handle : Nat \ {INVALID_FILE}, type : Types]
  BY DEF ManagerInv, ManagerTypeOK, Serves
<1>2. f \in Files /\ f[1] = e.accessor /\ f[2] = e.index
  BY DEF ManagerInv, Indexed, FileOf
<1>3. /\ e.accessor \in 1 .. Len(keyFiles) /\ e.accessor \in DOMAIN keyFiles /\ e.index \in Nat
      /\ e.index + 1 \in DOMAIN k.dir /\ k.dir \in Seq(Key)
  BY <1>1, <1>2, FilesAre
<1>4. k.dir[e.index + 1].type \in Types
  <2>1. k.dir[e.index + 1] \in Key
    BY <1>3, ElementOfSeq, LenProperties
  <2> QED BY <2>1 DEF Key
<1>5. inner = e.index + 1 /\ inner \in Nat \ {INVALID_FILE}
  BY <1>3 DEF KeyOpenFileByIndex, Listed, INVALID_FILE
<1>6. DirsStay
  BY NothingRead
<1>7. /\ \A g \in Files : ResourceAt(g)' = ResourceAt(g)
      /\ Catalog' = Catalog
  BY <1>6, IndexStays
<1>8. \A g \in DOMAIN handles : <<handles[g].accessor, handles[g].handle - 1>> \in Files
  BY HandlesAre
<1>9. Catalog[id] = ResourceAt(f)
  <2>1. ids[id] + 1 = j
    <3>1. j \in Int
      BY LenProperties DEF ManagerInv, ManagerTypeOK
    <3> QED BY <3>1
  <2> QED BY <1>1, <2>1 DEF Catalog
<1>10. HandleMod \in Nat \ {0, 1} /\ \A g \in Int : Following(g) \in 0 .. HandleMod - 1
  BY ManagerAssumption DEF Following
<1>11. CASE h = INVALID_FILE
  <2>1. Handles \subseteq DOMAIN handles
    BY <1>1, <1>11, AllocateFree DEF Handles, INVALID_FILE
  <2>2. /\ nextHandle' = Following(First) /\ handles' = handles /\ answer' = [op |-> "throws"]
    BY <1>5, <1>11 DEF OpenEntry
  <2>3. nextHandle' \in 0 .. HandleMod - 1
    <3>1. 0 .. HandleMod - 1 \subseteq Int
      BY <1>10
    <3>2. First \in Int
      BY <1>1, <1>10, <3>1 DEF First, INVALID_FILE
    <3> QED BY <1>10, <2>2, <3>2
  <2>4. HandlesOK'
    BY <2>2 DEF ManagerInv, HandlesOK, Accessor, Serves
  <2>5. ManagerInv'
    BY <1>1, <1>6, <2>2, <2>3, <2>4, IndexStays
  <2>6. OpenResources' = OpenResources
    BY <1>7, <1>8, <2>2 DEF OpenResources
  <2>7. DOMAIN OpenResources = DOMAIN handles
    BY DEF OpenResources
  <2> QED BY <1>7, <2>1, <2>2, <2>5, <2>6, <2>7 DEF Archive!OpenAs
<1>12. CASE h # INVALID_FILE
  <2>1. h \in Handles \ DOMAIN handles
    BY <1>1, <1>12, AllocateFree
  <2>2. /\ nextHandle' = Following(h) /\ answer' = [op |-> "open", handle |-> h]
        /\ handles' = [g \in DOMAIN handles \cup {h} |-> IF g = h THEN open ELSE handles[g]]
    BY <1>5, <1>12 DEF OpenEntry
  <2> HIDE DEF h, open
  <2>3. nextHandle' \in 0 .. HandleMod - 1
    BY <1>10, <2>1, <2>2 DEF Handles
  <2>4. /\ DOMAIN handles' = DOMAIN handles \cup {h} /\ handles'[h] = open
        /\ \A g \in DOMAIN handles : handles'[g] = handles[g]
    BY <2>1, <2>2
  <2>5. /\ open \in [accessor : 1 .. Len(keyFiles), handle : Nat \ {INVALID_FILE}, type : Types]
        /\ open.accessor = e.accessor /\ open.handle = e.index + 1
        /\ open.type = k.dir[e.index + 1].type
    BY <1>3, <1>4, <1>5 DEF open
  <2>6. HandlesOK'
    <3>1. ASSUME NEW g \in DOMAIN handles'
          PROVE /\ handles'[g].accessor \in DOMAIN keyFiles
                /\ handles'[g].handle \in DOMAIN keyFiles[handles'[g].accessor].dir
                /\ handles'[g].type = keyFiles[handles'[g].accessor].dir[handles'[g].handle].type
      <4>1. CASE g = h
        BY <1>3, <2>4, <2>5, <4>1
      <4>2. CASE g \in DOMAIN handles
        BY <2>4, <4>2 DEF ManagerInv, HandlesOK, Accessor
      <4> QED BY <2>4, <4>1, <4>2
    <3> QED BY <1>1, <3>1 DEF HandlesOK, Accessor
  <2>7. ManagerInv'
    <3>1. DOMAIN handles' \subseteq Handles
      BY <1>1, <2>1, <2>4
    <3>2. \A g \in DOMAIN handles' :
            handles'[g] \in [accessor : 1 .. Len(keyFiles), handle : Nat \ {INVALID_FILE}, type : Types]
      BY <1>1, <2>4, <2>5
    <3> QED BY <1>6, <2>3, <2>6, <3>1, <3>2, IndexStays
  <2>8. OpenResources' = [g \in DOMAIN OpenResources \cup {h} |->
                            IF g = h THEN Catalog[id] ELSE OpenResources[g]]
    <3>1. DOMAIN OpenResources = DOMAIN handles
      BY DEF OpenResources
    <3>2. <<open.accessor, open.handle - 1>> = f
      <4>1. (e.index + 1) - 1 = e.index
        BY <1>3
      <4> QED BY <1>2, <2>5, <4>1 DEF FileOf
    <3> QED BY <1>2, <1>7, <1>8, <1>9, <2>4, <3>1, <3>2 DEF OpenResources
  <2> QED BY <1>7, <2>1, <2>2, <2>7, <2>8 DEF Archive!OpenAs, OpenResources
<1> QED BY <1>11, <1>12

(* A name that is unknown, or an index that is too large, opens nothing. *)
LEMMA OpenNothingStep ==
    ASSUME ManagerInv, Serves, keyFiles' = keyFiles, OpenNothing
    PROVE  ManagerInv' /\ Archive!OpenNone /\ Catalog' = Catalog
<1>0. DirsStay
  BY NothingRead
<1>1. handles' = handles /\ nextHandle' = nextHandle /\ answer' = [op |-> "open", handle |-> INVALID_FILE]
  BY DEF OpenNothing
<1>2. ManagerInv' /\ Catalog' = Catalog /\ OpenResources' = OpenResources
  BY <1>0, <1>1, HandlesStay
<1> QED BY <1>1, <1>2 DEF Archive!OpenNone

(* The entry of a name is the one the index leads to. *)
LEMMA OpenFileStep ==
    ASSUME ManagerInv, NEW type \in Types, NEW name \in Names, OpenFile(type, name)
    PROVE  ManagerInv' /\ \E id \in Ids : Archive!Open(id)
<1> DEFINE id == <<type, Lower[name]>>
<1>1. Serves /\ keyFiles' = keyFiles /\ phase = "serving"
  BY DEF OpenFile, Serves
<1>2. id \in Ids
  BY ManagerAssumption DEF Ids
<1>3. DOMAIN Catalog = DOMAIN ids
  BY <1>1 DEF Catalog
<1>4. CASE id \in DOMAIN ids
  <2> DEFINE j == ids[id] + 1
  <2>1. /\ j \in DOMAIN entries /\ ids[id] = j - 1
    BY <1>4, LenProperties DEF ManagerInv, ManagerTypeOK
  <2>2. OpenEntry(entries[j])
    BY <1>4 DEF OpenFile
  <2> HIDE DEF j, id
  <2>3. ManagerInv' /\ Archive!OpenAs(id) /\ Catalog' = Catalog
    BY <1>1, <1>4, <2>1, <2>2, OpenEntryStep
  <2>4. Archive!Open(id)
    BY <1>3, <1>4, <2>3 DEF Archive!Open
  <2> QED BY <1>2, <2>3, <2>4
<1>5. CASE id \notin DOMAIN ids
  <2>1. OpenNothing
    BY <1>5 DEF OpenFile
  <2>2. ManagerInv' /\ Archive!OpenNone /\ Catalog' = Catalog
    BY <1>1, <2>1, OpenNothingStep
  <2> HIDE DEF id
  <2>3. Archive!Open(id)
    BY <1>3, <1>5, <2>2 DEF Archive!Open
  <2> QED BY <1>2, <2>2, <2>3
<1> QED BY <1>4, <1>5

(* The entries of the index are as many as there are names. *)
LEMMA OpenFileByIndexStep ==
    ASSUME ManagerInv, NEW i \in Indexes, OpenFileByIndex(i)
    PROVE  ManagerInv' /\ Archive!OpenByIndex(i)
<1>1. Serves /\ keyFiles' = keyFiles /\ phase = "serving" /\ i \in Nat
  BY ManagerAssumption DEF OpenFileByIndex, Serves
<1>2. DOMAIN Catalog = DOMAIN ids /\ Cardinality(DOMAIN ids) = Len(entries)
  BY <1>1 DEF Catalog, ManagerInv, Indexed
<1>3. Len(entries) \in Nat /\ DOMAIN entries = 1 .. Len(entries)
  BY LenProperties DEF ManagerInv, ManagerTypeOK
<1>4. Archive!Cardinality(DOMAIN Catalog) = Cardinality(DOMAIN Catalog)
  BY DEF Archive!Cardinality, Cardinality
<1>5. CASE i < Len(entries)
  <2> DEFINE j == i + 1
             f == FileOf(entries[j])
             id == IdOf(f[1], f[2])
  <2>1. j \in DOMAIN entries
    BY <1>1, <1>3, <1>5
  <2>2. id \in DOMAIN ids /\ ids[id] = j - 1
    BY <2>1 DEF ManagerInv, Indexed
  <2>3. OpenEntry(entries[j])
    BY <1>5 DEF OpenFileByIndex, GetEncapsulatedFileEntry, GetEncapsulatedFileCount
  <2> HIDE DEF j, id
  <2>4. ManagerInv' /\ Archive!OpenAs(id) /\ Catalog' = Catalog
    BY <1>1, <2>1, <2>2, <2>3, OpenEntryStep
  <2> QED BY <1>2, <1>4, <1>5, <2>2, <2>4 DEF Archive!OpenByIndex
<1>6. CASE ~(i < Len(entries))
  <2>1. OpenNothing
    BY <1>6 DEF OpenFileByIndex, GetEncapsulatedFileEntry, GetEncapsulatedFileCount
  <2>2. ManagerInv' /\ Archive!OpenNone /\ Catalog' = Catalog
    BY <1>1, <2>1, OpenNothingStep
  <2> QED BY <1>2, <1>4, <1>6, <2>2 DEF Archive!OpenByIndex
<1> QED BY <1>5, <1>6

(* A handle that is closed is free again. *)
LEMMA CloseStep ==
    ASSUME ManagerInv, NEW h \in AnyHandle, CloseFile(h)
    PROVE  ManagerInv' /\ Archive!Close(h)
<1>1. /\ Serves /\ keyFiles' = keyFiles /\ nextHandle' = nextHandle
      /\ handles' = [g \in DOMAIN handles \ {h} |-> handles[g]]
      /\ answer' = [op |-> "close", ok |-> h \in DOMAIN handles /\ KeyCloseFile(handles[h].handle)]
  BY DEF CloseFile
<1>2. DirsStay
  BY <1>1, NothingRead
<1>3. /\ DOMAIN handles' = DOMAIN handles \ {h}
      /\ \A g \in DOMAIN handles' : g \in DOMAIN handles /\ handles'[g] = handles[g]
  BY <1>1
<1>4. HandlesOK'
  <2>1. phase' = "serving"
    BY <1>1 DEF Serves
  <2> QED BY <1>1, <1>3, <2>1 DEF ManagerInv, HandlesOK, Accessor
<1>5. ManagerInv'
  BY <1>1, <1>2, <1>3, <1>4, IndexStays DEF ManagerInv, ManagerTypeOK
<1>6. \A g \in DOMAIN handles : KeyCloseFile(handles[g].handle)
  BY DEF ManagerInv, ManagerTypeOK, KeyCloseFile
<1>7. DOMAIN OpenResources = DOMAIN handles
  BY DEF OpenResources
<1>8. OpenResources' = [g \in DOMAIN OpenResources \ {h} |-> OpenResources[g]]
  BY <1>1, <1>2, <1>3, <1>7, HandlesAre, IndexStays DEF OpenResources
<1>9. Catalog' = Catalog
  BY <1>1, <1>2, IndexStays
<1>10. answer' = [op |-> "close", ok |-> h \in DOMAIN OpenResources]
  BY <1>1, <1>6, <1>7
<1> QED BY <1>5, <1>8, <1>9, <1>10 DEF Archive!Close

(* A handle is asked for its size, type and bif, and knows those of its    *)
(* resource.                                                               *)
LEMMA QueryStep ==
    ASSUME ManagerInv, NEW h \in AnyHandle, QueryFile(h)
    PROVE  ManagerInv' /\ Archive!Query(h)
<1>1. /\ Serves /\ keyFiles' = keyFiles /\ handles' = handles /\ nextHandle' = nextHandle
  BY DEF QueryFile
<1>2. DirsStay
  BY <1>1, NothingRead
<1>3. ManagerInv' /\ Catalog' = Catalog /\ OpenResources' = OpenResources
  BY <1>1, <1>2, HandlesStay
<1>4. DOMAIN OpenResources = DOMAIN handles
  BY DEF OpenResources
<1>5. CASE h \notin DOMAIN handles
  <2>1. answer' = [op |-> "query", ok |-> FALSE]
    BY <1>5 DEF QueryFile
  <2> QED BY <1>3, <1>4, <1>5, <2>1 DEF Archive!Query
<1>6. CASE h \in DOMAIN handles
  <2> DEFINE k == keyFiles[handles[h].accessor]
             g == handles[h].handle
             resource == ResourceAt(<<handles[h].accessor, handles[h].handle - 1>>)
  <2>1. KeyOK(k) /\ g \in DOMAIN k.dir
    BY <1>6 DEF ManagerInv, HandlesOK, Accessor, KeysOK
  <2>2. KeySize(k, g) = EntryOf(k, g).size /\ KeyAccessorName(k, g) = k.dir[g].bif
    <3> HIDE DEF k, g
    <3>1. 0 \in Nat
      OBVIOUS
    <3> QED BY <2>1, <3>1, ReadsKey
  <2>3. resource = [type |-> k.dir[g].type, bif |-> <<handles[h].accessor, k.dir[g].bif>>,
                    from |-> EntryOf(k, g).offset, size |-> EntryOf(k, g).size]
    <3>1. (handles[h].handle - 1) + 1 = handles[h].handle
      BY <1>6, HandlesAre
    <3> QED BY <3>1 DEF ResourceAt, EntryOf
  <2>4. OpenResources[h] = resource
    BY <1>6 DEF OpenResources
  <2>5. handles[h].type = k.dir[g].type
    BY <1>6 DEF ManagerInv, HandlesOK, Accessor
  <2>6. answer' = [op |-> "query", ok |-> TRUE, size |-> KeySize(k, g), type |-> handles[h].type,
                   bif |-> <<handles[h].accessor, KeyAccessorName(k, g)>>]
    BY <1>6 DEF QueryFile, GetEncapsulatedFileSize, GetEncapsulatedFileType,
                GetResourceAccessorName, Accessor, Inner
  <2> HIDE DEF k, g, resource
  <2>7. /\ resource.size = KeySize(k, g) /\ resource.type = handles[h].type
        /\ resource.bif = <<handles[h].accessor, KeyAccessorName(k, g)>>
    BY <2>2, <2>3, <2>5
  <2> QED BY <1>3, <1>4, <1>6, <2>4, <2>6, <2>7 DEF Archive!Query
<1> QED BY <1>5, <1>6

(* A read returns the bytes of the resource and moves the reader behind    *)
(* the handle only.                                                        *)
LEMMA ReadStep ==
    ASSUME ManagerInv, NEW h \in AnyHandle, NEW offset \in Offsets, NEW n \in Lengths,
           ReadEncapsulatedFile(h, offset, n)
    PROVE  ManagerInv' /\ Archive!Read(h, offset, n)
<1>1. Serves /\ handles' = handles /\ nextHandle' = nextHandle /\ offset \in Nat /\ n \in Nat
  BY ManagerAssumption DEF ReadEncapsulatedFile
<1>2. DOMAIN OpenResources = DOMAIN handles
  BY DEF OpenResources
<1>3. CASE h \notin DOMAIN handles
  <2>1. keyFiles' = keyFiles /\ answer' = [op |-> "read", ok |-> FALSE]
    BY <1>3 DEF ReadEncapsulatedFile, NotRead
  <2>2. DirsStay
    BY <2>1, NothingRead
  <2>3. ManagerInv' /\ Catalog' = Catalog /\ OpenResources' = OpenResources
    BY <1>1, <2>2, HandlesStay
  <2> QED BY <1>2, <1>3, <2>1, <2>3 DEF Archive!Read
<1>4. CASE h \in DOMAIN handles
  <2> DEFINE a == handles[h].accessor
             k == keyFiles[a]
             g == handles[h].handle
             e == EntryOf(k, g)
             read == KeyRead(k, g, offset, n)
             resource == ResourceAt(<<a, handles[h].handle - 1>>)
  <2>1. KeyOK(k) /\ a \in DOMAIN keyFiles /\ g \in DOMAIN k.dir
    BY <1>4 DEF ManagerInv, HandlesOK, Accessor, KeysOK
  <2>2. /\ KeyOK(read.reader) /\ SameDirs(read.reader, k)
        /\ read.bytes = IF offset < e.size
                        THEN Bytes(e.offset + offset, Minimum(n, e.size - offset))
                        ELSE NoBytes
    <3> HIDE DEF k, g
    <3> QED BY <1>1, <2>1, ReadsKey
  <2>3. resource = [type |-> k.dir[g].type, bif |-> <<a, k.dir[g].bif>>,
                    from |-> e.offset, size |-> e.size]
    <3>1. (handles[h].handle - 1) + 1 = handles[h].handle
      BY <1>4, HandlesAre
    <3> QED BY <3>1 DEF ResourceAt, EntryOf
  <2>4. OpenResources[h] = resource
    BY <1>4 DEF OpenResources
  <2>5. /\ keyFiles' = [keyFiles EXCEPT ![a] = read.reader]
        /\ answer' = IF read.bytes.ok
                     THEN [op |-> "read", ok |-> TRUE, bif |-> <<a, k.dir[g].bif>>,
                           count |-> read.bytes.count, from |-> read.bytes.from]
                     ELSE [op |-> "read", ok |-> FALSE]
    BY <1>4 DEF ReadEncapsulatedFile, Accessor, Inner, BifOf, NotRead
  <2> HIDE DEF read, e, g, resource
  <2>6. DirsStay
    <3>1. keyFiles \in Seq(KeyReader) /\ DOMAIN keyFiles = 1 .. Len(keyFiles)
      BY LenProperties DEF ManagerInv, ManagerTypeOK
    <3>2. read.reader \in KeyReader
      BY <2>2 DEF KeyOK
    <3> HIDE DEF a
    <3>3. /\ keyFiles' \in Seq(KeyReader) /\ Len(keyFiles') = Len(keyFiles)
          /\ \A i \in 1 .. Len(keyFiles) : keyFiles'[i] = IF i = a THEN read.reader ELSE keyFiles[i]
      BY <2>1, <2>5, <3>1, <3>2, ExceptSeq
    <3>4. DOMAIN keyFiles' = DOMAIN keyFiles
      BY <3>1, <3>3, LenProperties
    <3>5. KeysOK'
      BY <2>2, <3>1, <3>3, <3>4 DEF ManagerInv, KeysOK
    <3>6. \A i \in DOMAIN keyFiles : SameDirs(keyFiles'[i], keyFiles[i])
      BY <2>2, <3>1, <3>3 DEF SameDirs
    <3> QED BY <3>3, <3>5, <3>6 DEF DirsStay
  <2>7. ManagerInv' /\ Catalog' = Catalog /\ OpenResources' = OpenResources
    BY <1>1, <2>6, HandlesStay
  <2>8. /\ resource.size = e.size /\ resource.from = e.offset
        /\ resource.bif = <<a, k.dir[g].bif>>
    BY <2>3
  <2>9. CASE offset < e.size
    <3>1. /\ read.bytes.ok /\ read.bytes.count = Minimum(n, e.size - offset)
          /\ read.bytes.from = IF Minimum(n, e.size - offset) = 0 THEN 0 ELSE e.offset + offset
      BY <2>2, <2>9 DEF Bytes
    <3>2. Minimum(n, e.size - offset) = Archive!Least(n, e.size - offset)
      BY DEF Minimum, Archive!Least
    <3>3. answer' = [op |-> "read", ok |-> TRUE, bif |-> resource.bif,
                     count |-> Archive!Least(n, resource.size - offset),
                     from |-> IF Archive!Least(n, resource.size - offset) = 0
                              THEN 0 ELSE resource.from + offset]
      BY <2>5, <2>8, <3>1, <3>2
    <3>4. h \in DOMAIN OpenResources /\ offset < OpenResources[h].size
      BY <1>2, <1>4, <2>4, <2>8, <2>9
    <3> QED BY <2>4, <2>7, <3>3, <3>4 DEF Archive!Read
  <2>10. CASE ~(offset < e.size)
    <3>1. ~read.bytes.ok
      BY <2>2, <2>10 DEF NoBytes
    <3>2. answer' = [op |-> "read", ok |-> FALSE]
      BY <2>5, <3>1
    <3>3. ~(offset < OpenResources[h].size)
      BY <2>4, <2>8, <2>10
    <3> QED BY <2>7, <3>2, <3>3 DEF Archive!Read
  <2> QED BY <2>9, <2>10
<1> QED BY <1>3, <1>4

-----------------------------------------------------------------------------
LEMMA ManagerBegins == ManagerInit => ManagerInv /\ Archive!Init
<1> SUFFICES ASSUME ManagerInit PROVE ManagerInv /\ Archive!Init
  OBVIOUS
<1>1. /\ disk \in Disks /\ phase = "loading" /\ todo = Len(KeyList) /\ keyFiles = <<>> /\ entries = <<>>
      /\ provider = 0 /\ curId = 0 /\ ids = <<>> /\ handles = <<>> /\ nextHandle = 0
      /\ answer = [op |-> "none"]
  BY DEF ManagerInit
<1>2. Len(KeyList) \in Nat /\ HandleMod \in Nat \ {0, 1}
  BY ManagerAssumption, LenProperties
<1>3. /\ DOMAIN ids = {} /\ DOMAIN handles = {} /\ DOMAIN entries = {} /\ DOMAIN keyFiles = {}
      /\ Len(entries) = 0 /\ Len(keyFiles) = 0
  BY <1>1
<1>4. ManagerTypeOK
  <2>1. keyFiles \in Seq(KeyReader) /\ entries \in Seq([accessor : 1 .. Len(keyFiles), index : Nat])
    BY <1>1
  <2>2. provider \in 0 .. Len(keyFiles) /\ curId \in 0 .. CountOf(provider)
    BY <1>1, <1>3 DEF CountOf
  <2> QED BY <1>1, <1>2, <1>3, <2>1, <2>2 DEF ManagerTypeOK
<1>5. Indexed
  <2>1. IsFiniteSet(DOMAIN ids) /\ Cardinality(DOMAIN ids) = Len(entries)
    BY <1>3, FS_EmptySet
  <2> QED BY <1>1, <1>3, <2>1 DEF Indexed
<1>6. KeysOK /\ HandlesOK
  BY <1>1, <1>3 DEF KeysOK, HandlesOK
<1>7. Catalog = <<>> /\ OpenResources = <<>>
  <2>1. OpenResources = [h \in {} |-> ResourceAt(<<handles[h].accessor, handles[h].handle - 1>>)]
    BY <1>3 DEF OpenResources
  <2> QED BY <1>1, <2>1 DEF Catalog
<1> QED BY <1>1, <1>4, <1>5, <1>6, <1>7 DEF ManagerInv, Archive!Init

(* Until it serves the manager is an archive that is not built yet. *)
LEMMA Unbuilt ==
    ASSUME ManagerInv, ManagerInv', phase # "serving", answer' = answer, handles' = handles
    PROVE  [Archive!Next]_<<Catalog, OpenResources, answer>>
<1>1. handles = <<>> /\ Catalog = <<>>
  BY DEF ManagerInv, HandlesOK, Catalog
<1>2. CASE phase' # "serving"
  <2>1. handles' = <<>> /\ Catalog' = <<>>
    BY <1>2 DEF ManagerInv, HandlesOK, Catalog
  <2>2. OpenResources' = OpenResources
    BY <1>1, <2>1 DEF OpenResources
  <2> QED BY <1>1, <2>1, <2>2
<1>3. CASE phase' = "serving"
  <2>1. OpenResources' = OpenResources
    BY <1>1, <1>3 DEF OpenResources
  <2> QED BY <1>1, <2>1 DEF Archive!Next, Archive!Build
<1> QED BY <1>2, <1>3

(* Every step keeps the invariant, and is one of the archive or none. *)
LEMMA ManagerStep ==
    ASSUME ManagerInv, [ManagerNext]_managerVars
    PROVE  ManagerInv' /\ [Archive!Next]_<<Catalog, OpenResources, answer>>
<1> USE DEF AnyHandle
<1>1. CASE LoadKey \/ DiscoverResources \/ IndexFile \/ NextProvider
  <2>1. ManagerInv'
    BY <1>1, LoadStep, DiscoverStep, IndexStep, NextProviderStep
  <2>2. phase # "serving" /\ answer' = answer /\ handles' = handles
    BY <1>1 DEF LoadKey, DiscoverResources, IndexFile, NextProvider, serving
  <2> QED BY <2>1, <2>2, Unbuilt
<1>2. ASSUME NEW type \in Types, NEW name \in Names, OpenFile(type, name)
      PROVE  ManagerInv' /\ Archive!Next
  BY <1>2, OpenFileStep DEF Archive!Next
<1>3. ASSUME NEW i \in Indexes, OpenFileByIndex(i)
      PROVE  ManagerInv' /\ Archive!Next
  BY <1>3, OpenFileByIndexStep DEF Archive!Next
<1>4. AnyHandle = Handles \cup {INVALID_FILE}
  BY ManagerAssumption DEF Handles, INVALID_FILE
<1>5. ASSUME NEW h \in AnyHandle, CloseFile(h) \/ QueryFile(h)
      PROVE  ManagerInv' /\ Archive!Next
  BY <1>4, <1>5, CloseStep, QueryStep DEF Archive!Next
<1>6. ASSUME NEW h \in AnyHandle, NEW offset \in Offsets, NEW n \in Lengths,
             ReadEncapsulatedFile(h, offset, n)
      PROVE  ManagerInv' /\ Archive!Next
  BY <1>4, <1>6, ReadStep DEF Archive!Next
<1>7. CASE UNCHANGED managerVars
  <2>1. UNCHANGED <<disk, phase, todo, keyFiles, provider, curId, entries, ids, handles, nextHandle, answer>>
    BY <1>7 DEF managerVars, loading, indexing, serving
  <2>2. ManagerInv'
    BY <2>1 DEF ManagerInv, ManagerTypeOK, KeysOK, Indexed, HandlesOK, CountOf, Files, IdOf,
                MostPrecedent, Seen, Accessor
  <2>3. Catalog' = Catalog /\ OpenResources' = OpenResources
    BY <2>1 DEF Catalog, OpenResources, ResourceAt
  <2> QED BY <2>1, <2>2, <2>3
<1> QED BY <1>1, <1>2, <1>3, <1>5, <1>6, <1>7 DEF ManagerNext

(* The inductive invariant: types, readers that are right about their      *)
(* files, an index of the files seen, handles on entries.                  *)
THEOREM ManagerInvariant == ManagerSpec => []ManagerInv
<1>1. ManagerInit => ManagerInv
  BY ManagerBegins
<1>2. ManagerInv /\ [ManagerNext]_managerVars => ManagerInv'
  BY ManagerStep
<1> QED BY <1>1, <1>2, PTL DEF ManagerSpec

(* A bif reader that spares a seek (m_NextOffset) reads on where it thinks *)
(* it does, whatever handles are read in between and whichever reads fail. *)
THEOREM PositionsAlwaysAgree == ManagerSpec => []PositionsAgree
<1>1. ManagerInv => PositionsAgree
  BY KeysPositions DEF ManagerInv
<1> QED BY <1>1, ManagerInvariant, PTL

(* Every file that was indexed can be opened and read: "file open that     *)
(* should not fail has failed" (KeyFileReader.cpp:616) is never thrown.    *)
THEOREM FilesAlwaysBehind == ManagerSpec => []FilesBehind
<1>1. ManagerInv => FilesBehind
  BY KeysBehind DEF ManagerInv, ManagerTypeOK
<1> QED BY <1>1, ManagerInvariant, PTL

(* Whatever archives there are and however names repeat in them, the index *)
(* of DiscoverResources has every name and leads to its most precedent     *)
(* file.                                                                   *)
THEOREM AlwaysMostPrecedent == ManagerSpec => []FindsMostPrecedent
<1>1. ManagerInv => FindsMostPrecedent
  <2> SUFFICES ASSUME ManagerInv, phase = "serving" PROVE FindsMostPrecedent
    BY DEF FindsMostPrecedent
  <2>1. provider = 0 /\ curId = 0 /\ keyFiles \in Seq(KeyReader)
    BY DEF ManagerInv, ManagerTypeOK, Indexed
  <2>2. ASSUME NEW f \in Files PROVE IdOf(f[1], f[2]) \in DOMAIN ids
    <3>1. f[1] \in 1 .. Len(keyFiles)
      BY <2>1, FilesAre
    <3>2. Seen(f)
      BY <2>1, <3>1 DEF Seen
    <3> QED BY <3>2 DEF ManagerInv, Indexed
  <2>3. ASSUME NEW i \in DOMAIN entries, NEW j \in DOMAIN entries, i # j
        PROVE  IdOf(entries[i].accessor, entries[i].index) # IdOf(entries[j].accessor, entries[j].index)
    <3>1. /\ ids[IdOf(entries[i].accessor, entries[i].index)] = i - 1
          /\ ids[IdOf(entries[j].accessor, entries[j].index)] = j - 1
      BY DEF ManagerInv, Indexed, FileOf
    <3>2. entries \in Seq([accessor : 1 .. Len(keyFiles), index : Nat])
      BY DEF ManagerInv, ManagerTypeOK
    <3>3. DOMAIN entries = 1 .. Len(entries)
      BY <3>2, LenProperties
    <3>4. i \in Int /\ j \in Int
      BY <3>3
    <3> QED BY <2>3, <3>1, <3>4
  <2>4. \A id \in DOMAIN ids : MostPrecedent(FileOf(entries[ids[id] + 1]), id)
    BY DEF ManagerInv, Indexed
  <2> QED BY <2>2, <2>3, <2>4 DEF FindsMostPrecedent
<1> QED BY <1>1, ManagerInvariant, PTL

(* The manager implements the archive: one resource for a name, and a      *)
(* handle that reads the bytes of its own until it is closed.              *)
THEOREM ManagerImplementsArchive == ManagerSpec => ImplementsArchive
<1>1. ManagerInit => Archive!Init
  BY ManagerBegins
<1>2. ManagerInv /\ [ManagerNext]_managerVars => [Archive!Next]_<<Catalog, OpenResources, answer>>
  BY ManagerStep
<1> QED BY <1>1, <1>2, ManagerInvariant, PTL DEF ManagerSpec, ImplementsArchive, Archive!Spec
=============================================================================
