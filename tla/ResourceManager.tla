--------------------------- MODULE ResourceManager ---------------------------
(***************************************************************************)
(* The resource manager under the loader of the compiler: it opens the     *)
(* .key archives of the installation, indexes every resource once in order *)
(* of precedence, and hands out handles to them.                           *)
(*                                                                         *)
(* Only archives in TIER_INBOX_KEY are ever added (LoadScriptResources),   *)
(* so the tiers reduce to one.  Texts of warnings are left out.            *)
(***************************************************************************)
EXTENDS KeyFileReader, FiniteSets

CONSTANTS Paths,      \* of bif files
          KeyList,    \* LoadParams.KeyFiles, earlier ones take priority
          Disks,      \* what the installation may hold
          Lower,      \* tolower, of StrFromResRef (ResRef32)
          HandleMod,  \* 2^64, values of a FileHandle
          Indexes, Offsets, Lengths  \* arguments of the operations

ASSUME ManagerAssumption ==
    /\ \A d \in Disks : /\ d.bif \in [Paths -> File]
                        /\ d.key \in [{KeyList[i] : i \in DOMAIN KeyList} -> KeyFile(Paths)]
                        /\ \A p \in Paths : \A i \in DOMAIN d.bif[p].table :
                             d.bif[p].table[i].offset >= HeaderSize
    /\ Lower \in [Names -> Names]
    /\ HandleMod \in Nat \ {0, 1}
    /\ Indexes \cup Offsets \cup Lengths \subseteq Nat
    /\ KeyList \in Seq({KeyList[i] : i \in DOMAIN KeyList})

Ids == Types \X Names
Handles == 1 .. HandleMod - 1

VARIABLES disk,        \* the installation, which nothing here changes
          phase,       \* LoadFixedKeyFiles, DiscoverResources, then serving
          todo,        \* how many of KeyList are still to be loaded
          keyFiles,    \* m_KeyFiles and m_ResourceFiles[TIER_INBOX_KEY]
          provider,    \* it, the accessor being indexed
          curId,       \* CurId
          entries,     \* m_ResourceEntries, [accessor, index]
          ids,         \* m_NameIdMap
          handles,     \* m_ResFileHandles, [accessor, handle, type]
          nextHandle,  \* m_NextFileHandle
          answer       \* what the last operation returned

loading == <<todo, keyFiles>>
indexing == <<provider, curId, entries, ids>>
serving == <<handles, nextHandle, answer>>
managerVars == <<disk, phase, loading, indexing, serving>>

ManagerInit == /\ disk \in Disks
               /\ phase = "loading" /\ todo = Len(KeyList)
               /\ keyFiles = <<>> /\ entries = <<>>
               /\ provider = 0 /\ curId = 0
               /\ ids = <<>> /\ handles = <<>>
               /\ nextHandle = 0
               /\ answer = [op |-> "none"]

(* LoadFixedKeyFiles, one round, the list from its end: an archive whose   *)
(* constructor throws is skipped with a warning. *)
LoadKey ==
    /\ phase = "loading" /\ todo > 0
    /\ LET f == disk.key[KeyList[todo]] IN
         keyFiles' = IF KeyOpens(f, disk.bif)
                     THEN Append(keyFiles, KeyOpened(f, disk.bif)) ELSE keyFiles
    /\ todo' = todo - 1
    /\ UNCHANGED <<disk, phase, indexing, serving>>

CountOf(p) == IF p = 0 THEN 0 ELSE Count(keyFiles[p])

(* The loops of DiscoverResources: the providers from the most recently    *)
(* added one, in each the files from its last one. *)
DiscoverResources ==
    /\ phase = "loading" /\ todo = 0
    /\ phase' = "indexing"
    /\ provider' = Len(keyFiles)
    /\ curId' = CountOf(Len(keyFiles))
    /\ UNCHANGED <<disk, loading, entries, ids, serving>>

IdOf(k, i) == KeyFileEntry(keyFiles[k], i)

Claim(id, entry) ==
    /\ entries' = Append(entries, entry)
    /\ ids' = [i \in DOMAIN ids \cup {id} |-> IF i = id THEN Len(entries) ELSE ids[i]]

(* Faulty: a duplicate takes the name over. *)
IndexLatest(id, entry) == Claim(id, entry)

(* The first entry of a name is the most precedent one. *)
Index(id, entry) == IF id \in DOMAIN ids THEN UNCHANGED <<entries, ids>>
                                         ELSE Claim(id, entry)

IndexFile ==
    /\ phase = "indexing" /\ curId > 0
    /\ Index(IdOf(provider, curId - 1), [accessor |-> provider, index |-> curId - 1])
    /\ curId' = curId - 1
    /\ UNCHANGED <<disk, phase, loading, provider, serving>>

NextProvider ==
    /\ phase = "indexing" /\ curId = 0
    /\ IF provider = 0 THEN phase' = "serving" /\ UNCHANGED <<provider, curId>>
       ELSE /\ provider' = provider - 1
            /\ curId' = CountOf(provider - 1)
            /\ phase' = phase
    /\ UNCHANGED <<disk, loading, entries, ids, serving>>

-----------------------------------------------------------------------------
(* AllocateFileHandle: the next handle that is not in use, without         *)
(* INVALID_FILE; INVALID_FILE once it has been around. *)
Free == Handles \ DOMAIN handles

Distance(h) == (h - nextHandle) % HandleMod

(* Faulty: does not look whether the handle is in use. *)
AllocateNext == IF nextHandle = INVALID_FILE THEN 1 ELSE nextHandle

Allocate == IF Free = {} THEN INVALID_FILE
            ELSE CHOOSE h \in Free : \A g \in Free : Distance(h) <= Distance(g)

Following(h) == (h + 1) % HandleMod

First == IF nextHandle = INVALID_FILE THEN Following(nextHandle) ELSE nextHandle

(* A handle on entry e, or an exception when there is none. *)
OpenEntry(e) ==
    LET h == Allocate
        k == keyFiles[e.accessor]
        inner == KeyOpenFileByIndex(k, e.index)
    IN IF inner = INVALID_FILE
       THEN /\ UNCHANGED <<handles, nextHandle>>
            /\ answer' = [op |-> "open", handle |-> INVALID_FILE]
       ELSE IF h = INVALID_FILE
       THEN /\ nextHandle' = Following(First)
            /\ handles' = handles
            /\ answer' = [op |-> "throws"]
       ELSE /\ nextHandle' = Following(h)
            /\ handles' = [g \in DOMAIN handles \cup {h} |->
                             IF g = h THEN [accessor |-> e.accessor, handle |-> inner,
                                            type |-> k.dir[e.index + 1].type]
                             ELSE handles[g]]
            /\ answer' = [op |-> "open", handle |-> h]

OpenNothing == /\ UNCHANGED <<handles, nextHandle>>
               /\ answer' = [op |-> "open", handle |-> INVALID_FILE]

Serves == phase = "serving" /\ UNCHANGED <<disk, phase, todo, indexing>>

OpenFile(type, name) ==
    /\ Serves /\ keyFiles' = keyFiles
    /\ LET id == <<type, Lower[name]>> IN
         IF id \in DOMAIN ids THEN OpenEntry(entries[ids[id] + 1]) ELSE OpenNothing

\* An index has an entry below the number of entries.
GetEncapsulatedFileCount == Len(entries)
GetEncapsulatedFileEntry(i) == i < GetEncapsulatedFileCount

OpenFileByIndex(i) ==
    /\ Serves /\ keyFiles' = keyFiles
    /\ IF GetEncapsulatedFileEntry(i) THEN OpenEntry(entries[i + 1]) ELSE OpenNothing

CloseFile(h) ==
    /\ Serves /\ keyFiles' = keyFiles
    /\ handles' = [g \in DOMAIN handles \ {h} |-> handles[g]]
    /\ nextHandle' = nextHandle
    /\ answer' = [op |-> "close",
                  ok |-> h \in DOMAIN handles /\ KeyCloseFile(handles[h].handle)]

(* What a handle of the manager is in its accessor. *)
Accessor(h) == keyFiles[handles[h].accessor]
Inner(h) == handles[h].handle

BifOf(h) == <<handles[h].accessor, Accessor(h).dir[Inner(h)].bif>>

NotRead == [op |-> "read", ok |-> FALSE]

ReadEncapsulatedFile(h, offset, n) ==
    /\ Serves /\ UNCHANGED <<handles, nextHandle>>
    /\ IF h \notin DOMAIN handles
       THEN keyFiles' = keyFiles /\ answer' = NotRead
       ELSE LET read == KeyRead(Accessor(h), Inner(h), offset, n) IN
            /\ keyFiles' = [keyFiles EXCEPT ![handles[h].accessor] = read.reader]
            /\ answer' = IF read.bytes.ok
                         THEN [op |-> "read", ok |-> TRUE, bif |-> BifOf(h),
                               count |-> read.bytes.count, from |-> read.bytes.from]
                         ELSE NotRead

GetEncapsulatedFileSize(h) == KeySize(Accessor(h), Inner(h))

GetEncapsulatedFileType(h) == handles[h].type

GetResourceAccessorName(h) ==
    <<handles[h].accessor, KeyAccessorName(Accessor(h), Inner(h))>>

(* GetEncapsulatedFileSize, GetEncapsulatedFileType and, for a handle,     *)
(* GetResourceAccessorName, which throws without one. *)
QueryFile(h) ==
    /\ Serves /\ UNCHANGED <<keyFiles, handles, nextHandle>>
    /\ answer' = IF h \in DOMAIN handles
                 THEN [op |-> "query", ok |-> TRUE,
                       size |-> GetEncapsulatedFileSize(h),
                       type |-> GetEncapsulatedFileType(h),
                       bif |-> GetResourceAccessorName(h)]
                 ELSE [op |-> "query", ok |-> FALSE]

(* GetEncapsulatedFileEntry is read by OpenFileByIndex and fails only where *)
(* that does; the other tiers, OpenFile of an accessor and the demand-load  *)
(* tables are unused. *)
AnyHandle == 0 .. HandleMod - 1

ManagerNext ==
    \/ LoadKey \/ DiscoverResources \/ IndexFile \/ NextProvider
    \/ \E type \in Types, name \in Names : OpenFile(type, name)
    \/ \E i \in Indexes : OpenFileByIndex(i)
    \/ \E h \in AnyHandle : CloseFile(h) \/ QueryFile(h)
    \/ \E h \in AnyHandle, offset \in Offsets, n \in Lengths :
         ReadEncapsulatedFile(h, offset, n)

ManagerSpec == ManagerInit /\ [][ManagerNext]_managerVars

-----------------------------------------------------------------------------
(* One type invariant for the manager and the readers below it. *)
ManagerTypeOK ==
    /\ disk \in Disks
    /\ phase \in {"loading", "indexing", "serving"}
    /\ todo \in 0 .. Len(KeyList)
    /\ keyFiles \in Seq(KeyReader)
    /\ provider \in 0 .. Len(keyFiles)
    /\ curId \in 0 .. CountOf(provider)
    /\ entries \in Seq([accessor : 1 .. Len(keyFiles), index : Nat])
    /\ DOMAIN ids \subseteq Ids
    /\ \A id \in DOMAIN ids : ids[id] \in 0 .. Len(entries) - 1
    /\ DOMAIN handles \subseteq Handles
    /\ \A h \in DOMAIN handles :
         handles[h] \in [accessor : 1 .. Len(keyFiles), handle : Nat \ {INVALID_FILE},
                         type : Types]
    /\ nextHandle \in 0 .. HandleMod - 1

(* The position each bif reader believes its file has is the one it has,   *)
(* whatever handles were read in between: m_NextOffset spares a seek only  *)
(* where the last read ended (ReadEncapsulatedFile). *)
PositionsAgree ==
    \A k \in DOMAIN keyFiles : \A b \in DOMAIN keyFiles[k].bifs :
      LET r == keyFiles[k].bifs[b] IN r.next \in {0, r.position}

(* Files are <<k, i>>, file i of the archive loaded as number k. *)
Files == UNION {{<<k, i>> : i \in 0 .. Count(keyFiles[k]) - 1} : k \in DOMAIN keyFiles}

FileOf(e) == <<e.accessor, e.index>>

(* The first archive of the list that has a name wins, and in it the last  *)
(* file (ResourceManager.cpp:2488, 2919): as archives are loaded from the  *)
(* end of the list, the greatest of its files. *)
MostPrecedent(f, id) ==
    /\ IdOf(f[1], f[2]) = id
    /\ \A g \in Files : IdOf(g[1], g[2]) = id =>
         (g[1] < f[1] \/ (g[1] = f[1] /\ g[2] <= f[2]))

(* The index has every name of every archive that could be loaded, once,   *)
(* and it leads to the most precedent file of the name. *)
FindsMostPrecedent ==
    phase = "serving" =>
      /\ \A f \in Files : IdOf(f[1], f[2]) \in DOMAIN ids
      /\ \A id \in DOMAIN ids : MostPrecedent(FileOf(entries[ids[id] + 1]), id)
      /\ \A i, j \in DOMAIN entries :
           i # j => IdOf(entries[i].accessor, entries[i].index)
                    # IdOf(entries[j].accessor, entries[j].index)

(* What a key says of a file leads to an entry of its bif, and that entry  *)
(* lies in the bif: the opening behind a handle never fails                *)
(* (KeyFileReader.cpp:616, "file open that should not fail has failed"),   *)
(* and neither does a read of an offset below the size. *)
FilesBehind ==
    \A f \in Files :
      LET k == keyFiles[f[1]]
          r == k.bifs[k.dir[f[2] + 1].bif + 1]
      IN /\ k.dir[f[2] + 1].bif + 1 \in DOMAIN k.bifs
         /\ Behind(k, f[2] + 1)
         /\ \A offset \in Offsets, n \in Lengths :
              offset < KeySize(k, f[2] + 1) => KeyRead(k, f[2] + 1, offset, n).bytes.ok

-----------------------------------------------------------------------------
(* The archive that the manager implements. *)
ResourceAt(f) ==
    LET key == keyFiles[f[1]].dir[f[2] + 1]
        e == keyFiles[f[1]].bifs[key.bif + 1].dir[key.file + 1]
    IN [type |-> key.type, bif |-> <<f[1], key.bif>>, from |-> e.offset, size |-> e.size]

Catalog == IF phase # "serving" THEN <<>>
           ELSE [id \in DOMAIN ids |-> ResourceAt(FileOf(entries[ids[id] + 1]))]

OpenResources ==
    [h \in DOMAIN handles |-> ResourceAt(<<handles[h].accessor, handles[h].handle - 1>>)]

Archive == INSTANCE ResourceArchive
             WITH INVALID <- INVALID_FILE, catalog <- Catalog, open <- OpenResources

(* The manager implements the archive of names, resources and handles. *)
ImplementsArchive == Archive!Spec
=============================================================================
