--------------------------- MODULE NscSymbolTable ---------------------------
(***************************************************************************)
(* CNscSymbolTable (NscSymbolTable.h) under the operations of CNscContext  *)
(* and the parser: one growing buffer of symbols and of the data they      *)
(* refer to, a hash chain of offsets through the symbols of each bucket,   *)
(* and the fences that cut all of it back when a scope ends.               *)
(*                                                                         *)
(* The two phases of a compilation are not told apart: whatever is         *)
(* declared outside functions may come between any two of them, as it does *)
(* in the single pass over nwscript.nss.  Left out: Reset, the debug only  *)
(* anHashDepth, what symbols hold besides their place in the table, and a  *)
(* syntax error outside functions, which leaves the fence of its function  *)
(* in force.                                                               *)
(***************************************************************************)
EXTENDS Integers, Sequences

CONSTANTS Names,       \* identifiers
          Buckets,     \* 0 .. NscMaxHash - 1
          HashIndex,   \* GetHash (psz) % NscMaxHash
          SymbolSize,  \* sizeof (NscSymbol) + strlen (psz)
          DataSizes,   \* sizes of what is appended for a symbol
          GrowSize,    \* m_nGrowSize
          MaxSize,     \* bound of m_nSize
          MaxFences    \* bound of the nesting of scopes

ASSUME TableAssumption ==
    /\ HashIndex \in [Names -> Buckets]
    /\ SymbolSize \in [Names -> Nat \ {0}]
    /\ DataSizes \subseteq Nat \ {0}
    /\ GrowSize \in Nat \ {0}
    /\ \A n \in Names : SymbolSize[n] < GrowSize

Kinds == {"Variable", "Function", "Structure"}
Decl == {"Variable", "Function"}      \* FindDeclSymbol
StructTag == {"Function", "Structure"}  \* FindStructTagSymbol

VARIABLES table,    \* [size, allocated, hash, data]: m_nSize, m_nAllocated,
                    \* m_sFence.anHashStart and the buffer below m_nSize
          fences,   \* m_pCurrentFence and its pNext, the innermost last:
                    \* [size, hash, fn], fn being nFnSymbol
          globals   \* offsets in m_anGlobalVars, -Defs, -Funcs, m_anNscActions,
                    \* m_anStructSymbol

tableVars == <<table, fences, globals>>

(* In the buffer: symbols, with their nNext and the offsets they refer to  *)
(* (nExtra, and nCodeOffset, nAltStringOffset found there); and data, with *)
(* the symbol they were appended for.                                      *)
Symbol == [kind : Kinds, name : Names, next : Nat, refs : SUBSET Nat]
Datum == [kind : {"extra", "code", "string"}, owner : Nat]

Symbols(t) == {o \in DOMAIN t.data : t.data[o].kind \in Kinds}

Empty == [size |-> 0, allocated |-> 0, hash |-> [b \in Buckets |-> 0], data |-> <<>>]

-----------------------------------------------------------------------------
(* CNscSymbolTable. *)

(* Faulty: one step of m_nGrowSize must do. *)
MakeRoomOnce(t, n) ==
    IF t.size + n <= t.allocated THEN [size |-> t.size, allocated |-> t.allocated]
    ELSE [size |-> IF t.size = 0 THEN 1 ELSE t.size, allocated |-> t.allocated + GrowSize]

(* m_nSize and m_nAllocated once there is room for n more.  The loop adds  *)
(* m_nGrowSize until there is; the first allocation reserves offset 0.     *)
MakeRoom(t, n) ==
    IF t.size + n <= t.allocated THEN [size |-> t.size, allocated |-> t.allocated]
    ELSE [size |-> IF t.size = 0 THEN 1 ELSE t.size,
          allocated |-> t.allocated
                        + GrowSize * ((t.size + n - t.allocated + GrowSize - 1) \div GrowSize)]

Store(data, o, item) == [p \in DOMAIN data \cup {o} |-> IF p = o THEN item ELSE data[p]]

(* The offset the next symbol n gets. *)
NextOffset(t, n) == MakeRoom(t, SymbolSize[n]).size

Add(t, n, kind) ==
    LET r == MakeRoom(t, SymbolSize[n])
    IN [size |-> r.size + SymbolSize[n], allocated |-> r.allocated,
        hash |-> [t.hash EXCEPT ![HashIndex[n]] = r.size],
        data |-> Store(t.data, r.size, [kind |-> kind, name |-> n,
                                        next |-> t.hash[HashIndex[n]], refs |-> {}])]

(* AppendData, whose result is kept with the symbol at o. *)
Attach(t, o, kind, len) ==
    LET r == MakeRoom(t, len)
        data == Store(t.data, r.size, [kind |-> kind, owner |-> o])
    IN [size |-> r.size + len, allocated |-> r.allocated, hash |-> t.hash,
        data |-> [data EXCEPT ![o].refs = @ \cup {t.size}]]

(* Faulty: any symbol of the name will do. *)
FindAnyType(t, n, kinds) ==
    LET from[o \in Symbols(t) \cup {0}] ==
          IF o = 0 \/ t.data[o].name = n THEN o ELSE from[t.data[o].next]
    IN from[t.hash[HashIndex[n]]]

(* The nearest symbol of name n and one of the kinds on the chain, or 0. *)
Find(t, n, kinds) ==
    LET from[o \in Symbols(t) \cup {0}] ==
          IF o = 0 \/ (t.data[o].name = n /\ t.data[o].kind \in kinds) THEN o
          ELSE from[t.data[o].next]
    IN from[t.hash[HashIndex[n]]]

(* GetFence, and RestoreFence.  What lies above m_nSize is overwritten by  *)
(* what comes next; the model forgets it.                                  *)
FenceOf(t, fn) == [size |-> t.size, hash |-> t.hash, fn |-> fn]

Kept(data, size) == [o \in {p \in DOMAIN data : p < size} |-> data[o]]

(* Faulty: the chains stay. *)
RestoreSizeOnly(t, f) ==
    [size |-> f.size, allocated |-> t.allocated, hash |-> t.hash, data |-> Kept(t.data, f.size)]

Restore(t, f) ==
    [size |-> f.size, allocated |-> t.allocated, hash |-> f.hash, data |-> Kept(t.data, f.size)]

(* LoadSymbolTable, into the table of a new context. *)
CopyFrom(t) ==
    [size |-> t.size, allocated |-> MakeRoom(Empty, t.size).allocated,
     hash |-> t.hash, data |-> t.data]

-----------------------------------------------------------------------------
(* CNscContext and the parser. *)

Fits == table'.size <= MaxSize

AddPrototype(t, n, len) == Attach(Add(t, n, "Function"), NextOffset(t, n), "extra", len)

(* Parameters, at most one. *)
Parameters == {<<>>} \cup {<<n>> : n \in Names}
AddParameters(t, params) == IF params = <<>> THEN t ELSE Add(t, params[1], "Variable")

(* NscBuildBeginDeclaration outside functions.  A constant is recorded     *)
(* once it has its value.                                                  *)
GlobalVariable(n, const) ==
    /\ fences = <<>>
    /\ Find(table, n, Decl) = 0
    /\ table' = Add(table, n, "Variable")
    /\ globals' = IF const THEN globals ELSE globals \cup {NextOffset(table, n)}
    /\ UNCHANGED fences
    /\ Fits

(* NscBuildEndDeclaration outside functions.  A constant in error is       *)
(* recorded, but gets no value (AddVariableInit).                          *)
GlobalInit(n, len, error) ==
    /\ fences = <<>>
    /\ LET s == Find(table, n, Decl)
       IN /\ s # 0
          /\ table.data[s].kind = "Variable"
          /\ table.data[s].refs = {}
          /\ table' = IF error THEN table ELSE Attach(table, s, "extra", len)
          /\ globals' = globals \cup {s}
    /\ UNCHANGED fences
    /\ Fits

(* NscBuildStruct. *)
Structure(n, len) ==
    /\ fences = <<>>
    /\ Find(table, n, StructTag) = 0
    /\ table' = Attach(Add(table, n, "Structure"), NextOffset(table, n), "extra", len)
    /\ globals' = globals \cup {NextOffset(table, n)}
    /\ UNCHANGED fences
    /\ Fits

(* Faulty: the fence is taken before the symbol is added. *)
NewFunctionInFence(n, params, len) ==
    /\ fences = <<>>
    /\ Find(table, n, Decl) = 0
    /\ LET t == AddPrototype(table, n, len)
       IN /\ fences' = <<FenceOf(table, NextOffset(table, n))>>
          /\ table' = AddParameters(t, params)
    /\ globals' = globals \cup {NextOffset(table, n)}
    /\ Fits

(* NscBuildFunctionDeclarator for a function not declared before: the      *)
(* symbol stays, the parameters go with the function's fence.              *)
NewFunction(n, params, len) ==
    /\ fences = <<>>
    /\ Find(table, n, Decl) = 0
    /\ LET t == AddPrototype(table, n, len)
       IN /\ fences' = <<FenceOf(t, NextOffset(table, n))>>
          /\ table' = AddParameters(t, params)
    /\ globals' = globals \cup {NextOffset(table, n)}
    /\ Fits

(* The same for a function that was: a parameter with another name than in *)
(* the prototype leaves a string with it, whether or not the rest agrees.  *)
KnownFunction(n, params, renamed, agrees, len) ==
    /\ fences = <<>>
    /\ renamed \/ agrees
    /\ renamed => params # <<>>
    /\ LET s == Find(table, n, Decl)
           t == IF renamed THEN Attach(table, s, "string", len) ELSE table
       IN /\ s # 0
          /\ table.data[s].kind = "Function"
          /\ fences' = <<FenceOf(t, IF agrees THEN s ELSE 0)>>
          /\ table' = IF agrees THEN AddParameters(t, params) ELSE t
    /\ UNCHANGED globals
    /\ Fits

(* The same when it reports another error. *)
FunctionInError ==
    /\ fences = <<>>
    /\ fences' = <<FenceOf(table, 0)>>
    /\ UNCHANGED <<table, globals>>

(* NscBuildBeginDeclaration in a function. *)
LocalVariable(n) ==
    /\ fences # <<>>
    /\ table' = Add(table, n, "Variable")
    /\ UNCHANGED <<fences, globals>>
    /\ Fits

(* Faulty: the fence copies the chains of the fence outside. *)
BeginScopeFromFence ==
    /\ fences # <<>> /\ Len(fences) < MaxFences
    /\ fences' = Append(fences, [FenceOf(table, 0) EXCEPT !.hash = fences[Len(fences)].hash])
    /\ UNCHANGED <<table, globals>>

(* NscBuildStatementFence, unless the brace belongs to a control statement, *)
(* and NscBuild5Block. *)
BeginScope ==
    /\ fences # <<>> /\ Len(fences) < MaxFences
    /\ fences' = Append(fences, FenceOf(table, 0))
    /\ UNCHANGED <<table, globals>>

(* Faulty: the table is left to the fence outside. *)
EndScopeOnly(i) ==
    /\ i > 1
    /\ fences' = SubSeq(fences, 1, i - 1)
    /\ UNCHANGED <<table, globals>>

(* NscBuildStatement and NscBuild5Block.  The scopes inside are closed     *)
(* already, but for those a syntax error made the parser forget.           *)
EndScope(i) ==
    /\ i > 1
    /\ table' = Restore(table, fences[i])
    /\ fences' = SubSeq(fences, 1, i - 1)
    /\ UNCHANGED globals

(* NscBuildFunctionPrototype. *)
EndPrototype ==
    /\ Len(fences) = 1
    /\ table' = Restore(table, fences[1])
    /\ fences' = <<>>
    /\ UNCHANGED globals

(* NscBuildFunctionDef: the code of a first, non-empty body stays.  A      *)
(* function that is in error has no symbol to attach it to.                *)
HasCode(t, s) == \E r \in t.data[s].refs : t.data[r].kind = "code"

(* Faulty: the code is stored before the fence is restored. *)
EndFunctionInFence(body) ==
    /\ Len(fences) = 1
    /\ LET s == fences[1].fn
           store == s # 0 /\ body # 0 /\ ~HasCode(table, s)
       IN /\ table' = Restore(IF store THEN Attach(table, s, "code", body) ELSE table, fences[1])
          /\ globals' = IF s = 0 THEN globals ELSE globals \cup {s}
    /\ fences' = <<>>
    /\ Fits

EndFunction(body) ==
    /\ Len(fences) = 1
    /\ LET s == fences[1].fn
           t == Restore(table, fences[1])
           store == s # 0 /\ body # 0 /\ ~HasCode(t, s)
       IN /\ table' = IF store THEN Attach(t, s, "code", body) ELSE t
          /\ globals' = IF s = 0 THEN globals ELSE globals \cup {s}
    /\ fences' = <<>>
    /\ Fits

-----------------------------------------------------------------------------

(* LoadSymbolTable: what nwscript.nss declares, here one function. *)
TableInit ==
    /\ \E n \in Names, len \in DataSizes : table = CopyFrom(AddPrototype(Empty, n, len))
    /\ fences = <<>>
    /\ globals = {}

TableNext ==
    \/ \E n \in Names :
         \/ \E const \in BOOLEAN : GlobalVariable(n, const)
         \/ \E len \in DataSizes, error \in BOOLEAN : GlobalInit(n, len, error)
         \/ \E len \in DataSizes : Structure(n, len)
         \/ \E params \in Parameters, len \in DataSizes :
              \/ NewFunction(n, params, len)
              \/ \E renamed, agrees \in BOOLEAN : KnownFunction(n, params, renamed, agrees, len)
         \/ LocalVariable(n)
    \/ FunctionInError
    \/ BeginScope
    \/ \E i \in DOMAIN fences : EndScope(i)
    \/ EndPrototype
    \/ \E body \in DataSizes \cup {0} : EndFunction(body)

TableSpec == TableInit /\ [][TableNext]_tableVars

-----------------------------------------------------------------------------

WellFormed(t) ==
    /\ t.size \in Nat \ {0}
    /\ t.allocated \in Nat
    /\ t.hash \in [Buckets -> Nat]
    /\ DOMAIN t.data \subseteq 1 .. t.size - 1
    /\ \A o \in DOMAIN t.data : t.data[o] \in Symbol \cup Datum

TableTypeOK ==
    /\ WellFormed(table)
    /\ fences \in Seq([size : Nat \ {0}, hash : [Buckets -> Nat], fn : Nat])
    /\ globals \subseteq Nat

(* The symbols of a bucket below an offset, and the newest of a set. *)
Below(t, b, o) == {p \in Symbols(t) : p < o /\ HashIndex[t.data[p].name] = b}

Newest(p, S) == IF S = {} THEN p = 0 ELSE p \in S /\ \A q \in S : q <= p

(* A bucket leads to its newest symbol, and each symbol to the next older  *)
(* of its bucket: no symbol is lost, and none that went with its scope is  *)
(* on a chain.                                                             *)
Chained(t) ==
    /\ \A b \in Buckets : Newest(t.hash[b], Below(t, b, t.size))
    /\ \A o \in Symbols(t) : Newest(t.data[o].next, Below(t, HashIndex[t.data[o].name], o))

ChainsComplete == Chained(table)

(* The fences are nested, and each holds the chains as they are below it.  *)
Fenced(t, fs) ==
    \A i \in DOMAIN fs :
      /\ fs[i].size <= t.size
      /\ \A j \in 1 .. i : fs[j].size <= fs[i].size
      /\ \A b \in Buckets : Newest(fs[i].hash[b], Below(t, b, fs[i].size))

FencesSound == Fenced(table, fences)

(* What is recorded of global symbols for the code generator, and the      *)
(* symbol of the current function, outlive every scope.                    *)
Global(t, fs, gs) ==
    /\ gs \subseteq Symbols(t)
    /\ \A i \in DOMAIN fs :
         /\ \A g \in gs : g < fs[i].size
         /\ fs[i].fn # 0 => fs[i].fn \in Symbols(t) /\ fs[i].fn < fs[i].size

GlobalsStay == Global(table, fences, globals)

(* The data of a symbol (initial value, prototype, names of parameters,    *)
(* code of the body) is there as long as the symbol is, and still its own. *)
Owned(t, fs) ==
    \A o \in Symbols(t) : \A r \in t.data[o].refs :
      /\ r \in DOMAIN t.data /\ r \notin Symbols(t)
      /\ t.data[r].owner = o
      /\ \A i \in DOMAIN fs : o < fs[i].size => r < fs[i].size

DataStays == Owned(table, fences)

(* Find returns the newest declaration of a name that is still visible.    *)
FindsNewest ==
    \A n \in Names, kinds \in {Decl, StructTag} :
      Newest(Find(table, n, kinds),
             {o \in Symbols(table) : table.data[o].name = n /\ table.data[o].kind \in kinds})

(* Nothing is written past the end of the buffer (MakeRoom). *)
InBuffer == table.size <= table.allocated

(* What is declared below an offset. *)
DeclaredBelow(t, size) ==
    {[name |-> t.data[o].name, kind |-> t.data[o].kind, at |-> o]
       : o \in {p \in Symbols(t) : p < size}}

Declarations == INSTANCE NscDeclarations
                  WITH visible <- DeclaredBelow(table, table.size),
                       scopes <- [i \in DOMAIN fences |-> DeclaredBelow(table, fences[i].size)]

(* The table implements NscDeclarations: a scope that ends leaves exactly  *)
(* the declarations that were visible where it began.                      *)
ImplementsDeclarations == Declarations!Spec
=============================================================================
