------------------------------ MODULE NscLinker ------------------------------
(***************************************************************************)
(* The label linker of the code generator (NscCodeGenerator.cpp:           *)
(* ForwardLabel, ForwardResolve, DefineLabel, ReferenceLabel), which       *)
(* patches the relative jumps of the output buffer.                        *)
(*                                                                         *)
(* m_sLinker is a symbol table: the entry of a label holds nOffset (0      *)
(* while the label has no place) and the chain of back links, the offsets  *)
(* of the jumps emitted before it had one.  The chain is a set here: the   *)
(* order in which its jumps are patched changes nothing.                   *)
(***************************************************************************)
EXTENDS Integers

CONSTANTS Unwritten,   \* an operand whose bytes have not been written
          HeaderSize,  \* bytes of the NCS header written before any code
          JumpSize     \* bytes of a jump instruction

ASSUME LinkerAssumption ==
    /\ HeaderSize \in Nat \ {0}
    /\ JumpSize \in Nat \ {0}
    /\ Unwritten \notin Int

VARIABLES out,      \* m_pauchOut - m_pauchCode
          linker,   \* m_sLinker: label -> [nOffset, links]
          jumps,    \* offset of an emitted jump -> the label it names
          disp      \* offset of an emitted jump -> its operand

linkerVars == <<out, linker, jumps, disp>>

Entry == [nOffset : Nat, links : SUBSET Nat]

LinkerTypeOK ==
    /\ out \in Nat /\ out >= HeaderSize
    /\ linker \in [DOMAIN linker -> Entry]
    /\ DOMAIN jumps \subseteq Nat
    /\ jumps \in [DOMAIN jumps -> DOMAIN linker]
    /\ disp \in [DOMAIN jumps -> Int \cup {Unwritten}]

LinkerInit ==
    /\ out = HeaderSize
    /\ linker = <<>>
    /\ jumps = <<>>
    /\ disp = <<>>

Undefined == [nOffset |-> 0, links |-> {}]

(* Find: the entry of l, a new one if it has none. *)
EntryOf(l) == IF l \in DOMAIN linker THEN linker[l] ELSE Undefined

Store(l, e) ==
    linker' = [k \in DOMAIN linker \cup {l} |-> IF k = l THEN e ELSE linker[k]]

(* An instruction that is not a jump takes n bytes. *)
Emit(n) ==
    /\ out' = out + n
    /\ UNCHANGED <<linker, jumps, disp>>

(* ForwardLabel, for the labels of S: new entries without a place. *)
ForwardLabels(S) ==
    /\ S \cap DOMAIN linker = {}
    /\ linker' = [k \in DOMAIN linker \cup S |->
                    IF k \in S THEN Undefined ELSE linker[k]]
    /\ UNCHANGED <<out, jumps, disp>>

(* Faulty: a new back link does not point to the older ones. *)
ReferenceLabelForgets(l) ==
    LET e == EntryOf(l) IN
    /\ Store(l, IF e.nOffset # 0 THEN e ELSE [e EXCEPT !.links = {out}])
    /\ jumps' = [s \in DOMAIN jumps \cup {out} |-> IF s = out THEN l ELSE jumps[s]]
    /\ disp' = [s \in DOMAIN jumps \cup {out} |->
                  IF s # out THEN disp[s]
                  ELSE IF e.nOffset # 0 THEN e.nOffset - out ELSE Unwritten]
    /\ out' = out + JumpSize

(* Faulty: the back link holds the offset behind the jump. *)
ReferenceLabelBehind(l) ==
    LET e == EntryOf(l) IN
    /\ Store(l, IF e.nOffset # 0 THEN e
                ELSE [e EXCEPT !.links = @ \cup {out + JumpSize}])
    /\ jumps' = [s \in DOMAIN jumps \cup {out} |-> IF s = out THEN l ELSE jumps[s]]
    /\ disp' = [s \in DOMAIN jumps \cup {out} |->
                  IF s # out THEN disp[s]
                  ELSE IF e.nOffset # 0 THEN e.nOffset - out ELSE Unwritten]
    /\ out' = out + JumpSize

(* A jump to l: ReferenceLabel writes the operand when l has a place and   *)
(* links the jump to l otherwise.                                          *)
ReferenceLabel(l) ==
    LET e == EntryOf(l) IN
    /\ Store(l, IF e.nOffset # 0 THEN e
                ELSE [e EXCEPT !.links = @ \cup {out}])
    /\ jumps' = [s \in DOMAIN jumps \cup {out} |->
                   IF s = out THEN l ELSE jumps[s]]
    /\ disp' = [s \in DOMAIN jumps \cup {out} |->
                  IF s # out THEN disp[s]
                  ELSE IF e.nOffset # 0 THEN e.nOffset - out ELSE Unwritten]
    /\ out' = out + JumpSize

(* Faulty: the operand counts from the end of the jump. *)
PlaceLabelFromEnd(l) ==
    LET e == EntryOf(l) IN
    /\ e.nOffset = 0
    /\ Store(l, [e EXCEPT !.nOffset = out])
    /\ disp' = [s \in DOMAIN jumps |->
                  IF s \in e.links THEN out - s - JumpSize ELSE disp[s]]
    /\ UNCHANGED <<out, jumps>>

(* The common part of ForwardResolve and DefineLabel: the label gets the   *)
(* current offset and its chain of back links is patched.                  *)
PlaceLabel(l) ==
    LET e == EntryOf(l) IN
    /\ e.nOffset = 0
    /\ Store(l, [e EXCEPT !.nOffset = out])
    /\ disp' = [s \in DOMAIN jumps |-> IF s \in e.links THEN out - s ELSE disp[s]]
    /\ UNCHANGED <<out, jumps>>

(* ForwardResolve asserts that the entry exists, DefineLabel makes it. *)
ForwardResolve(l) == l \in DOMAIN linker /\ PlaceLabel(l)
DefineLabel(l) == PlaceLabel(l)

LinkerNext ==
    \/ \E n \in Nat \ {0} : Emit(n)
    \/ \E S : ForwardLabels(S)
    \/ \E l : \/ ReferenceLabel(l)
              \/ ForwardResolve(l)
              \/ DefineLabel(l)

LinkerSpec == LinkerInit /\ [][LinkerNext]_linkerVars

-----------------------------------------------------------------------------

(* The jumps whose operand is still to be written. *)
Dangling == {s \in DOMAIN jumps : disp[s] = Unwritten}

(***************************************************************************)
(* A jump is on the chain of its label exactly while the label has no      *)
(* place, and on no other chain; from then on its operand leads to that    *)
(* place, whatever was emitted in between (ReferenceLabel before and after *)
(* ForwardResolve, in any order over several labels).                      *)
(***************************************************************************)
JumpsLinked ==
    \A s \in DOMAIN jumps :
      LET e == linker[jumps[s]] IN
      /\ IF e.nOffset = 0 THEN s \in e.links /\ disp[s] = Unwritten
                          ELSE disp[s] = e.nOffset - s

(* The strengthening that makes JumpsLinked inductive: the offsets on a    *)
(* chain and in an entry lie before the end of the code, and a chain holds *)
(* only jumps of its own label.                                            *)
ChainsSound ==
    /\ \A s \in DOMAIN jumps : s < out
    /\ \A l \in DOMAIN linker :
         /\ linker[l].nOffset <= out
         /\ \A s \in linker[l].links : s \in DOMAIN jumps /\ jumps[s] = l

LinkerInv == LinkerTypeOK /\ JumpsLinked /\ ChainsSound

(* The places of the labels that have one. *)
placeOf == [l \in {k \in DOMAIN linker : linker[k].nOffset # 0} |-> linker[l].nOffset]

(* The abstract specification this one implements. *)
Labels == INSTANCE NscLabels WITH target <- jumps, place <- placeOf
ImplementsLabels == Labels!Spec
=============================================================================
