--------------------------- MODULE NscCodeGenProofs ---------------------------
(***************************************************************************)
(* Proofs about the linker and the generator that uses it.                 *)
(*                                                                         *)
(* 1. The inductive invariant of NscLinker, and that it implements         *)
(*    NscLabels; for whatever program it is given, NscCodeGen uses the     *)
(*    linker as NscLinker says, so that what is proved there holds of its  *)
(*    code.                                                                *)
(* 2. About NscTypes: the table of operands in the parser and the table of *)
(*    type bytes in the code generator agree, whatever structures there    *)
(*    are.                                                                 *)
(* 3. The inductive invariant of the generator, CodeInv: the work that is  *)
(*    left is a way from the depth of the expression stack now to the end  *)
(*    of the script, and places each label that is waited for once.  From  *)
(*    it, the assertions of the generator and the operands of all jumps,   *)
(*    for every program that satisfies what NscPCode says of the parser.   *)
(***************************************************************************)
EXTENDS NscPCode, NscTypes, SequenceTheorems, FiniteSetTheorems, WellFoundedInduction, TLAPS

(* The entry the table holds for a label, or the one it would make, is a   *)
(* well-formed entry: nOffset is 0 or inside the code.                     *)
LEMMA EntryOfType ==
    ASSUME LinkerInv, NEW l
    PROVE  /\ EntryOf(l) \in Entry
           /\ EntryOf(l).nOffset <= out
           /\ \A s \in EntryOf(l).links : s \in DOMAIN jumps /\ jumps[s] = l
BY DEF LinkerInv, LinkerTypeOK, ChainsSound, EntryOf, Entry, Undefined

(* Emitting an instruction that is no jump keeps the linker invariant. *)
LEMMA EmitInv ==
    ASSUME LinkerInv, NEW n \in Nat, Emit(n)
    PROVE  LinkerInv'
BY LinkerAssumption
   DEF LinkerInv, LinkerTypeOK, JumpsLinked, ChainsSound, Emit, Entry

(* ForwardLabel keeps the linker invariant. *)
LEMMA ForwardLabelsInv ==
    ASSUME LinkerInv, NEW S, ForwardLabels(S)
    PROVE  LinkerInv'
<1> USE DEF LinkerInv
<1>1. LinkerTypeOK'
  BY DEF LinkerTypeOK, ForwardLabels, Undefined, Entry
<1>2. JumpsLinked'
  BY DEF LinkerTypeOK, JumpsLinked, ForwardLabels
<1>3. ChainsSound'
  BY DEF LinkerTypeOK, ChainsSound, ForwardLabels, Undefined, Entry
<1> QED BY <1>1, <1>2, <1>3

(* A reference to a label, placed or not, keeps the linker invariant. *)
LEMMA ReferenceLabelInv ==
    ASSUME LinkerInv, NEW l, ReferenceLabel(l)
    PROVE  LinkerInv'
<1> DEFINE e == EntryOf(l)
           f == IF e.nOffset # 0 THEN e ELSE [e EXCEPT !.links = @ \cup {out}]
<1>1. /\ e \in Entry
      /\ e.nOffset <= out
      /\ \A s \in e.links : s \in DOMAIN jumps /\ jumps[s] = l
  BY EntryOfType
<1>2. /\ out \in Nat /\ out >= HeaderSize
      /\ HeaderSize \in Nat \ {0} /\ JumpSize \in Nat \ {0} /\ Unwritten \notin Int
  BY LinkerAssumption DEF LinkerInv, LinkerTypeOK
<1>3. /\ f \in Entry
      /\ f.nOffset = e.nOffset
      /\ f.nOffset = 0 => out \in f.links
      /\ e.links \subseteq f.links
      /\ \A s \in f.links : s \in e.links \/ s = out
  BY <1>1, <1>2 DEF Entry
<1> HIDE DEF f
<1>4. /\ linker' = [k \in DOMAIN linker \cup {l} |-> IF k = l THEN f ELSE linker[k]]
      /\ jumps' = [s \in DOMAIN jumps \cup {out} |-> IF s = out THEN l ELSE jumps[s]]
      /\ disp' = [s \in DOMAIN jumps \cup {out} |->
                    IF s # out THEN disp[s]
                    ELSE IF e.nOffset # 0 THEN e.nOffset - out ELSE Unwritten]
      /\ out' = out + JumpSize
  BY DEF ReferenceLabel, Store, f
<1>5. e = IF l \in DOMAIN linker THEN linker[l] ELSE Undefined
  BY DEF EntryOf
<1> HIDE DEF e
<1>6. out \notin DOMAIN jumps
  BY <1>2 DEF LinkerInv, ChainsSound
<1>7. LinkerTypeOK'
  <2>1. linker' \in [DOMAIN linker' -> Entry]
    BY <1>3, <1>4 DEF LinkerInv, LinkerTypeOK
  <2>2. /\ DOMAIN jumps' \subseteq Nat
        /\ jumps' \in [DOMAIN jumps' -> DOMAIN linker']
    BY <1>2, <1>4 DEF LinkerInv, LinkerTypeOK
  <2>3. disp' \in [DOMAIN jumps' -> Int \cup {Unwritten}]
    BY <1>1, <1>2, <1>4 DEF LinkerInv, LinkerTypeOK, Entry
  <2>4. out' \in Nat /\ out' >= HeaderSize
    BY <1>2, <1>4
  <2> QED BY <2>1, <2>2, <2>3, <2>4 DEF LinkerTypeOK
<1>8. JumpsLinked'
  <2> SUFFICES ASSUME NEW s \in DOMAIN jumps'
               PROVE  IF linker'[jumps'[s]].nOffset = 0
                      THEN s \in linker'[jumps'[s]].links /\ disp'[s] = Unwritten
                      ELSE disp'[s] = linker'[jumps'[s]].nOffset - s
    BY DEF JumpsLinked
  <2>1. CASE s = out
    BY <1>1, <1>2, <1>3, <1>4, <2>1 DEF Entry
  <2>2. CASE s # out
    <3>1. s \in DOMAIN jumps /\ jumps'[s] = jumps[s] /\ disp'[s] = disp[s]
      BY <1>4, <2>2
    <3>2. /\ jumps[s] \in DOMAIN linker
          /\ IF linker[jumps[s]].nOffset = 0
             THEN s \in linker[jumps[s]].links /\ disp[s] = Unwritten
             ELSE disp[s] = linker[jumps[s]].nOffset - s
      BY <3>1 DEF LinkerInv, LinkerTypeOK, JumpsLinked
    <3> QED BY <1>3, <1>4, <1>5, <3>1, <3>2
  <2> QED BY <2>1, <2>2
<1>9. ChainsSound'
  <2>1. \A s \in DOMAIN jumps' : s < out'
    BY <1>2, <1>4 DEF LinkerInv, LinkerTypeOK, ChainsSound
  <2>2. ASSUME NEW k \in DOMAIN linker'
        PROVE  /\ linker'[k].nOffset <= out'
               /\ \A s \in linker'[k].links : s \in DOMAIN jumps' /\ jumps'[s] = k
    <3>1. CASE k = l
      BY <1>1, <1>2, <1>3, <1>4, <1>6, <3>1 DEF Entry
    <3>2. CASE k # l
      <4>1. k \in DOMAIN linker /\ linker'[k] = linker[k]
        BY <1>4, <3>2
      <4>2. linker[k] \in Entry
        BY <4>1 DEF LinkerInv, LinkerTypeOK
      <4> QED BY <1>2, <1>4, <1>6, <4>1, <4>2 DEF LinkerInv, ChainsSound, Entry
    <3> QED BY <3>1, <3>2
  <2> QED BY <2>1, <2>2 DEF ChainsSound
<1> QED BY <1>7, <1>8, <1>9 DEF LinkerInv

(* Placing a label, by ForwardResolve or DefineLabel, keeps the invariant. *)
LEMMA PlaceLabelInv ==
    ASSUME LinkerInv, NEW l, PlaceLabel(l)
    PROVE  LinkerInv'
<1> DEFINE e == EntryOf(l)
           f == [e EXCEPT !.nOffset = out]
<1>1. /\ e \in Entry
      /\ \A s \in e.links : s \in DOMAIN jumps /\ jumps[s] = l
  BY EntryOfType
<1>2. /\ out \in Nat /\ out >= HeaderSize /\ out # 0
      /\ HeaderSize \in Nat \ {0} /\ Unwritten \notin Int
  BY LinkerAssumption DEF LinkerInv, LinkerTypeOK
<1>3. f \in Entry /\ f.nOffset = out /\ f.links = e.links
  BY <1>1, <1>2 DEF Entry
<1> HIDE DEF f
<1>4. /\ e.nOffset = 0
      /\ linker' = [k \in DOMAIN linker \cup {l} |-> IF k = l THEN f ELSE linker[k]]
      /\ disp' = [s \in DOMAIN jumps |-> IF s \in e.links THEN out - s ELSE disp[s]]
      /\ out' = out /\ jumps' = jumps
  BY DEF PlaceLabel, Store, f
<1>5. e = IF l \in DOMAIN linker THEN linker[l] ELSE Undefined
  BY DEF EntryOf
<1> HIDE DEF e
<1>6. LinkerTypeOK'
  BY <1>1, <1>2, <1>3, <1>4 DEF LinkerInv, LinkerTypeOK
<1>7. JumpsLinked'
  <2> SUFFICES ASSUME NEW s \in DOMAIN jumps
               PROVE  IF linker'[jumps[s]].nOffset = 0
                      THEN s \in linker'[jumps[s]].links /\ disp'[s] = Unwritten
                      ELSE disp'[s] = linker'[jumps[s]].nOffset - s
    BY <1>4 DEF JumpsLinked
  <2>1. /\ s \in Nat
        /\ jumps[s] \in DOMAIN linker
        /\ IF linker[jumps[s]].nOffset = 0
           THEN s \in linker[jumps[s]].links /\ disp[s] = Unwritten
           ELSE disp[s] = linker[jumps[s]].nOffset - s
    BY DEF LinkerInv, LinkerTypeOK, JumpsLinked
  <2>2. CASE jumps[s] = l
    BY <1>2, <1>3, <1>4, <1>5, <2>1, <2>2
  <2>3. CASE jumps[s] # l
    <3>1. s \notin e.links
      BY <1>1, <2>3
    <3> QED BY <1>4, <2>1, <2>3, <3>1
  <2> QED BY <2>2, <2>3
<1>8. ChainsSound'
  <2>1. \A s \in DOMAIN jumps' : s < out'
    BY <1>4 DEF LinkerInv, ChainsSound
  <2>2. ASSUME NEW k \in DOMAIN linker'
        PROVE  /\ linker'[k].nOffset <= out'
               /\ \A s \in linker'[k].links : s \in DOMAIN jumps' /\ jumps'[s] = k
    BY <1>1, <1>2, <1>3, <1>4 DEF LinkerInv, ChainsSound
  <2> QED BY <2>1, <2>2 DEF ChainsSound
<1> QED BY <1>6, <1>7, <1>8 DEF LinkerInv

(* Every state of the linker satisfies its invariant: the types, that a    *)
(* jump waits on the chain of its label or leads to it, and that chains    *)
(* hold only jumps of their label.                                         *)
THEOREM LinkerInvariant == LinkerSpec => []LinkerInv
<1>1. LinkerInit => LinkerInv
  BY LinkerAssumption
     DEF LinkerInit, LinkerInv, LinkerTypeOK, JumpsLinked, ChainsSound, Entry
<1>2. LinkerInv /\ [LinkerNext]_linkerVars => LinkerInv'
  <2> SUFFICES ASSUME LinkerInv, [LinkerNext]_linkerVars
               PROVE  LinkerInv'
    OBVIOUS
  <2>1. ASSUME NEW n \in Nat \ {0}, Emit(n) PROVE LinkerInv'
    BY <2>1, EmitInv
  <2>2. ASSUME NEW S, ForwardLabels(S) PROVE LinkerInv'
    BY <2>2, ForwardLabelsInv
  <2>3. ASSUME NEW l, ReferenceLabel(l) PROVE LinkerInv'
    BY <2>3, ReferenceLabelInv
  <2>4. ASSUME NEW l, ForwardResolve(l) \/ DefineLabel(l) PROVE LinkerInv'
    BY <2>4, PlaceLabelInv DEF ForwardResolve, DefineLabel
  <2>5. CASE UNCHANGED linkerVars
    BY <2>5 DEF linkerVars, LinkerInv, LinkerTypeOK, JumpsLinked, ChainsSound, Entry
  <2> QED BY <2>1, <2>2, <2>3, <2>4, <2>5 DEF LinkerNext
<1> QED BY <1>1, <1>2, PTL DEF LinkerSpec

(* The jumps of NscLinker always lead where they should. *)
THEOREM JumpsAlwaysLinked == LinkerSpec => []JumpsLinked
<1>1. LinkerInv => JumpsLinked
  BY DEF LinkerInv
<1> QED BY <1>1, LinkerInvariant, PTL

(* The back links of a label lead through its own jumps and no others, so  *)
(* that ForwardResolve writes no operand twice. *)
COROLLARY ChainsAlwaysSound == LinkerSpec => []ChainsSound
<1>1. LinkerInv => ChainsSound
  BY DEF LinkerInv
<1> QED BY <1>1, LinkerInvariant, PTL

(* The abstract place of a label, whether or not it has one. *)
LEMMA PlaceUnchanged ==
    ASSUME DOMAIN linker \subseteq DOMAIN linker',
           \A k \in DOMAIN linker : linker'[k].nOffset = linker[k].nOffset,
           \A k \in DOMAIN linker' \ DOMAIN linker : linker'[k].nOffset = 0
    PROVE  placeOf' = placeOf
<1>1. {k \in DOMAIN linker' : linker'[k].nOffset # 0}
        = {k \in DOMAIN linker : linker[k].nOffset # 0}
  OBVIOUS
<1> QED BY <1>1 DEF placeOf

(* A reference of the linker is a Jump of NscLabels. *)
LEMMA ReferenceIsJump ==
    ASSUME LinkerInv, NEW l, ReferenceLabel(l)
    PROVE  Labels!Jump(out, l) /\ out \in Nat
<1> DEFINE e == EntryOf(l)
           f == IF e.nOffset # 0 THEN e ELSE [e EXCEPT !.links = @ \cup {out}]
<1>1. e \in Entry
  BY EntryOfType
<1>2. f.nOffset = e.nOffset
  BY <1>1 DEF Entry
<1> HIDE DEF f
<1>3. /\ linker' = [k \in DOMAIN linker \cup {l} |-> IF k = l THEN f ELSE linker[k]]
      /\ jumps' = [s \in DOMAIN jumps \cup {out} |-> IF s = out THEN l ELSE jumps[s]]
      /\ disp' = [s \in DOMAIN jumps \cup {out} |->
                    IF s # out THEN disp[s]
                    ELSE IF e.nOffset # 0 THEN e.nOffset - out ELSE Unwritten]
  BY DEF ReferenceLabel, Store, f
<1>4. e = IF l \in DOMAIN linker THEN linker[l] ELSE Undefined
  BY DEF EntryOf
<1> HIDE DEF e
<1>5. out \in Nat /\ out \notin DOMAIN jumps
  BY DEF LinkerInv, LinkerTypeOK, ChainsSound
<1>6. placeOf' = placeOf
  BY <1>2, <1>3, <1>4, PlaceUnchanged DEF Undefined
<1>7. /\ l \in DOMAIN placeOf <=> e.nOffset # 0
      /\ l \in DOMAIN placeOf => placeOf[l] = e.nOffset
  BY <1>4 DEF placeOf, Undefined
<1>8. disp' = [s \in DOMAIN jumps \cup {out} |->
                 IF s # out THEN disp[s]
                 ELSE IF l \in DOMAIN placeOf THEN placeOf[l] - out ELSE Unwritten]
  BY <1>3, <1>7
<1> QED BY <1>3, <1>5, <1>6, <1>8 DEF Labels!Jump

(* Resolving or defining a label is a Place of NscLabels: patching the     *)
(* chain of back links completes every jump that names the label.          *)
LEMMA PlaceLabelIsPlace ==
    ASSUME LinkerInv, NEW l, PlaceLabel(l)
    PROVE  Labels!Place(l, out) /\ out \in Nat
<1> DEFINE e == EntryOf(l)
           f == [e EXCEPT !.nOffset = out]
<1>1. /\ e \in Entry
      /\ \A s \in e.links : s \in DOMAIN jumps /\ jumps[s] = l
  BY EntryOfType
<1>2. f.nOffset = out
  BY <1>1 DEF Entry
<1> HIDE DEF f
<1>3. /\ e.nOffset = 0
      /\ linker' = [k \in DOMAIN linker \cup {l} |-> IF k = l THEN f ELSE linker[k]]
      /\ disp' = [s \in DOMAIN jumps |-> IF s \in e.links THEN out - s ELSE disp[s]]
      /\ jumps' = jumps
  BY DEF PlaceLabel, Store, f
<1>4. e = IF l \in DOMAIN linker THEN linker[l] ELSE Undefined
  BY DEF EntryOf
<1> HIDE DEF e
<1>5. out \in Nat /\ out # 0
  BY LinkerAssumption DEF LinkerInv, LinkerTypeOK
<1>6. l \notin DOMAIN placeOf
  BY <1>3, <1>4 DEF placeOf
<1>7. placeOf' = [k \in DOMAIN placeOf \cup {l} |-> IF k = l THEN out ELSE placeOf[k]]
  <2>1. DOMAIN placeOf' = DOMAIN placeOf \cup {l}
    BY <1>2, <1>3, <1>5 DEF placeOf
  <2>2. \A k \in DOMAIN placeOf' : placeOf'[k] = IF k = l THEN out ELSE placeOf[k]
    BY <1>2, <1>3, <1>5 DEF placeOf
  <2>3. placeOf' = [k \in DOMAIN placeOf' |-> placeOf'[k]]
    BY DEF placeOf
  <2> QED BY <2>1, <2>2, <2>3
<1>8. ASSUME NEW s \in DOMAIN jumps
      PROVE  s \in e.links <=> jumps[s] = l
  BY <1>1, <1>3, <1>4 DEF LinkerInv, LinkerTypeOK, JumpsLinked
<1>9. disp' = [s \in DOMAIN jumps |-> IF jumps[s] = l THEN out - s ELSE disp[s]]
  BY <1>3, <1>8
<1> QED BY <1>3, <1>5, <1>6, <1>7, <1>9 DEF Labels!Place

(* The linker implements NscLabels: each of its steps places a label,      *)
(* emits a jump, or changes nothing NscLabels sees.                        *)
THEOREM LinkerImplementsLabels == LinkerSpec => ImplementsLabels
<1>1. LinkerInit => Labels!Init
  BY DEF LinkerInit, Labels!Init, placeOf
<1>2. LinkerInv /\ [LinkerNext]_linkerVars => [Labels!Next]_(Labels!labelVars)
  <2> SUFFICES ASSUME LinkerInv, [LinkerNext]_linkerVars
               PROVE  [Labels!Next]_(Labels!labelVars)
    OBVIOUS
  <2>1. ASSUME NEW n \in Nat \ {0}, Emit(n)
        PROVE  UNCHANGED Labels!labelVars
    BY <2>1 DEF Emit, placeOf, Labels!labelVars
  <2>2. ASSUME NEW S, ForwardLabels(S)
        PROVE  UNCHANGED Labels!labelVars
    <3>1. placeOf' = placeOf
      BY <2>2, PlaceUnchanged DEF ForwardLabels, Undefined
    <3> QED BY <2>2, <3>1 DEF ForwardLabels, Labels!labelVars
  <2>3. ASSUME NEW l, ReferenceLabel(l) PROVE Labels!Next
    BY <2>3, ReferenceIsJump DEF Labels!Next
  <2>4. ASSUME NEW l, ForwardResolve(l) \/ DefineLabel(l) PROVE Labels!Next
    BY <2>4, PlaceLabelIsPlace DEF ForwardResolve, DefineLabel, Labels!Next
  <2>5. CASE UNCHANGED linkerVars
    BY <2>5 DEF linkerVars, placeOf, Labels!labelVars
  <2> QED BY <2>1, <2>2, <2>3, <2>4, <2>5 DEF LinkerNext
<1> QED BY <1>1, <1>2, LinkerInvariant, PTL DEF LinkerSpec, ImplementsLabels, Labels!Spec

-----------------------------------------------------------------------------

(* Every instruction has a size. *)
LEMMA InstrSizeType ==
    ASSUME NEW op
    PROVE  InstrSize(op) \in Nat \ {0}
BY LinkerAssumption DEF InstrSize

(* Taking an operation apart makes new labels and emits nothing. *)
LEMMA TakeApartLinks ==
    ASSUME NEW k, NEW items, TakeApart(k, items)
    PROVE  LinkerNext
BY DEF TakeApart, LinkerNext

(* Emitting an instruction, a jump, or placing a label is a linker step. *)
LEMMA EmitLinks ==
    ASSUME EmitIns \/ EmitJump \/ ResolveLabel \/ DefineRoutineLabel
    PROVE  LinkerNext
BY InstrSizeType
   DEF EmitIns, EmitJump, ResolveLabel, DefineRoutineLabel, LinkerNext

(* The items that only set registers of the generator leave the linker alone. *)
LEMMA RegistersUnlinked ==
    ASSUME \/ AdjustDepth \/ AdoptInit \/ Restore \/ PassAssert \/ DropExpression
           \/ CodeRoutine
    PROVE  UNCHANGED linkerVars
BY DEF AdjustDepth, AdoptInit, Restore, PassAssert, DropExpression, CodeRoutine

(* Coding an expression takes it apart. *)
LEMMA ExpressionsLink ==
    ASSUME \/ CodeConst \/ CodeConstantVariable \/ CodeVariable \/ CodeAssignment
           \/ CodeStore \/ CodeOperator \/ CodeLogicalAND \/ CodeLogicalOR
           \/ CodeConditional \/ CodeCall \/ CodeArguments \/ CodeJsr \/ CodeACTION
           \/ CodeSituation \/ CodeExpressionEnd
    PROVE  LinkerNext
BY TakeApartLinks
   DEF CodeConst, CodeConstantVariable, CodeVariable, CodeAssignment, CodeStore,
       CodeOperator, CodeLogicalAND, CodeLogicalOR, CodeConditional, CodeCall,
       CodeArguments, CodeJsr, CodeACTION, CodeSituation, CodeExpressionEnd

(* Coding a statement takes it apart. *)
LEMMA StatementsLink ==
    ASSUME \/ CodeDeclaration \/ CodeStatement \/ CodeBreak \/ CodeContinue
           \/ CodeReturn \/ CodeSetReturn \/ CodeLeave
           \/ CodeIf \/ CodeDo \/ CodeWhile \/ CodeFor \/ CodeSwitch \/ JumpToDefault
           \/ ScanStatement \/ ScanCase \/ ScanDefault \/ ScanOther \/ CodeCase
    PROVE  LinkerNext
BY TakeApartLinks
   DEF CodeDeclaration, CodeStatement, CodeBreak, CodeContinue, CodeReturn,
       CodeSetReturn, CodeLeave, CodeIf, CodeDo, CodeWhile, CodeFor, CodeSwitch,
       JumpToDefault, ScanStatement, ScanCase, ScanDefault, ScanOther, CodeCase

(* So does coding a routine. *)
LEMMA RoutinesLink ==
    ASSUME BeginRoutine \/ CodeGlobal \/ CodeCallEntry
    PROVE  LinkerNext
BY TakeApartLinks DEF BeginRoutine, CodeGlobal, CodeCallEntry

(* For every program, with and without optimisations, the generator        *)
(* implements the linker: it never emits a jump, forwards, resolves or     *)
(* defines a label but by ForwardLabel, ReferenceLabel, ForwardResolve and *)
(* DefineLabel.  Their assertions are guards here: a generator whose       *)
(* assertion fails stops, and AssertsHold of NscCompile is what tells.     *)
THEOREM GeneratorLinks == GenSpec => LinkerSpec
<1>1. GenInit => LinkerInit
  BY DEF GenInit
<1>2. [GenNext]_genVars => [LinkerNext]_linkerVars
  <2>1. CASE UNCHANGED genVars
    BY <2>1 DEF genVars, linkerVars
  <2>2. CASE GenNext
    BY <2>2, EmitLinks, RegistersUnlinked, ExpressionsLink, StatementsLink, RoutinesLink
       DEF GenNext
  <2> QED BY <2>1, <2>2
<1> QED BY <1>1, <1>2, PTL DEF GenSpec, LinkerSpec

(* For every program, a jump in the generated code leads to the place of   *)
(* the label it was emitted for, or waits on the chain of that label.      *)
THEOREM GeneratedJumpsLinked == GenSpec => []JumpsLinked
BY GeneratorLinks, JumpsAlwaysLinked, PTL

(* For every program, the generator implements the abstract labels.        *)
THEOREM GeneratorImplementsLabels == GenSpec => ImplementsLabels
BY GeneratorLinks, LinkerImplementsLabels, PTL

-----------------------------------------------------------------------------
(* A structure is none of the types the tables name. *)
LEMMA StructuresApart ==
    ASSUME NEW s \in Structures
    PROVE  /\ s \notin {"int", "float", "string", "object", "vector"}
           /\ s \notin Engine
BY TypesAssumption

(* CodeBinaryOp has a type byte for two operands that are alike. *)
LEMMA AlikeEncoded ==
    ASSUME NEW t \in ValueTypes
    PROVE  BinaryOpType(TRUE, t, t) # InternalError
<1>1. CASE t \in {"int", "float", "string", "object", "vector"}
  BY <1>1 DEF BinaryOpType, InternalError, Engine
<1>2. CASE t \in Engine
  BY <1>2 DEF BinaryOpType, InternalError, Engine
<1>3. CASE t \in Structures
  BY <1>3, StructuresApart DEF BinaryOpType, InternalError, Engine
<1> QED BY <1>1, <1>2, <1>3 DEF ValueTypes

(* And for each pair that the parser takes where sides may differ. *)
LEMMA ArithmeticEncoded ==
    ASSUME NEW types \in MultiplyTypes \cup CompareTypes \cup VV \cup SS
    PROVE  /\ BinaryOpType(FALSE, types[1], types[2]) # InternalError
           /\ BinaryOpType(TRUE, types[1], types[2]) # InternalError
BY DEF MultiplyTypes, CompareTypes, II, IF1, FI, FF, VF, FV, VV, SS, BinaryOpType, InternalError, Engine

(* A compound assignment is encoded with the type it leaves. *)
LEMMA CompoundEncoded ==
    ASSUME NEW types \in VF \cup II \cup FF \cup FI \cup VV \cup SS
    PROVE  BinaryOpType(FALSE, types[3], types[2]) # InternalError
BY DEF II, FI, FF, VF, VV, SS, BinaryOpType, InternalError, Engine

(* Every operator the parser accepts has an encoding: CodeBinaryOp never   *)
(* reports an invalid binary op, whatever structures there are.            *)
THEOREM TablesAgree == Encodable
<1> SUFFICES ASSUME NEW token \in BinaryOps \cup CompoundOps,
                    NEW types \in OperandTypes(token)
             PROVE  OpTypeOf(token, types) # InternalError
  BY DEF Encodable
<1>1. CASE token \in CompoundOps
  <2>1. types \in VF \cup II \cup FF \cup FI \cup VV \cup SS
    BY <1>1 DEF CompoundOps, OperandTypes, MulDivAssignTypes, AddAssignTypes, SubAssignTypes, IntegerTypes
  <2> QED BY <1>1, <2>1, CompoundEncoded DEF OpTypeOf
<1>2. CASE token \in {"==", "!="}
  <2>1. types \in EqualTypes
    BY <1>2 DEF OperandTypes
  <2>2. PICK t \in ValueTypes : types = <<t, t, "int">>
    BY <2>1 DEF EqualTypes
  <2> QED BY <1>2, <2>2, AlikeEncoded DEF OpTypeOf, CompoundOps
<1>3. CASE token \in BinaryOps \ {"==", "!="}
  <2>1. types \in MultiplyTypes \cup CompareTypes \cup VV \cup SS
    BY <1>3 DEF BinaryOps, OperandTypes, MultiplyTypes, DivideTypes, AddTypes, SubtractTypes,
                CompareTypes, IntegerTypes, FF, II
  <2>2. token \notin CompoundOps /\ (token \in {"==", "!="}) = FALSE
    BY <1>3 DEF CompoundOps, BinaryOps
  <2>3. OpTypeOf(token, types) = BinaryOpType(FALSE, types[1], types[2])
    BY <2>2 DEF OpTypeOf
  <2> QED BY <2>1, <2>3, ArithmeticEncoded
<1> QED BY <1>1, <1>2, <1>3

-----------------------------------------------------------------------------
(* What is needed about sequences. *)
IsSeq(q) == \E S : q \in Seq(S)

LEMMA SeqLength ==
    ASSUME NEW a, IsSeq(a)
    PROVE  Len(a) \in Nat
BY DEF IsSeq

LEMMA SeqConcat ==
    ASSUME NEW a, NEW b, IsSeq(a), IsSeq(b)
    PROVE  /\ IsSeq(a \o b)
           /\ Len(a \o b) = Len(a) + Len(b)
           /\ \A i \in 1 .. Len(a) : (a \o b)[i] = a[i]
           /\ \A i \in 1 .. Len(b) : (a \o b)[Len(a) + i] = b[i]
           /\ \A i \in 1 .. Len(a \o b) :
                IF i <= Len(a) THEN i \in 1 .. Len(a) /\ (a \o b)[i] = a[i]
                ELSE i - Len(a) \in 1 .. Len(b) /\ (a \o b)[i] = b[i - Len(a)]
<1>1. PICK R : a \in Seq(R)
  BY DEF IsSeq
<1>2. PICK S : b \in Seq(S)
  BY DEF IsSeq
<1>3. a \in Seq(R \cup S) /\ b \in Seq(R \cup S)
  BY <1>1, <1>2, SeqMonotonic
<1>4. /\ a \o b \in Seq(R \cup S)
      /\ Len(a \o b) = Len(a) + Len(b)
      /\ \A i \in 1 .. Len(a) + Len(b) : (a \o b)[i] = IF i <= Len(a) THEN a[i] ELSE b[i - Len(a)]
  BY <1>3, ConcatProperties
<1>5. Len(a) \in Nat /\ Len(b) \in Nat
  BY SeqLength
<1>6. IsSeq(a \o b)
  BY <1>4 DEF IsSeq
<1>7. ASSUME NEW i \in 1 .. Len(a) PROVE (a \o b)[i] = a[i]
  BY <1>4, <1>5
<1>8. ASSUME NEW i \in 1 .. Len(b) PROVE (a \o b)[Len(a) + i] = b[i]
  <2>1. Len(a) + i \in 1 .. Len(a) + Len(b) /\ ~(Len(a) + i <= Len(a)) /\ (Len(a) + i) - Len(a) = i
    BY <1>5
  <2>2. (a \o b)[Len(a) + i] = b[(Len(a) + i) - Len(a)]
    BY <1>4, <2>1
  <2> QED BY <2>1, <2>2
<1>9. ASSUME NEW i \in 1 .. Len(a \o b)
      PROVE  IF i <= Len(a) THEN i \in 1 .. Len(a) /\ (a \o b)[i] = a[i]
             ELSE i - Len(a) \in 1 .. Len(b) /\ (a \o b)[i] = b[i - Len(a)]
  BY <1>4, <1>5
<1> QED BY <1>4, <1>6, <1>7, <1>8, <1>9

LEMMA SeqOne ==
    ASSUME NEW x
    PROVE  IsSeq(<<x>>) /\ Len(<<x>>) = 1 /\ <<x>>[1] = x
<1>1. <<x>> \in Seq({x})
  OBVIOUS
<1> QED BY <1>1 DEF IsSeq

LEMMA SeqNone == IsSeq(<<>>) /\ Len(<<>>) = 0
<1>1. <<>> \in Seq({})
  OBVIOUS
<1> QED BY <1>1 DEF IsSeq

(* Taking the first item off. *)
LEMMA SeqTail ==
    ASSUME NEW w, IsSeq(w), w # <<>>
    PROVE  /\ IsSeq(Tail(w))
           /\ Len(w) >= 1
           /\ Len(Tail(w)) = Len(w) - 1
           /\ \A i \in 1 .. Len(Tail(w)) : Tail(w)[i] = w[i + 1] /\ i + 1 \in 1 .. Len(w)
<1>1. PICK S : w \in Seq(S)
  BY DEF IsSeq
<1>2. /\ Tail(w) \in Seq(S) /\ Len(Tail(w)) = Len(w) - 1 /\ Len(w) >= 1
      /\ \A i \in 1 .. Len(Tail(w)) : Tail(w)[i] = w[i + 1]
  BY <1>1
<1> QED BY <1>2 DEF IsSeq

(* A sequence made from an other, element by element. *)
LEMMA SeqMap ==
    ASSUME NEW n \in Nat, NEW f, f = [i \in 1 .. n |-> f[i]]
    PROVE  IsSeq(f) /\ Len(f) = n
<1>1. f \in [1 .. n -> {f[i] : i \in 1 .. n}]
  OBVIOUS
<1>2. f \in Seq({f[i] : i \in 1 .. n})
  BY <1>1, SeqDef
<1>3. Len(f) = n
  BY <1>1, <1>2, LenProperties
<1> QED BY <1>2, <1>3 DEF IsSeq

-----------------------------------------------------------------------------
(***************************************************************************)
(* The way through the items of work.  A state of the way: m_nExpDepth,    *)
(* the jumps out of the block at hand that have a label, and the size of   *)
(* what a return returns, if there may be one.                             *)
(***************************************************************************)
State == [exp : Int, exits : SUBSET {"break", "continue"},
          rets : {R \in SUBSET Int : \A v, w \in R : v = w}]
Ground == [exp |-> 0, exits |-> {}, rets |-> {}]
At(s, d) == [exp |-> s.exp + d, exits |-> s.exits, rets |-> s.rets]

(* d slots more, and nothing else. *)
Moves(s, u, d) == u.exp = s.exp + d /\ u.exits = s.exits /\ u.rets = s.rets

(* The operations the generator itself puts into work. *)
Made == {"Store", "SetReturn", "Args", "Jsr", "Action", "Situation", "Leave"}

(* From s the code of n leads to u, if the labels in C get a place. *)
CodeStep(n, s, u, t, C) ==
    /\ n.op \in ExprOps => n \in t.exprs /\ Moves(s, u, ExprSize(n))
    /\ n.op \in {"Store", "SetReturn"} => Moves(s, u, 0)
    /\ n.op = "Decl" => OptBlock(n.init, 1, t) /\ Moves(s, u, 0)
    /\ n.op = "Args" => ArgsOK(n.args, t) /\ IsSeq(n.args) /\ Moves(s, u, ArgumentSize(n.args))
    /\ n.op = "Jsr" => Fn(n.fn) \in C /\ Moves(s, u, -n.size)
    /\ n.op = "Action" => Moves(s, u, n.ret - n.args)
    /\ n.op = "Situation" => ExprBlock(n.data, 0, t) /\ Moves(s, u, 0)
    /\ n.op = "Leave" => \E v \in s.rets : Moves(s, u, IF t.prog.opt THEN -v ELSE 0)
    /\ n.op = "End" => n \in DOMAIN t.about /\ s.exp = n.size /\ Moves(s, u, -n.size)
    /\ n.op \notin ExprOps \cup {"Decl", "End"} \cup Made =>
         /\ n \in DOMAIN t.about /\ s.exp = 0 /\ Moves(s, u, t.about[n].size)
         /\ t.about[n].exits \subseteq s.exits /\ t.about[n].returns \subseteq s.rets

BodyOf(r) == IF r.defined THEN r.body ELSE <<>>
IsRoutine(r, t) == \E i \in 1 .. Len(t.prog.routines) : r = t.prog.routines[i]

Kinds == {"code", "ins", "jump", "adjust", "resolve", "adopt", "restore", "assert", "drop",
          "jmpdefault", "scan", "callentry", "global", "define", "routine", "begin"}

(* Nothing but the last instruction of a routine and a restored label      *)
(* changes where the jumps may lead. *)
Step(x, s, u, t, C) ==
    /\ x.do \in Kinds
    /\ x.do = "code" => CodeStep(x.pc, s, u, t, C)
    /\ x.do = "ins" => \/ Moves(s, u, x.dExp)
                       \/ x.op = "RETN" /\ u = Ground /\ u.exp = s.exp + x.dExp
    /\ x.do = "jump" => x.label \in C /\ Moves(s, u, x.dExp)
    /\ x.do = "adjust" => Moves(s, u, x.dExp)
    /\ x.do = "resolve" => Moves(s, u, 0)
    /\ x.do = "adopt" => x.exp \in Int /\ Moves(s, u, x.exp - s.exp)
    /\ x.do = "restore" => /\ u.exp = s.exp /\ u.rets = s.rets
                           /\ "break" \in u.exits => x.brk.label \in C
                           /\ "continue" \in u.exits => x.cont.label \in C
    /\ x.do = "assert" => s.exp = 0 /\ Moves(s, u, 0)
    /\ x.do = "drop" => Moves(s, u, -s.exp)
    /\ x.do = "jmpdefault" => x.end \in C /\ Moves(s, u, 0)
    /\ x.do = "scan" => x.pc \in t.exprs \cup DOMAIN t.about /\ Moves(s, u, 0)
    /\ x.do = "callentry" => Fn(t.prog.entry) \in C /\ Moves(s, u, 0)
    /\ x.do = "global" => s.exp = 0 /\ OptBlock(x.pc.init, 1, t) /\ Moves(s, u, 0)
    /\ x.do = "define" => s.exp = 0 /\ u = Ground
    /\ x.do = "routine" => IsRoutine(x.r, t) /\ s.exp = 0 /\ u = Ground
    /\ x.do = "begin" => IsRoutine(x.r, t) /\ x.r.defined /\ u = Ground

Leads(items, s, u, t, C) ==
    \E f \in [1 .. Len(items) + 1 -> State] :
      /\ f[1] = s /\ f[Len(items) + 1] = u
      /\ \A i \in 1 .. Len(items) : Step(items[i], f[i], f[i + 1], t, C)

-----------------------------------------------------------------------------
(* What an item will do to the labels: those it places, the case labels    *)
(* in its code, and those among them that CodeScanCase has still to meet. *)
LabelsAt(ids, cs) == {cs[id] : id \in ids \cap DOMAIN cs}
Places(x, t, cs) ==
    CASE x.do \in {"resolve", "define"} -> {x.label}
      [] x.do = "routine" -> {Fn(x.r.name)}
      [] x.do = "code" -> LabelsAt(Of(x.pc, t, "labels"), cs)
      [] OTHER -> {}
Ids(x, t) ==
    CASE x.do = "code" -> Of(x.pc, t, "ids")
      [] x.do \in {"routine", "begin"} -> OfBlock(BodyOf(x.r), t, "ids")
      [] OTHER -> {}
Unseen(x, t) ==
    CASE x.do = "code" -> Of(x.pc, t, "ids") \ Of(x.pc, t, "labels")
      [] x.do = "scan" -> Of(x.pc, t, "labels")
      [] x.do \in {"routine", "begin"} -> OfBlock(BodyOf(x.r), t, "ids")
      [] OTHER -> {}
Holds(x, id, t) == x.do = "code" /\ id \in Of(x.pc, t, "labels")

PlacesOf(items, t, cs) == UNION {Places(items[i], t, cs) : i \in 1 .. Len(items)}
IdsOf(items, t) == UNION {Ids(items[i], t) : i \in 1 .. Len(items)}
UnseenOf(items, t) == UNION {Unseen(items[i], t) : i \in 1 .. Len(items)}

Clear(x, y, t, cs) ==
    /\ Places(x, t, cs) \cap Places(y, t, cs) = {}
    /\ Ids(x, t) \cap Ids(y, t) = {}
    /\ Unseen(x, t) \cap Unseen(y, t) = {}

Apart(items, t, cs) ==
    \A i, j \in 1 .. Len(items) : i # j => Clear(items[i], items[j], t, cs)

(* A case label that is compared with is met later, or is one of Q. *)
Found(items, id, t) == \E j \in 1 .. Len(items) : Holds(items[j], id, t)
Pending(items, Q, t) ==
    \A i \in 1 .. Len(items) : items[i].do = "scan" =>
      \A id \in Of(items[i].pc, t, "labels") :
        id \in Q \/ \E j \in i + 1 .. Len(items) : Holds(items[j], id, t)

(* A piece of work: the labels it places are P, its case labels are among  *)
(* I, those still to be met among U.                                       *)
Shape(items, P, I, U, Q, t, cs) ==
    /\ IsSeq(items)
    /\ PlacesOf(items, t, cs) = P
    /\ IdsOf(items, t) \subseteq I
    /\ UnseenOf(items, t) \subseteq U
    /\ Apart(items, t, cs)
    /\ Pending(items, Q, t)

Firm(x) == x.do \in {"define", "routine"}
Part(items, s, u, P, I, U, Q, t, C, cs) ==
    /\ Shape(items, P, I, U, Q, t, cs)
    /\ Leads(items, s, u, t, C)
    /\ \A i \in 1 .. Len(items) : ~Firm(items[i])

(* A piece that has nothing to do with labels of its own. *)
Bare(x, t) ==
    /\ x.do \notin {"resolve", "define", "routine", "begin", "scan"}
    /\ x.do = "code" => x.pc \notin DOMAIN t.about
Flat(items, s, u, t, C) ==
    /\ IsSeq(items)
    /\ Leads(items, s, u, t, C)
    /\ \A i \in 1 .. Len(items) : Bare(items[i], t)

-----------------------------------------------------------------------------
(* Taking a sequence of items together, and apart. *)

LEMMA LeadsOne ==
    ASSUME NEW x, NEW s \in State, NEW u \in State, NEW t, NEW C, Step(x, s, u, t, C)
    PROVE  Leads(<<x>>, s, u, t, C)
<1> DEFINE f == [i \in 1 .. 2 |-> IF i = 1 THEN s ELSE u]
<1>1. Len(<<x>>) = 1 /\ <<x>>[1] = x
  OBVIOUS
<1>2. f \in [1 .. 2 -> State] /\ f[1] = s /\ f[2] = u
  OBVIOUS
<1> HIDE DEF f
<1>3. ASSUME NEW i \in 1 .. 1 PROVE Step(<<x>>[i], f[i], f[i + 1], t, C)
  <2>1. i = 1
    OBVIOUS
  <2> QED BY <1>1, <1>2, <2>1
<1> QED BY <1>1, <1>2, <1>3 DEF Leads

LEMMA LeadsNone ==
    ASSUME NEW s \in State, NEW t, NEW C
    PROVE  Leads(<<>>, s, s, t, C)
<1> DEFINE f == [i \in 1 .. 1 |-> s]
<1>1. Len(<<>>) = 0
  OBVIOUS
<1>2. f \in [1 .. 1 -> State] /\ f[1] = s
  OBVIOUS
<1> HIDE DEF f
<1>3. Len(<<>>) + 1 = 1 /\ 1 .. Len(<<>>) = {}
  BY <1>1
<1> QED BY <1>2, <1>3 DEF Leads

LEMMA LeadsJoin ==
    ASSUME NEW a, NEW b, IsSeq(a), IsSeq(b), NEW s, NEW v, NEW u, NEW t, NEW C,
           Leads(a, s, v, t, C), Leads(b, v, u, t, C)
    PROVE  Leads(a \o b, s, u, t, C)
<1>1. PICK f \in [1 .. Len(a) + 1 -> State] :
        /\ f[1] = s /\ f[Len(a) + 1] = v
        /\ \A i \in 1 .. Len(a) : Step(a[i], f[i], f[i + 1], t, C)
  BY DEF Leads
<1>2. PICK g \in [1 .. Len(b) + 1 -> State] :
        /\ g[1] = v /\ g[Len(b) + 1] = u
        /\ \A i \in 1 .. Len(b) : Step(b[i], g[i], g[i + 1], t, C)
  BY DEF Leads
<1> DEFINE m == Len(a)
           n == Len(b)
           h == [i \in 1 .. m + n + 1 |-> IF i <= m THEN f[i] ELSE g[i - m]]
<1>3. m \in Nat /\ n \in Nat
  BY SeqLength
<1>4. Len(a \o b) = m + n
  BY SeqConcat
<1>5. ASSUME NEW i \in 1 .. m + n + 1
      PROVE  /\ i <= m + 1 => i \in 1 .. m + 1 /\ h[i] = f[i]
             /\ ~(i <= m) => i - m \in 1 .. n + 1 /\ h[i] = g[i - m]
             /\ h[i] \in State
  <2>1. CASE i <= m
    <3>1. i \in 1 .. m + 1 /\ h[i] = f[i]
      BY <1>3, <2>1
    <3> QED BY <1>1, <2>1, <3>1
  <2>2. CASE ~(i <= m)
    <3>1. i - m \in 1 .. n + 1 /\ h[i] = g[i - m]
      BY <1>3, <2>2
    <3>2. ASSUME i <= m + 1 PROVE i = m + 1 /\ i - m = 1 /\ i \in 1 .. m + 1
      BY <1>3, <2>2, <3>2
    <3>3. h[i] \in State
      BY <1>2, <3>1
    <3> QED BY <1>1, <1>2, <2>2, <3>1, <3>2, <3>3
  <2> QED BY <2>1, <2>2
<1>6. h \in [1 .. m + n + 1 -> State]
  BY <1>5
<1>7. 1 \in 1 .. m + n + 1 /\ m + n + 1 \in 1 .. m + n + 1 /\ 1 <= m + 1
      /\ ~(m + n + 1 <= m) /\ (m + n + 1) - m = n + 1
  BY <1>3
<1> HIDE DEF h
<1>8. h[1] = s /\ h[m + n + 1] = u
  BY <1>1, <1>2, <1>5, <1>7
<1>9. ASSUME NEW i \in 1 .. m + n
      PROVE  Step((a \o b)[i], h[i], h[i + 1], t, C)
  <2>1. i \in 1 .. m + n + 1 /\ i + 1 \in 1 .. m + n + 1
    BY <1>3
  <2>2. CASE i <= m
    <3>1. i \in 1 .. m /\ (a \o b)[i] = a[i]
      BY <1>4, <2>2, SeqConcat
    <3>2. i <= m + 1 /\ i + 1 <= m + 1
      BY <1>3, <2>2
    <3>3. h[i] = f[i] /\ h[i + 1] = f[i + 1]
      BY <1>5, <2>1, <3>2
    <3> HIDE DEF m
    <3> QED BY <1>1, <3>1, <3>3 DEF m
  <2>3. CASE ~(i <= m)
    <3>1. i - m \in 1 .. n /\ (a \o b)[i] = b[i - m]
      BY <1>4, <2>3, SeqConcat
    <3>2. ~(i + 1 <= m) /\ (i + 1) - m = (i - m) + 1
      BY <1>3, <2>3
    <3>3. h[i] = g[i - m] /\ h[i + 1] = g[(i - m) + 1]
      BY <1>5, <2>1, <2>3, <3>2
    <3>4. Step(b[i - m], g[i - m], g[(i - m) + 1], t, C)
      BY <1>2, <3>1
    <3> QED BY <3>1, <3>3, <3>4
  <2> QED BY <2>2, <2>3
<1>10. \A i \in 1 .. Len(a \o b) : Step((a \o b)[i], h[i], h[i + 1], t, C)
  BY <1>4, <1>9
<1> QED BY <1>4, <1>6, <1>8, <1>10 DEF Leads

LEMMA LeadsSplit ==
    ASSUME NEW w, IsSeq(w), w # <<>>, NEW s, NEW u, NEW t, NEW C, Leads(w, s, u, t, C)
    PROVE  \E v \in State : Step(w[1], s, v, t, C) /\ Leads(Tail(w), v, u, t, C)
<1>1. PICK f \in [1 .. Len(w) + 1 -> State] :
        /\ f[1] = s /\ f[Len(w) + 1] = u
        /\ \A i \in 1 .. Len(w) : Step(w[i], f[i], f[i + 1], t, C)
  BY DEF Leads
<1> DEFINE n == Len(Tail(w))
           g == [i \in 1 .. n + 1 |-> f[i + 1]]
<1>2. /\ Len(w) = n + 1 /\ n \in Nat
      /\ \A i \in 1 .. n : Tail(w)[i] = w[i + 1] /\ i + 1 \in 1 .. Len(w)
  BY SeqTail, SeqLength
<1> HIDE DEF n
<1>3. ASSUME NEW i \in 1 .. n + 1 PROVE i + 1 \in 1 .. Len(w) + 1 /\ g[i] = f[i + 1]
  BY <1>2
<1>4. g \in [1 .. n + 1 -> State]
  BY <1>1, <1>3
<1>5. f[2] \in State /\ Step(w[1], s, f[2], t, C)
  <2>1. 1 \in 1 .. Len(w) /\ 2 \in 1 .. Len(w) + 1
    BY <1>2
  <2>2. Step(w[1], f[1], f[1 + 1], t, C)
    BY <1>1, <2>1
  <2> QED BY <1>1, <2>1, <2>2
<1>6. g[1] = f[2] /\ g[n + 1] = u
  <2>1. 1 \in 1 .. n + 1 /\ n + 1 \in 1 .. n + 1 /\ Len(w) + 1 = (n + 1) + 1
    BY <1>2
  <2> QED BY <1>1, <1>3, <2>1
<1> HIDE DEF g
<1>7. ASSUME NEW i \in 1 .. n
      PROVE  Step(Tail(w)[i], g[i], g[i + 1], t, C)
  <2>1. i \in 1 .. n + 1 /\ i + 1 \in 1 .. n + 1
    BY <1>2
  <2>2. Step(w[i + 1], f[i + 1], f[(i + 1) + 1], t, C)
    BY <1>1, <1>2
  <2> QED BY <1>2, <1>3, <2>1, <2>2 DEF g
<1>8. Leads(Tail(w), f[2], u, t, C)
  BY <1>4, <1>6, <1>7 DEF Leads, n
<1> QED BY <1>5, <1>8

(* More labels that get a place do no harm. *)
LEMMA StepMore ==
    ASSUME NEW x, NEW s, NEW u, NEW t, NEW C, NEW D, C \subseteq D, Step(x, s, u, t, C)
    PROVE  Step(x, s, u, t, D)
<1>1. CASE x.do = "code"
  <2>1. CodeStep(x.pc, s, u, t, C)
    BY <1>1 DEF Step
  <2>2. CodeStep(x.pc, s, u, t, D)
    BY <2>1 DEF CodeStep
  <2> QED BY <1>1, <2>2 DEF Step
<1>2. CASE x.do # "code"
  BY <1>2 DEF Step
<1> QED BY <1>1, <1>2

LEMMA LeadsMore ==
    ASSUME NEW items, NEW s, NEW u, NEW t, NEW C, NEW D, C \subseteq D, Leads(items, s, u, t, C)
    PROVE  Leads(items, s, u, t, D)
<1>1. PICK f \in [1 .. Len(items) + 1 -> State] :
        /\ f[1] = s /\ f[Len(items) + 1] = u
        /\ \A i \in 1 .. Len(items) : Step(items[i], f[i], f[i + 1], t, C)
  BY DEF Leads
<1>2. \A i \in 1 .. Len(items) : Step(items[i], f[i], f[i + 1], t, D)
  BY <1>1, StepMore
<1> QED BY <1>1, <1>2 DEF Leads

-----------------------------------------------------------------------------
(* What the items of a piece are to each other. *)

LEMMA PlacesMember ==
    ASSUME NEW items, NEW i \in 1 .. Len(items), NEW t, NEW cs
    PROVE  /\ Places(items[i], t, cs) \subseteq PlacesOf(items, t, cs)
           /\ Ids(items[i], t) \subseteq IdsOf(items, t)
           /\ Unseen(items[i], t) \subseteq UnseenOf(items, t)
BY DEF PlacesOf, IdsOf, UnseenOf

(* An item of a taken together sequence is one of the left or the right. *)
LEMMA JoinItems ==
    ASSUME NEW a, NEW b, IsSeq(a), IsSeq(b), NEW t, NEW cs
    PROVE  /\ PlacesOf(a \o b, t, cs) = PlacesOf(a, t, cs) \cup PlacesOf(b, t, cs)
           /\ IdsOf(a \o b, t) = IdsOf(a, t) \cup IdsOf(b, t)
           /\ UnseenOf(a \o b, t) = UnseenOf(a, t) \cup UnseenOf(b, t)
<1> DEFINE c == a \o b
<1>1. /\ \A i \in 1 .. Len(a) : i \in 1 .. Len(c) /\ c[i] = a[i]
      /\ \A i \in 1 .. Len(b) : Len(a) + i \in 1 .. Len(c) /\ c[Len(a) + i] = b[i]
      /\ \A i \in 1 .. Len(c) : \/ i \in 1 .. Len(a) /\ c[i] = a[i]
                                \/ i - Len(a) \in 1 .. Len(b) /\ c[i] = b[i - Len(a)]
  <2>1. Len(a) \in Nat /\ Len(b) \in Nat
    BY SeqLength
  <2>2. /\ Len(c) = Len(a) + Len(b)
        /\ \A i \in 1 .. Len(a) : c[i] = a[i]
        /\ \A i \in 1 .. Len(b) : c[Len(a) + i] = b[i]
        /\ \A i \in 1 .. Len(c) :
             IF i <= Len(a) THEN i \in 1 .. Len(a) /\ c[i] = a[i]
             ELSE i - Len(a) \in 1 .. Len(b) /\ c[i] = b[i - Len(a)]
    BY SeqConcat
  <2> HIDE DEF c
  <2> QED BY <2>1, <2>2
<1> HIDE DEF c
<1>2. PlacesOf(c, t, cs) = PlacesOf(a, t, cs) \cup PlacesOf(b, t, cs)
  <2>1. PlacesOf(c, t, cs) \subseteq PlacesOf(a, t, cs) \cup PlacesOf(b, t, cs)
    BY <1>1 DEF PlacesOf
  <2>2. PlacesOf(a, t, cs) \subseteq PlacesOf(c, t, cs)
    BY <1>1 DEF PlacesOf
  <2>3. PlacesOf(b, t, cs) \subseteq PlacesOf(c, t, cs)
    BY <1>1 DEF PlacesOf
  <2> QED BY <2>1, <2>2, <2>3
<1>3. IdsOf(c, t) = IdsOf(a, t) \cup IdsOf(b, t)
  <2>1. IdsOf(c, t) \subseteq IdsOf(a, t) \cup IdsOf(b, t)
    BY <1>1 DEF IdsOf
  <2>2. IdsOf(a, t) \subseteq IdsOf(c, t)
    BY <1>1 DEF IdsOf
  <2>3. IdsOf(b, t) \subseteq IdsOf(c, t)
    BY <1>1 DEF IdsOf
  <2> QED BY <2>1, <2>2, <2>3
<1>4. UnseenOf(c, t) = UnseenOf(a, t) \cup UnseenOf(b, t)
  <2>1. UnseenOf(c, t) \subseteq UnseenOf(a, t) \cup UnseenOf(b, t)
    BY <1>1 DEF UnseenOf
  <2>2. UnseenOf(a, t) \subseteq UnseenOf(c, t)
    BY <1>1 DEF UnseenOf
  <2>3. UnseenOf(b, t) \subseteq UnseenOf(c, t)
    BY <1>1 DEF UnseenOf
  <2> QED BY <2>1, <2>2, <2>3
<1> QED BY <1>2, <1>3, <1>4 DEF c

LEMMA JoinApart ==
    ASSUME NEW a, NEW b, IsSeq(a), IsSeq(b), NEW t, NEW cs, Apart(a, t, cs), Apart(b, t, cs),
           \A i \in 1 .. Len(a), j \in 1 .. Len(b) : Clear(a[i], b[j], t, cs)
    PROVE  Apart(a \o b, t, cs)
<1> DEFINE c == a \o b
<1> SUFFICES ASSUME NEW i \in 1 .. Len(c), NEW j \in 1 .. Len(c), i # j
             PROVE  Clear(c[i], c[j], t, cs)
  BY DEF Apart
<1>1. \A x, y : Clear(x, y, t, cs) <=> Clear(y, x, t, cs)
  BY DEF Clear
<1>2. Len(a) \in Nat /\ i \in Int /\ j \in Int
  BY SeqLength
<1>3. \/ i \in 1 .. Len(a) /\ c[i] = a[i]
      \/ ~(i <= Len(a)) /\ i - Len(a) \in 1 .. Len(b) /\ c[i] = b[i - Len(a)]
  BY SeqConcat
<1>4. \/ j \in 1 .. Len(a) /\ c[j] = a[j]
      \/ ~(j <= Len(a)) /\ j - Len(a) \in 1 .. Len(b) /\ c[j] = b[j - Len(a)]
  BY SeqConcat
<1> HIDE DEF c
<1>5. i - Len(a) # j - Len(a)
  BY <1>2
<1> QED BY <1>1, <1>3, <1>4, <1>5 DEF Apart

LEMMA JoinPending ==
    ASSUME NEW a, NEW b, IsSeq(a), IsSeq(b), NEW t, NEW Q1, NEW Q2, NEW Q,
           Pending(a, Q1, t), Pending(b, Q2, t),
           \A id \in Q1 : id \in Q \/ Found(b, id, t), Q2 \subseteq Q
    PROVE  Pending(a \o b, Q, t)
<1> DEFINE c == a \o b
<1>1. Len(a) \in Nat /\ Len(b) \in Nat /\ Len(c) = Len(a) + Len(b)
  BY SeqLength, SeqConcat
<1>2. /\ \A i \in 1 .. Len(a) : c[i] = a[i]
      /\ \A i \in 1 .. Len(b) : c[Len(a) + i] = b[i]
      /\ \A i \in 1 .. Len(c) :
           IF i <= Len(a) THEN i \in 1 .. Len(a) /\ c[i] = a[i]
           ELSE i - Len(a) \in 1 .. Len(b) /\ c[i] = b[i - Len(a)]
  BY SeqConcat
<1> HIDE DEF c
<1> SUFFICES ASSUME NEW i \in 1 .. Len(c), c[i].do = "scan", NEW id \in Of(c[i].pc, t, "labels"),
                    id \notin Q
             PROVE  \E j \in i + 1 .. Len(c) : Holds(c[j], id, t)
  BY DEF Pending, c
<1>3. CASE i <= Len(a)
  <2>1. i \in 1 .. Len(a) /\ c[i] = a[i]
    BY <1>2, <1>3
  <2>2. id \in Q1 \/ \E j \in i + 1 .. Len(a) : Holds(a[j], id, t)
    BY <2>1 DEF Pending
  <2>3. CASE id \in Q1
    <3>1. PICK j \in 1 .. Len(b) : Holds(b[j], id, t)
      BY <2>3 DEF Found
    <3>2. Len(a) + j \in i + 1 .. Len(c)
      BY <1>1, <2>1
    <3> QED BY <1>2, <3>1, <3>2
  <2>4. ASSUME NEW j \in i + 1 .. Len(a), Holds(a[j], id, t)
        PROVE  \E k \in i + 1 .. Len(c) : Holds(c[k], id, t)
    <3>1. j \in 1 .. Len(a) /\ j \in i + 1 .. Len(c)
      BY <1>1, <2>1
    <3> QED BY <1>2, <2>4, <3>1
  <2> QED BY <2>2, <2>3, <2>4
<1>4. CASE ~(i <= Len(a))
  <2>1. i - Len(a) \in 1 .. Len(b) /\ c[i] = b[i - Len(a)]
    BY <1>2, <1>4
  <2>2. id \notin Q2
    OBVIOUS
  <2>3. PICK j \in (i - Len(a)) + 1 .. Len(b) : Holds(b[j], id, t)
    BY <2>1, <2>2 DEF Pending
  <2>4. j \in 1 .. Len(b) /\ Len(a) + j \in i + 1 .. Len(c)
    BY <1>1, <2>1
  <2> QED BY <1>2, <2>3, <2>4
<1> QED BY <1>3, <1>4

LEMMA ShapeJoin ==
    ASSUME NEW a, NEW b, NEW t, NEW cs, NEW P1, NEW I1, NEW U1, NEW Q1, NEW P2, NEW I2, NEW U2, NEW Q2,
           NEW Q, Shape(a, P1, I1, U1, Q1, t, cs), Shape(b, P2, I2, U2, Q2, t, cs),
           P1 \cap P2 = {}, I1 \cap I2 = {}, U1 \cap U2 = {},
           \A id \in Q1 : id \in Q \/ Found(b, id, t), Q2 \subseteq Q
    PROVE  Shape(a \o b, P1 \cup P2, I1 \cup I2, U1 \cup U2, Q, t, cs)
<1>1. IsSeq(a) /\ IsSeq(b)
  BY DEF Shape
<1>2. IsSeq(a \o b)
  BY <1>1, SeqConcat
<1>3. ASSUME NEW i \in 1 .. Len(a), NEW j \in 1 .. Len(b)
      PROVE  Clear(a[i], b[j], t, cs)
  <2>1. Places(a[i], t, cs) \subseteq P1 /\ Ids(a[i], t) \subseteq I1 /\ Unseen(a[i], t) \subseteq U1
    BY PlacesMember DEF Shape
  <2>2. Places(b[j], t, cs) \subseteq P2 /\ Ids(b[j], t) \subseteq I2 /\ Unseen(b[j], t) \subseteq U2
    BY PlacesMember DEF Shape
  <2> QED BY <2>1, <2>2 DEF Clear
<1>4. Apart(a \o b, t, cs)
  BY <1>1, <1>3, JoinApart DEF Shape
<1>5. Pending(a \o b, Q, t)
  BY <1>1, JoinPending DEF Shape
<1>6. /\ PlacesOf(a \o b, t, cs) = P1 \cup P2
      /\ IdsOf(a \o b, t) \subseteq I1 \cup I2
      /\ UnseenOf(a \o b, t) \subseteq U1 \cup U2
  <2>1. PlacesOf(a, t, cs) = P1 /\ IdsOf(a, t) \subseteq I1 /\ UnseenOf(a, t) \subseteq U1
    BY DEF Shape
  <2>2. PlacesOf(b, t, cs) = P2 /\ IdsOf(b, t) \subseteq I2 /\ UnseenOf(b, t) \subseteq U2
    BY DEF Shape
  <2> QED BY <1>1, <2>1, <2>2, JoinItems
<1> QED BY <1>2, <1>4, <1>5, <1>6 DEF Shape

LEMMA PartJoin ==
    ASSUME NEW a, NEW b, NEW t, NEW cs, NEW P1, NEW I1, NEW U1, NEW Q1, NEW P2, NEW I2, NEW U2, NEW Q2,
           NEW Q, NEW s, NEW v, NEW u, NEW C,
           Part(a, s, v, P1, I1, U1, Q1, t, C, cs), Part(b, v, u, P2, I2, U2, Q2, t, C, cs),
           P1 \cap P2 = {}, I1 \cap I2 = {}, U1 \cap U2 = {},
           \A id \in Q1 : id \in Q \/ Found(b, id, t), Q2 \subseteq Q
    PROVE  Part(a \o b, s, u, P1 \cup P2, I1 \cup I2, U1 \cup U2, Q, t, C, cs)
<1>1. IsSeq(a) /\ IsSeq(b)
  BY DEF Part, Shape
<1>2. Shape(a \o b, P1 \cup P2, I1 \cup I2, U1 \cup U2, Q, t, cs)
  BY ShapeJoin DEF Part
<1>3. Leads(a \o b, s, u, t, C)
  BY <1>1, LeadsJoin DEF Part
<1>4. ASSUME NEW i \in 1 .. Len(a \o b) PROVE ~Firm((a \o b)[i])
  BY <1>1, SeqConcat DEF Part
<1> QED BY <1>2, <1>3, <1>4 DEF Part

LEMMA LabelsAtMember ==
    ASSUME NEW ids, NEW cs, NEW l
    PROVE  l \in LabelsAt(ids, cs) <=> \E id \in ids \cap DOMAIN cs : l = cs[id]
BY DEF LabelsAt

LEMMA BareItem ==
    ASSUME NEW x, NEW t, NEW cs, Bare(x, t)
    PROVE  /\ Places(x, t, cs) = {} /\ Ids(x, t) = {} /\ Unseen(x, t) = {}
           /\ ~Firm(x) /\ x.do # "scan"
<1>1. CASE x.do = "code"
  <2>1. Of(x.pc, t, "labels") = {} /\ Of(x.pc, t, "ids") = {}
    BY <1>1 DEF Bare, Of
  <2> QED BY <1>1, <2>1 DEF Places, Ids, Unseen, Firm, LabelsAt
<1>2. CASE x.do # "code"
  BY <1>2 DEF Bare, Places, Ids, Unseen, Firm
<1> QED BY <1>1, <1>2

LEMMA FlatPart ==
    ASSUME NEW items, NEW s, NEW u, NEW t, NEW C, NEW cs, Flat(items, s, u, t, C)
    PROVE  Part(items, s, u, {}, {}, {}, {}, t, C, cs)
<1>1. \A i \in 1 .. Len(items) :
        /\ Places(items[i], t, cs) = {} /\ Ids(items[i], t) = {} /\ Unseen(items[i], t) = {}
        /\ ~Firm(items[i]) /\ items[i].do # "scan"
  BY BareItem DEF Flat
<1>2. PlacesOf(items, t, cs) = {} /\ IdsOf(items, t) = {} /\ UnseenOf(items, t) = {}
  BY <1>1 DEF PlacesOf, IdsOf, UnseenOf
<1>3. Apart(items, t, cs)
  BY <1>1 DEF Apart, Clear
<1>4. Pending(items, {}, t)
  BY <1>1 DEF Pending
<1> QED BY <1>1, <1>2, <1>3, <1>4 DEF Flat, Part, Shape

(* A piece and one without labels behind it. *)
LEMMA AddFlat ==
    ASSUME NEW a, NEW b, NEW t, NEW cs, NEW P, NEW I, NEW U, NEW Q, NEW s, NEW v, NEW u, NEW C,
           Part(a, s, v, P, I, U, Q, t, C, cs), Flat(b, v, u, t, C)
    PROVE  Part(a \o b, s, u, P, I, U, Q, t, C, cs)
<1>1. Part(b, v, u, {}, {}, {}, {}, t, C, cs)
  BY FlatPart
<1>2. Part(a \o b, s, u, P \cup {}, I \cup {}, U \cup {}, Q, t, C, cs)
  BY <1>1, PartJoin
<1>3. P \cup {} = P /\ I \cup {} = I /\ U \cup {} = U
  OBVIOUS
<1> QED BY <1>2, <1>3

LEMMA FlatJoin ==
    ASSUME NEW a, NEW b, NEW t, NEW s, NEW v, NEW u, NEW C,
           Flat(a, s, v, t, C), Flat(b, v, u, t, C)
    PROVE  Flat(a \o b, s, u, t, C)
<1>1. IsSeq(a) /\ IsSeq(b)
  BY DEF Flat
<1>2. IsSeq(a \o b) /\ Leads(a \o b, s, u, t, C)
  BY <1>1, SeqConcat, LeadsJoin DEF Flat
<1>3. ASSUME NEW i \in 1 .. Len(a \o b) PROVE Bare((a \o b)[i], t)
  BY <1>1, SeqConcat DEF Flat
<1> QED BY <1>2, <1>3 DEF Flat

(* A piece and a label that is placed behind it. *)
LEMMA AddLabel ==
    ASSUME NEW a, NEW l, NEW t, NEW cs, NEW P, NEW I, NEW U, NEW Q, NEW s, NEW v \in State, NEW C,
           Part(a, s, v, P, I, U, Q, t, C, cs), l \notin P
    PROVE  Part(a \o Resolve(l), s, v, P \cup {l}, I, U, Q, t, C, cs)
<1> DEFINE x == [do |-> "resolve", label |-> l]
<1>1. Resolve(l) = <<x>> /\ x.do = "resolve" /\ x.label = l
  BY DEF Resolve
<1> HIDE DEF x
<1>2. Step(x, v, v, t, C)
  BY <1>1 DEF Step, Kinds, Moves, State
<1>3. Leads(<<x>>, v, v, t, C)
  BY <1>2, LeadsOne
<1>4. Places(x, t, cs) = {l} /\ Ids(x, t) = {} /\ Unseen(x, t) = {} /\ ~Firm(x)
  BY <1>1 DEF Places, Ids, Unseen, Firm
<1>5. IsSeq(<<x>>) /\ Len(<<x>>) = 1 /\ <<x>>[1] = x
  BY SeqOne
<1>6. \A i \in 1 .. Len(<<x>>) : i = 1
  BY <1>5
<1>7. PlacesOf(<<x>>, t, cs) = {l} /\ IdsOf(<<x>>, t) = {} /\ UnseenOf(<<x>>, t) = {}
  <2>1. 1 \in 1 .. Len(<<x>>)
    BY <1>5
  <2> QED BY <1>4, <1>5, <1>6, <2>1 DEF PlacesOf, IdsOf, UnseenOf
<1>8. Apart(<<x>>, t, cs) /\ Pending(<<x>>, {}, t)
  BY <1>1, <1>5, <1>6 DEF Apart, Pending
<1>9. Part(<<x>>, v, v, {l}, {}, {}, {}, t, C, cs)
  BY <1>3, <1>4, <1>5, <1>6, <1>7, <1>8 DEF Part, Shape
<1>10. Part(a \o <<x>>, s, v, P \cup {l}, I \cup {}, U \cup {}, Q, t, C, cs)
  BY <1>9, PartJoin
<1>11. I \cup {} = I /\ U \cup {} = U
  OBVIOUS
<1> QED BY <1>1, <1>10, <1>11

-----------------------------------------------------------------------------
(* The nodes of a program. *)
StmtOps == {"Decl", "Stmt", "If", "While", "Do", "For", "Switch", "Case", "Default",
            "Break", "Continue", "Return", "End"}

LEMMA ExprNode ==
    ASSUME NEW t, PCodeOK(t), NEW n \in t.exprs
    PROVE  /\ n.op \in ExprOps /\ SizeOf(n, t) = ExprSize(n) /\ ExprSize(n) \in Int
           /\ ExprOK(n, t) /\ n \notin DOMAIN t.about
<1>1. ExprOK(n, t) /\ n.op \in ExprOps /\ ExprSize(n) \in Int
  BY DEF PCodeOK, ExprOK
<1>2. ASSUME n \in DOMAIN t.about PROVE FALSE
  <2>1. Statement(n, t.about[n], t)
    BY <1>2 DEF PCodeOK, StatementOK
  <2> QED BY <1>1, <2>1 DEF Statement, ExprOps
<1> QED BY <1>1, <1>2 DEF SizeOf

LEMMA StmtNode ==
    ASSUME NEW t, PCodeOK(t), NEW n \in DOMAIN t.about
    PROVE  /\ n.op \in StmtOps /\ n.op \notin ExprOps
           /\ SizeOf(n, t) = t.about[n].size /\ t.about[n] \in Facts
           /\ StatementOK(n, t)
<1>1. StatementOK(n, t)
  BY DEF PCodeOK
<1>2. Statement(n, t.about[n], t)
  BY <1>1 DEF StatementOK
<1>3. n.op \in StmtOps
  BY <1>2 DEF Statement, StmtOps
<1>4. n.op \notin ExprOps
  BY <1>3 DEF StmtOps, ExprOps
<1>5. t.about[n] \in Facts
  BY DEF PCodeOK
<1> QED BY <1>1, <1>3, <1>4, <1>5 DEF SizeOf

(* What holds of a node, in its own words. *)
LEMMA OfStmt ==
    ASSUME NEW t, PCodeOK(t), NEW n \in DOMAIN t.about
    PROVE  /\ Of(n, t, "exits") = t.about[n].exits
           /\ Of(n, t, "labels") = t.about[n].labels
           /\ Of(n, t, "ids") = t.about[n].ids
           /\ Of(n, t, "returns") = t.about[n].returns
           /\ Of(n, t, "labels") \subseteq Of(n, t, "ids")
<1>1. t.about[n].labels \subseteq t.about[n].ids
  BY StmtNode DEF StatementOK
<1> QED BY <1>1 DEF Of

LEMMA OfOther ==
    ASSUME NEW t, NEW n, n \notin DOMAIN t.about, NEW a
    PROVE  Of(n, t, a) = {}
BY DEF Of

LEMMA OfMember ==
    ASSUME NEW b, NEW t, NEW a, NEW i \in 1 .. Len(b)
    PROVE  Of(b[i], t, a) \subseteq OfBlock(b, t, a)
BY DEF OfBlock

LEMMA LabelsAmongIds ==
    ASSUME NEW t, PCodeOK(t), NEW n
    PROVE  Of(n, t, "labels") \subseteq Of(n, t, "ids")
BY OfStmt, OfOther

LEMMA BlockLabels ==
    ASSUME NEW t, PCodeOK(t), NEW b
    PROVE  OfBlock(b, t, "labels") \subseteq OfBlock(b, t, "ids")
BY LabelsAmongIds DEF OfBlock

(* Statements are no operations the generator makes up. *)
LEMMA MadeUp ==
    ASSUME NEW t, PCodeOK(t), NEW n, n.op \notin StmtOps
    PROVE  n \notin DOMAIN t.about
BY StmtNode

-----------------------------------------------------------------------------
(* Heights is the function its definition describes. *)
LEMMA LeastNat ==
    ASSUME NEW X, X \subseteq Nat, X # {}
    PROVE  \E x \in X : \A y \in X : x <= y
<1> DEFINE R == {ss \in Nat \X Nat : ss[1] < ss[2]}
<1>1. \A x, y \in Nat : y < x => <<y, x>> \in R
  OBVIOUS
<1>2. IsWellFoundedOn(R, Nat)
  BY NatLessThanWellFounded DEF OpToRel
<1> HIDE DEF R
<1>3. PICK x \in X : \A y \in X : ~ (<<y, x>> \in R)
  BY <1>2, WFMin, Zenon
<1>4. ASSUME NEW y \in X PROVE ~ (y < x)
  <2>1. x \in Nat /\ y \in Nat
    OBVIOUS
  <2> QED BY <1>1, <1>3, <2>1, Zenon
<1>5. ASSUME NEW y \in X PROVE x <= y
  BY <1>4
<1> QED BY <1>5

Rises(h, b, t, k) == h = [i \in 0 .. k |-> IF i = 0 THEN 0 ELSE h[i - 1] + SizeOf(b[i], t)]

LEMMA RisesExists ==
    ASSUME NEW b, NEW t, NEW k \in Nat
    PROVE  \E h : Rises(h, b, t, k)
<1> DEFINE X == {m \in Nat : ~ \E h : Rises(h, b, t, m)}
<1>1. SUFFICES ASSUME X # {} PROVE FALSE
  OBVIOUS
<1>2. PICK m \in X : \A y \in X : m <= y
  <2>1. X \subseteq Nat
    OBVIOUS
  <2> HIDE DEF X
  <2> QED BY <1>1, <2>1, LeastNat
<1>3. m \in Nat /\ ~ \E h : Rises(h, b, t, m)
  OBVIOUS
<1>4. CASE m = 0
  <2> DEFINE h == [i \in 0 .. 0 |-> 0]
  <2>1. h = [i \in 0 .. 0 |-> IF i = 0 THEN 0 ELSE h[i - 1] + SizeOf(b[i], t)]
    OBVIOUS
  <2> QED BY <1>3, <1>4, <2>1 DEF Rises
<1>5. CASE m # 0
  <2>1. m - 1 \in Nat /\ m - 1 \notin X
    BY <1>2, <1>3, <1>5
  <2>2. PICK g : Rises(g, b, t, m - 1)
    BY <2>1
  <2> DEFINE f == [i \in 0 .. m |-> IF i = m THEN g[m - 1] + SizeOf(b[m], t) ELSE g[i]]
             h == [i \in 0 .. m |-> IF i = 0 THEN 0 ELSE f[i - 1] + SizeOf(b[i], t)]
  <2>3. ASSUME NEW i \in 0 .. m PROVE f[i] = h[i]
    <3>1. CASE i = m
      <4>1. i - 1 \in 0 .. m /\ i - 1 # m
        BY <1>3, <1>5, <3>1
      <4>2. f[i - 1] = g[i - 1]
        BY <4>1
      <4> QED BY <1>5, <3>1, <4>2
    <3>2. CASE i # m /\ i # 0
      <4>1. i \in 0 .. m - 1 /\ i - 1 \in 0 .. m /\ i - 1 # m
        BY <1>3, <3>2
      <4>2. f[i - 1] = g[i - 1] /\ f[i] = g[i]
        BY <3>2, <4>1
      <4>3. g[i] = g[i - 1] + SizeOf(b[i], t)
        BY <2>2, <3>2, <4>1 DEF Rises
      <4> QED BY <3>2, <4>2, <4>3
    <3>3. CASE i # m /\ i = 0
      <4>1. 0 \in 0 .. m - 1 /\ g[0] = 0
        BY <1>3, <1>5, <2>2 DEF Rises
      <4> QED BY <3>3, <4>1
    <3> QED BY <3>1, <3>2, <3>3
  <2>4. f = h
    BY <2>3
  <2> QED BY <1>3, <2>4 DEF Rises
<1> QED BY <1>4, <1>5

LEMMA HeightsFunction ==
    ASSUME NEW b, NEW t, Len(b) \in Nat
    PROVE  Rises(Heights(b, t), b, t, Len(b))
<1>1. \E h : Rises(h, b, t, Len(b))
  BY RisesExists
<1>2. Heights(b, t) = CHOOSE h : Rises(h, b, t, Len(b))
  BY DEF Heights, Rises
<1> QED BY <1>1, <1>2

LEMMA HeightsFacts ==
    ASSUME NEW t, PCodeOK(t), NEW b \in Seq(t.exprs \cup DOMAIN t.about)
    PROVE  /\ Len(b) \in Nat
           /\ Heights(b, t)[0] = 0
           /\ \A i \in 1 .. Len(b) :
                /\ i - 1 \in 0 .. Len(b)
                /\ Heights(b, t)[i] = Heights(b, t)[i - 1] + SizeOf(b[i], t)
                /\ SizeOf(b[i], t) \in Int
           /\ \A i \in 0 .. Len(b) : Heights(b, t)[i] \in Int
<1> DEFINE h == Heights(b, t)
           X == {i \in 0 .. Len(b) : h[i] \notin Int}
<1>1. Len(b) \in Nat
  OBVIOUS
<1>2. Rises(h, b, t, Len(b))
  BY <1>1, HeightsFunction
<1> HIDE DEF h
<1>3. h[0] = 0
  BY <1>1, <1>2 DEF Rises
<1>4. ASSUME NEW i \in 1 .. Len(b)
      PROVE  /\ i - 1 \in 0 .. Len(b)
             /\ h[i] = h[i - 1] + SizeOf(b[i], t)
             /\ SizeOf(b[i], t) \in Int
  <2>1. i - 1 \in 0 .. Len(b) /\ i # 0 /\ i \in 0 .. Len(b)
    BY <1>1
  <2>2. h[i] = h[i - 1] + SizeOf(b[i], t)
    BY <1>2, <2>1 DEF Rises
  <2>3. b[i] \in t.exprs \cup DOMAIN t.about
    OBVIOUS
  <2>4. SizeOf(b[i], t) \in Int
    BY <2>3, ExprNode, StmtNode DEF Facts
  <2> QED BY <2>1, <2>2, <2>4
<1>5. ASSUME X # {} PROVE FALSE
  <2>1. PICK m \in X : \A y \in X : m <= y
    <3>1. X \subseteq Nat
      OBVIOUS
    <3> HIDE DEF X
    <3> QED BY <1>5, <3>1, LeastNat
  <2>2. m \in 0 .. Len(b) /\ h[m] \notin Int
    OBVIOUS
  <2>3. m # 0
    BY <1>3, <2>2
  <2>4. m \in 1 .. Len(b) /\ m - 1 \in 0 .. Len(b) /\ ~(m <= m - 1)
    BY <1>1, <2>2, <2>3
  <2>5. h[m - 1] \in Int
    BY <2>1, <2>4
  <2> QED BY <1>4, <2>2, <2>4, <2>5
<1>6. \A i \in 0 .. Len(b) : h[i] \in Int
  BY <1>5
<1> QED BY <1>1, <1>3, <1>4, <1>6 DEF h

-----------------------------------------------------------------------------
(* Blocks. *)
LEMMA AtState ==
    ASSUME NEW s \in State, NEW d \in Int
    PROVE  /\ At(s, d) \in State
           /\ At(s, d).exp = s.exp + d /\ At(s, d).exits = s.exits /\ At(s, d).rets = s.rets
BY DEF At, State

LEMMA SameState ==
    ASSUME NEW s \in State, NEW u \in State, u.exp = s.exp, u.exits = s.exits, u.rets = s.rets
    PROVE  s = u
BY DEF State

LEMMA MovesAt ==
    ASSUME NEW s \in State, NEW u \in State, NEW d \in Int, Moves(s, u, d)
    PROVE  u = At(s, d)
BY AtState, SameState DEF Moves

LEMMA AtZero ==
    ASSUME NEW s \in State
    PROVE  At(s, 0) = s
<1>1. At(s, 0) \in State /\ At(s, 0).exp = s.exp + 0 /\ At(s, 0).exits = s.exits /\ At(s, 0).rets = s.rets
  BY AtState
<1>2. s.exp + 0 = s.exp
  BY DEF State
<1> QED BY <1>1, <1>2, SameState

LEMMA DataItems ==
    ASSUME NEW b, Len(b) \in Nat
    PROVE  /\ IsSeq(Data(b)) /\ Len(Data(b)) = Len(b)
           /\ \A i \in 1 .. Len(b) : Data(b)[i].do = "code" /\ Data(b)[i].pc = b[i]
<1>1. Data(b) = [i \in 1 .. Len(b) |-> Data(b)[i]]
  BY DEF Data
<1>2. \A i \in 1 .. Len(b) : Data(b)[i] = [do |-> "code", pc |-> b[i]]
  BY DEF Data, Code
<1>3. IsSeq(Data(b)) /\ Len(Data(b)) = Len(b)
  BY <1>1, SeqMap
<1>4. ASSUME NEW i \in 1 .. Len(b) PROVE Data(b)[i].do = "code" /\ Data(b)[i].pc = b[i]
  <2>1. Data(b)[i] = [do |-> "code", pc |-> b[i]]
    BY <1>2
  <2> QED BY <2>1
<1> QED BY <1>3, <1>4

(* The nodes of a block in turn: where the heights lead. *)
LEMMA HeightsLead ==
    ASSUME NEW t, PCodeOK(t), NEW b \in Seq(t.exprs \cup DOMAIN t.about), NEW s \in State, NEW C,
           \A i \in 1 .. Len(b) :
             CodeStep(b[i], At(s, Heights(b, t)[i - 1]), At(s, Heights(b, t)[i]), t, C)
    PROVE  Leads(Data(b), s, At(s, Net(b, t)), t, C)
<1> DEFINE n == Len(b)
           f == [i \in 1 .. n + 1 |-> At(s, Heights(b, t)[i - 1])]
<1>1. /\ n \in Nat /\ Heights(b, t)[0] = 0
      /\ \A i \in 0 .. n : Heights(b, t)[i] \in Int
  BY HeightsFacts
<1>2. IsSeq(Data(b)) /\ Len(Data(b)) = n /\ \A i \in 1 .. n : Data(b)[i].do = "code" /\ Data(b)[i].pc = b[i]
  BY <1>1, DataItems
<1> HIDE DEF n
<1>3. ASSUME NEW i \in 1 .. n + 1 PROVE f[i] = At(s, Heights(b, t)[i - 1]) /\ f[i] \in State
  <2>1. i - 1 \in 0 .. n
    BY <1>1
  <2>2. f[i] = At(s, Heights(b, t)[i - 1])
    OBVIOUS
  <2> QED BY <1>1, <2>1, <2>2, AtState
<1>4. f \in [1 .. n + 1 -> State]
  BY <1>3
<1>5. 1 \in 1 .. n + 1 /\ n + 1 \in 1 .. n + 1 /\ 1 - 1 = 0 /\ (n + 1) - 1 = n
  BY <1>1
<1> HIDE DEF f
<1>6. f[1] = s /\ f[n + 1] = At(s, Net(b, t))
  BY <1>1, <1>3, <1>5, AtZero DEF Net, n
<1>7. ASSUME NEW i \in 1 .. n PROVE Step(Data(b)[i], f[i], f[i + 1], t, C)
  <2>1. i \in 1 .. n + 1 /\ i + 1 \in 1 .. n + 1 /\ (i + 1) - 1 = i
    BY <1>1
  <2>2. f[i] = At(s, Heights(b, t)[i - 1]) /\ f[i + 1] = At(s, Heights(b, t)[i])
    BY <1>3, <2>1
  <2>3. CodeStep(b[i], f[i], f[i + 1], t, C)
    BY <2>2 DEF n
  <2> QED BY <1>2, <2>3 DEF Step, Kinds
<1> QED BY <1>2, <1>4, <1>6, <1>7 DEF Leads

LEMMA ExprStep ==
    ASSUME NEW t, NEW n \in t.exprs, n.op \in ExprOps, NEW s, NEW u, NEW C, Moves(s, u, ExprSize(n))
    PROVE  CodeStep(n, s, u, t, C)
<1>1. n.op \notin {"Store", "SetReturn", "Decl", "Args", "Jsr", "Action", "Situation", "Leave", "End"}
  BY DEF ExprOps
<1> QED BY <1>1 DEF CodeStep

(* An expression, or several. *)
LEMMA ExprsFlat ==
    ASSUME NEW t, PCodeOK(t), NEW b \in Seq(t.exprs), NEW s \in State, NEW C
    PROVE  Flat(Data(b), s, At(s, Net(b, t)), t, C) /\ Net(b, t) \in Int
<1>1. b \in Seq(t.exprs \cup DOMAIN t.about)
  BY SeqMonotonic
<1>2. /\ Len(b) \in Nat /\ Heights(b, t)[0] = 0
      /\ \A i \in 1 .. Len(b) :
           /\ i - 1 \in 0 .. Len(b)
           /\ Heights(b, t)[i] = Heights(b, t)[i - 1] + SizeOf(b[i], t)
           /\ SizeOf(b[i], t) \in Int
      /\ \A i \in 0 .. Len(b) : Heights(b, t)[i] \in Int
  BY <1>1, HeightsFacts
<1>3. ASSUME NEW i \in 1 .. Len(b)
      PROVE  CodeStep(b[i], At(s, Heights(b, t)[i - 1]), At(s, Heights(b, t)[i]), t, C)
  <2> DEFINE h == Heights(b, t)
  <2>1. b[i] \in t.exprs
    OBVIOUS
  <2>2. b[i].op \in ExprOps /\ SizeOf(b[i], t) = ExprSize(b[i]) /\ ExprSize(b[i]) \in Int
    BY <2>1, ExprNode
  <2>3. h[i - 1] \in Int /\ h[i] \in Int /\ h[i] = h[i - 1] + ExprSize(b[i])
    BY <1>2, <2>2
  <2> HIDE DEF h
  <2>4. Moves(At(s, h[i - 1]), At(s, h[i]), ExprSize(b[i]))
    BY <2>2, <2>3 DEF Moves, At, State
  <2>5. CodeStep(b[i], At(s, h[i - 1]), At(s, h[i]), t, C)
    BY <2>1, <2>2, <2>4, ExprStep
  <2> QED BY <2>5 DEF h
<1>4. Leads(Data(b), s, At(s, Net(b, t)), t, C)
  BY <1>1, <1>3, HeightsLead
<1>5. IsSeq(Data(b)) /\ Len(Data(b)) = Len(b)
      /\ \A i \in 1 .. Len(b) : Data(b)[i].do = "code" /\ Data(b)[i].pc = b[i]
  BY <1>2, DataItems
<1>6. ASSUME NEW i \in 1 .. Len(b) PROVE Bare(Data(b)[i], t)
  <2>1. b[i] \in t.exprs
    OBVIOUS
  <2>2. b[i] \notin DOMAIN t.about
    BY <2>1, ExprNode
  <2> QED BY <1>5, <2>2 DEF Bare
<1>7. Net(b, t) \in Int
  BY <1>2 DEF Net
<1> QED BY <1>4, <1>5, <1>6, <1>7 DEF Flat

LEMMA ExprFlat ==
    ASSUME NEW t, PCodeOK(t), NEW b, NEW d, ExprBlock(b, d, t), NEW s \in State, NEW C
    PROVE  Flat(Data(b), s, At(s, d), t, C) /\ d \in Int
BY ExprsFlat DEF ExprBlock

-----------------------------------------------------------------------------
(* Pieces of one item, or none. *)
LEMMA FlatOne ==
    ASSUME NEW x, NEW s \in State, NEW u \in State, NEW t, NEW C, Step(x, s, u, t, C), Bare(x, t)
    PROVE  Flat(<<x>>, s, u, t, C)
<1>1. IsSeq(<<x>>) /\ Len(<<x>>) = 1 /\ <<x>>[1] = x
  BY SeqOne
<1>2. Leads(<<x>>, s, u, t, C)
  BY LeadsOne
<1>3. ASSUME NEW i \in 1 .. Len(<<x>>) PROVE Bare(<<x>>[i], t)
  <2>1. i = 1
    BY <1>1
  <2> QED BY <1>1, <2>1
<1> QED BY <1>1, <1>2, <1>3 DEF Flat

LEMMA FlatNone ==
    ASSUME NEW s \in State, NEW t, NEW C
    PROVE  Flat(<<>>, s, s, t, C)
<1>1. IsSeq(<<>>) /\ 1 .. Len(<<>>) = {}
  BY SeqNone
<1> QED BY <1>1, LeadsNone DEF Flat

LEMMA AtMoves ==
    ASSUME NEW s \in State, NEW a \in Int, NEW d \in Int, NEW e \in Int, e = a + d
    PROVE  At(s, a) \in State /\ At(s, e) \in State /\ Moves(At(s, a), At(s, e), d)
<1>1. At(s, a) \in State /\ At(s, e) \in State
  BY AtState
<1>2. Moves(At(s, a), At(s, e), d)
  BY AtState DEF Moves, State
<1> QED BY <1>1, <1>2

LEMMA FlatIns ==
    ASSUME NEW op, NEW x, NEW y, NEW z, NEW t, NEW C, NEW s \in State,
           NEW a \in Int, NEW d \in Int, NEW e \in Int, e = a + d
    PROVE  Flat(Ins(op, x, y, z, d), At(s, a), At(s, e), t, C)
<1> DEFINE i == [do |-> "ins", op |-> op, a |-> x, b |-> y, dSP |-> z, dExp |-> d]
<1>1. i.do = "ins" /\ i.dExp = d
  OBVIOUS
<1>2. Ins(op, x, y, z, d) = <<i>>
  BY DEF Ins
<1> HIDE DEF i
<1>3. At(s, a) \in State /\ At(s, e) \in State /\ Moves(At(s, a), At(s, e), d)
  BY AtMoves
<1>4. Step(i, At(s, a), At(s, e), t, C)
  BY <1>1, <1>3 DEF Step, Kinds
<1>5. Bare(i, t)
  BY <1>1 DEF Bare
<1> QED BY <1>2, <1>3, <1>4, <1>5, FlatOne

LEMMA FlatMOVSP ==
    ASSUME NEW n, NEW z, NEW t, NEW C, NEW s \in State,
           NEW a \in Int, NEW d \in Int, NEW e \in Int, e = a + d, n = 0 => d = 0
    PROVE  Flat(MOVSP(n, z, d), At(s, a), At(s, e), t, C)
<1>1. CASE n = 0
  <2>1. MOVSP(n, z, d) = <<>> /\ e = a
    BY <1>1 DEF MOVSP
  <2> QED BY <2>1, AtMoves, FlatNone
<1>2. CASE n # 0
  <2>1. MOVSP(n, z, d) = Ins("MOVSP", n, 0, z, d)
    BY <1>2 DEF MOVSP
  <2> QED BY <2>1, FlatIns
<1> QED BY <1>1, <1>2

LEMMA FlatJump ==
    ASSUME NEW op, NEW l, NEW t, NEW C, l \in C, NEW s \in State,
           NEW a \in Int, NEW d \in Int, NEW e \in Int, e = a + d
    PROVE  Flat(Jump(op, l, d), At(s, a), At(s, e), t, C)
<1> DEFINE i == [do |-> "jump", op |-> op, label |-> l, dExp |-> d]
<1>1. i.do = "jump" /\ i.dExp = d /\ i.label = l
  OBVIOUS
<1>2. Jump(op, l, d) = <<i>>
  BY DEF Jump
<1> HIDE DEF i
<1>3. At(s, a) \in State /\ At(s, e) \in State /\ Moves(At(s, a), At(s, e), d)
  BY AtMoves
<1>4. Step(i, At(s, a), At(s, e), t, C)
  BY <1>1, <1>3 DEF Step, Kinds
<1>5. Bare(i, t)
  BY <1>1 DEF Bare
<1> QED BY <1>2, <1>3, <1>4, <1>5, FlatOne

LEMMA FlatAdjust ==
    ASSUME NEW y, NEW z, NEW t, NEW C, NEW s \in State,
           NEW a \in Int, NEW d \in Int, NEW e \in Int, e = a + d
    PROVE  Flat(Adjust(y, d, z), At(s, a), At(s, e), t, C)
<1> DEFINE i == [do |-> "adjust", dSP |-> y, dExp |-> d, dBP |-> z]
<1>1. i.do = "adjust" /\ i.dExp = d
  OBVIOUS
<1>2. Adjust(y, d, z) = <<i>>
  BY DEF Adjust
<1> HIDE DEF i
<1>3. At(s, a) \in State /\ At(s, e) \in State /\ Moves(At(s, a), At(s, e), d)
  BY AtMoves
<1>4. Step(i, At(s, a), At(s, e), t, C)
  BY <1>1, <1>3 DEF Step, Kinds
<1>5. Bare(i, t)
  BY <1>1 DEF Bare
<1> QED BY <1>2, <1>3, <1>4, <1>5, FlatOne

LEMMA FlatAssert ==
    ASSUME NEW t, NEW C, NEW s \in State, s.exp = 0
    PROVE  Flat(AssertNoExp, s, s, t, C)
<1> DEFINE i == [do |-> "assert"]
<1>1. i.do = "assert"
  OBVIOUS
<1>2. AssertNoExp = <<i>>
  BY DEF AssertNoExp
<1> HIDE DEF i
<1>3. Step(i, s, s, t, C) /\ Bare(i, t)
  BY <1>1 DEF Step, Kinds, Bare, Moves
<1> QED BY <1>2, <1>3, FlatOne

LEMMA FlatDrop ==
    ASSUME NEW t, NEW C, NEW s \in State, s.exp = 0, NEW a \in Int
    PROVE  Flat(DropExp, At(s, a), s, t, C)
<1> DEFINE i == [do |-> "drop"]
<1>1. i.do = "drop"
  OBVIOUS
<1>2. DropExp = <<i>>
  BY DEF DropExp
<1> HIDE DEF i
<1>3. At(s, a) \in State /\ At(s, a).exp = a /\ Moves(At(s, a), s, -At(s, a).exp)
  BY AtState DEF Moves
<1>4. Step(i, At(s, a), s, t, C) /\ Bare(i, t)
  BY <1>1, <1>3 DEF Step, Kinds, Bare
<1> QED BY <1>2, <1>3, <1>4, FlatOne

LEMMA FlatRestore ==
    ASSUME NEW t, NEW C, NEW s \in State, NEW u \in State, u.exp = s.exp, u.rets = s.rets,
           "break" \in u.exits => brk.label \in C,
           "continue" \in u.exits => cont.label \in C
    PROVE  Flat(RestoreLabels, s, u, t, C)
<1> DEFINE i == [do |-> "restore", brk |-> brk, cont |-> cont]
<1>1. i.do = "restore" /\ i.brk = brk /\ i.cont = cont
  OBVIOUS
<1>2. RestoreLabels = <<i>>
  BY DEF RestoreLabels
<1> HIDE DEF i
<1>3. Step(i, s, u, t, C) /\ Bare(i, t)
  BY <1>1 DEF Step, Kinds, Bare
<1> QED BY <1>2, <1>3, FlatOne

LEMMA FlatCode ==
    ASSUME NEW t, PCodeOK(t), NEW n, n.op \notin StmtOps, NEW s \in State, NEW u \in State, NEW C,
           CodeStep(n, s, u, t, C)
    PROVE  Flat(<<Code(n)>>, s, u, t, C)
<1> DEFINE i == [do |-> "code", pc |-> n]
<1>1. i.do = "code" /\ i.pc = n
  OBVIOUS
<1>2. Code(n) = i
  BY DEF Code
<1> HIDE DEF i
<1>3. Step(i, s, u, t, C) /\ Bare(i, t)
  BY <1>1, MadeUp DEF Step, Kinds, Bare
<1> QED BY <1>2, <1>3, FlatOne

LEMMA FlatWhen ==
    ASSUME NEW c, NEW b, NEW s \in State, NEW u \in State, NEW t, NEW C,
           c => Flat(b, s, u, t, C), ~c => s = u
    PROVE  Flat(When(c, b), s, u, t, C)
<1>1. CASE c
  BY <1>1 DEF When
<1>2. CASE ~c
  <2>1. When(c, b) = <<>>
    BY <1>2 DEF When
  <2> QED BY <1>2, <2>1, FlatNone
<1> QED BY <1>1, <1>2

LEMMA FlatData ==
    ASSUME NEW t, PCodeOK(t), NEW b, NEW d, ExprBlock(b, d, t), NEW s \in State, NEW C,
           NEW a \in Int, NEW e \in Int, e = a + d
    PROVE  Flat(Data(b), At(s, a), At(s, e), t, C)
<1>1. At(s, a) \in State /\ At(s, e) \in State
  BY AtState
<1>2. Flat(Data(b), At(s, a), At(At(s, a), d), t, C) /\ d \in Int
  BY <1>1, ExprFlat
<1>3. At(At(s, a), d) = At(s, e)
  BY <1>2 DEF At, State
<1> QED BY <1>2, <1>3

-----------------------------------------------------------------------------
(* Blocks of statements. *)
Injective(cs) == \A x, y \in DOMAIN cs : cs[x] = cs[y] => x = y
CaseLabels(b, t, cs) == LabelsAt(OfBlock(b, t, "labels"), cs)

LEMMA StmtStep ==
    ASSUME NEW t, PCodeOK(t), NEW n \in DOMAIN t.about, NEW s \in State, NEW u \in State, NEW C,
           s.exp = IF n.op = "End" THEN n.size ELSE 0,
           Moves(s, u, t.about[n].size),
           Of(n, t, "exits") \subseteq s.exits, Of(n, t, "returns") \subseteq s.rets
    PROVE  CodeStep(n, s, u, t, C)
<1>1. StatementOK(n, t) /\ n.op \in StmtOps
  BY StmtNode
<1>2. n.op \notin ExprOps \cup Made
  BY <1>1 DEF StmtOps, ExprOps, Made
<1>3. t.about[n].exits \subseteq s.exits /\ t.about[n].returns \subseteq s.rets
  BY OfStmt
<1>4. CASE n.op = "End"
  <2>1. t.about[n].size = -n.size
    BY <1>1, <1>4 DEF StatementOK
  <2> QED BY <1>2, <1>4, <2>1 DEF CodeStep, Made
<1>5. CASE n.op = "Decl"
  <2>1. t.about[n].size = 0
    BY <1>1, <1>5 DEF StatementOK
  <2>2. OptBlock(n.init, 1, t)
    BY <1>1, <1>5 DEF StatementOK, Statement
  <2> QED BY <1>2, <1>5, <2>1, <2>2 DEF CodeStep, Made
<1>6. CASE n.op \notin {"End", "Decl"}
  BY <1>2, <1>3, <1>6 DEF CodeStep, Made
<1> QED BY <1>4, <1>5, <1>6

LEMMA BlockLeads ==
    ASSUME NEW t, PCodeOK(t), NEW b, StmtBlock(b, t), NEW s \in State, NEW C, s.exp = 0,
           OfBlock(b, t, "exits") \subseteq s.exits, OfBlock(b, t, "returns") \subseteq s.rets
    PROVE  Leads(Data(b), s, s, t, C)
<1>1. b \in Seq(t.exprs \cup DOMAIN t.about) /\ Net(b, t) = 0
  BY DEF StmtBlock
<1>2. /\ Len(b) \in Nat /\ Heights(b, t)[0] = 0
      /\ \A i \in 1 .. Len(b) :
           /\ i - 1 \in 0 .. Len(b)
           /\ Heights(b, t)[i] = Heights(b, t)[i - 1] + SizeOf(b[i], t)
           /\ SizeOf(b[i], t) \in Int
      /\ \A i \in 0 .. Len(b) : Heights(b, t)[i] \in Int
  BY <1>1, HeightsFacts
<1>3. ASSUME NEW i \in 1 .. Len(b)
      PROVE  CodeStep(b[i], At(s, Heights(b, t)[i - 1]), At(s, Heights(b, t)[i]), t, C)
  <2> DEFINE h == Heights(b, t)
             n == b[i]
  <2>1. n \in t.exprs \cup DOMAIN t.about
    BY <1>1
  <2>2. h[i - 1] \in Int /\ h[i] \in Int /\ h[i] = h[i - 1] + SizeOf(n, t) /\ SizeOf(n, t) \in Int
    BY <1>2
  <2>3. /\ n \in DOMAIN t.about => h[IF n.op = "End" THEN i ELSE i - 1] = 0
        /\ Of(n, t, "exits") \subseteq s.exits /\ Of(n, t, "returns") \subseteq s.rets
    BY OfMember DEF StmtBlock
  <2> HIDE DEF h, n
  <2>4. /\ At(s, h[i - 1]) \in State /\ At(s, h[i]) \in State
        /\ Moves(At(s, h[i - 1]), At(s, h[i]), SizeOf(n, t))
    BY <2>2, AtMoves
  <2>5. CASE n \in t.exprs
    BY <2>4, <2>5, ExprNode, ExprStep DEF h, n
  <2>6. CASE n \in DOMAIN t.about
    <3>1. SizeOf(n, t) = t.about[n].size /\ StatementOK(n, t)
      BY <2>6, StmtNode
    <3>2. /\ At(s, h[i - 1]).exp = h[i - 1] /\ At(s, h[i - 1]).exits = s.exits
          /\ At(s, h[i - 1]).rets = s.rets
      <4>1. h[i - 1] \in Int
        BY <2>2
      <4>2. At(s, h[i - 1]).exp = s.exp + h[i - 1]
        BY <4>1, AtState
      <4>3. s.exp + h[i - 1] = h[i - 1]
        BY <4>1
      <4>4. At(s, h[i - 1]).exits = s.exits /\ At(s, h[i - 1]).rets = s.rets
        BY <4>1, AtState
      <4> QED BY <4>2, <4>3, <4>4
    <3>3. h[i - 1] = IF n.op = "End" THEN n.size ELSE 0
      <4>1. CASE n.op = "End"
        <5>1. SizeOf(n, t) = -n.size /\ n.size \in Nat
          BY <3>1, <4>1 DEF StatementOK, Statement
        <5> QED BY <2>2, <2>3, <2>6, <4>1, <5>1
      <4>2. CASE n.op # "End"
        BY <2>3, <2>6, <4>2
      <4> QED BY <4>1, <4>2
    <3>4. CodeStep(n, At(s, h[i - 1]), At(s, h[i]), t, C)
      BY <2>3, <2>4, <2>6, <3>1, <3>2, <3>3, StmtStep
    <3> QED BY <3>4 DEF h, n
  <2> QED BY <2>1, <2>5, <2>6
<1>4. Leads(Data(b), s, At(s, Net(b, t)), t, C)
  BY <1>1, <1>3, HeightsLead
<1> QED BY <1>1, <1>4, AtZero

BlockView(b, t, cs) ==
    /\ Len(b) \in Nat
    /\ IsSeq(Data(b)) /\ Len(Data(b)) = Len(b)
    /\ \A i \in 1 .. Len(b) :
         /\ b[i] \in t.exprs \cup DOMAIN t.about
         /\ Data(b)[i].do = "code" /\ Data(b)[i].pc = b[i]
         /\ Places(Data(b)[i], t, cs) = LabelsAt(Of(b[i], t, "labels"), cs)
         /\ Ids(Data(b)[i], t) = Of(b[i], t, "ids")
         /\ Unseen(Data(b)[i], t) = Of(b[i], t, "ids") \ Of(b[i], t, "labels")
         /\ ~Firm(Data(b)[i])

LEMMA BlockItems ==
    ASSUME NEW t, PCodeOK(t), NEW b, StmtBlock(b, t), NEW cs
    PROVE  BlockView(b, t, cs)
<1>1. b \in Seq(t.exprs \cup DOMAIN t.about)
  BY DEF StmtBlock
<1>2. Len(b) \in Nat /\ \A i \in 1 .. Len(b) : b[i] \in t.exprs \cup DOMAIN t.about
  BY <1>1
<1>3. IsSeq(Data(b)) /\ Len(Data(b)) = Len(b)
      /\ \A i \in 1 .. Len(b) : Data(b)[i].do = "code" /\ Data(b)[i].pc = b[i]
  BY <1>2, DataItems
<1>4. \A i \in 1 .. Len(b) :
        /\ Places(Data(b)[i], t, cs) = LabelsAt(Of(b[i], t, "labels"), cs)
        /\ Ids(Data(b)[i], t) = Of(b[i], t, "ids")
        /\ Unseen(Data(b)[i], t) = Of(b[i], t, "ids") \ Of(b[i], t, "labels")
        /\ ~Firm(Data(b)[i])
  BY <1>3 DEF Places, Ids, Unseen, Firm
<1> QED BY <1>2, <1>3, <1>4 DEF BlockView

LEMMA BlockShape ==
    ASSUME NEW t, PCodeOK(t), NEW b, StmtBlock(b, t), NEW cs, Injective(cs)
    PROVE  Shape(Data(b), CaseLabels(b, t, cs), OfBlock(b, t, "ids"),
                 OfBlock(b, t, "ids") \ OfBlock(b, t, "labels"), {}, t, cs)
<1>1. /\ Len(b) \in Nat
      /\ IsSeq(Data(b)) /\ Len(Data(b)) = Len(b)
      /\ \A i \in 1 .. Len(b) :
           /\ b[i] \in t.exprs \cup DOMAIN t.about
           /\ Data(b)[i].do = "code" /\ Data(b)[i].pc = b[i]
           /\ Places(Data(b)[i], t, cs) = LabelsAt(Of(b[i], t, "labels"), cs)
           /\ Ids(Data(b)[i], t) = Of(b[i], t, "ids")
           /\ Unseen(Data(b)[i], t) = Of(b[i], t, "ids") \ Of(b[i], t, "labels")
           /\ ~Firm(Data(b)[i])
  <2>1. BlockView(b, t, cs)
    BY BlockItems
  <2> QED BY <2>1 DEF BlockView
<1>2. \A i, j \in 1 .. Len(b) : i # j => Of(b[i], t, "ids") \cap Of(b[j], t, "ids") = {}
  BY DEF StmtBlock
<1>3. \A n : Of(n, t, "labels") \subseteq Of(n, t, "ids")
  BY LabelsAmongIds
<1>4. PlacesOf(Data(b), t, cs) = CaseLabels(b, t, cs)
  <2>1. ASSUME NEW l \in PlacesOf(Data(b), t, cs) PROVE l \in CaseLabels(b, t, cs)
    <3>1. PICK i \in 1 .. Len(b) : l \in Places(Data(b)[i], t, cs)
      BY <1>1 DEF PlacesOf
    <3>2. PICK id \in Of(b[i], t, "labels") \cap DOMAIN cs : l = cs[id]
      BY <1>1, <3>1, LabelsAtMember
    <3>3. id \in OfBlock(b, t, "labels")
      BY <3>2 DEF OfBlock
    <3> QED BY <3>2, <3>3, LabelsAtMember DEF CaseLabels
  <2>2. ASSUME NEW l \in CaseLabels(b, t, cs) PROVE l \in PlacesOf(Data(b), t, cs)
    <3>1. PICK id \in OfBlock(b, t, "labels") \cap DOMAIN cs : l = cs[id]
      BY LabelsAtMember DEF CaseLabels
    <3>2. PICK i \in 1 .. Len(b) : id \in Of(b[i], t, "labels")
      BY <3>1 DEF OfBlock
    <3>3. l \in Places(Data(b)[i], t, cs)
      BY <1>1, <3>1, <3>2, LabelsAtMember
    <3> QED BY <1>1, <3>3 DEF PlacesOf
  <2> QED BY <2>1, <2>2
<1>5. IdsOf(Data(b), t) \subseteq OfBlock(b, t, "ids")
  BY <1>1 DEF IdsOf, OfBlock
<1>6. UnseenOf(Data(b), t) \subseteq OfBlock(b, t, "ids") \ OfBlock(b, t, "labels")
  <2> SUFFICES ASSUME NEW i \in 1 .. Len(b), NEW id \in Of(b[i], t, "ids"), id \notin Of(b[i], t, "labels")
               PROVE  id \in OfBlock(b, t, "ids") /\ id \notin OfBlock(b, t, "labels")
    BY <1>1 DEF UnseenOf
  <2>1. id \in OfBlock(b, t, "ids")
    BY DEF OfBlock
  <2>2. ASSUME NEW j \in 1 .. Len(b), id \in Of(b[j], t, "labels") PROVE FALSE
    BY <1>2, <1>3, <2>2
  <2> QED BY <2>1, <2>2 DEF OfBlock
<1>7. Apart(Data(b), t, cs)
  <2> SUFFICES ASSUME NEW i \in 1 .. Len(b), NEW j \in 1 .. Len(b), i # j
               PROVE  Clear(Data(b)[i], Data(b)[j], t, cs)
    BY <1>1 DEF Apart
  <2>1. Of(b[i], t, "ids") \cap Of(b[j], t, "ids") = {}
    BY <1>2
  <2>2. Of(b[i], t, "labels") \cap Of(b[j], t, "labels") = {}
    BY <1>3, <2>1
  <2>3. Places(Data(b)[i], t, cs) \cap Places(Data(b)[j], t, cs) = {}
    <3> SUFFICES ASSUME NEW l \in Places(Data(b)[i], t, cs), l \in Places(Data(b)[j], t, cs)
                 PROVE  FALSE
      OBVIOUS
    <3>1. PICK x \in Of(b[i], t, "labels") \cap DOMAIN cs : l = cs[x]
      BY <1>1, LabelsAtMember
    <3>2. PICK y \in Of(b[j], t, "labels") \cap DOMAIN cs : l = cs[y]
      BY <1>1, LabelsAtMember
    <3>3. x = y
      BY <3>1, <3>2 DEF Injective
    <3> QED BY <2>2, <3>1, <3>2, <3>3
  <2> QED BY <1>1, <2>1, <2>3 DEF Clear
<1>8. Pending(Data(b), {}, t)
  BY <1>1 DEF Pending
<1> QED BY <1>1, <1>4, <1>5, <1>6, <1>7, <1>8 DEF Shape

LEMMA BlockPart ==
    ASSUME NEW t, PCodeOK(t), NEW b, StmtBlock(b, t), NEW cs, Injective(cs),
           NEW s \in State, NEW C, s.exp = 0,
           OfBlock(b, t, "exits") \subseteq s.exits, OfBlock(b, t, "returns") \subseteq s.rets
    PROVE  Part(Data(b), s, s, CaseLabels(b, t, cs), OfBlock(b, t, "ids"),
                OfBlock(b, t, "ids") \ OfBlock(b, t, "labels"), {}, t, C, cs)
<1>1. \A i \in 1 .. Len(Data(b)) : ~Firm(Data(b)[i])
  <2>1. BlockView(b, t, cs)
    BY BlockItems
  <2> QED BY <2>1 DEF BlockView
<1> QED BY <1>1, BlockShape, BlockLeads DEF Part

(* The unseen of a block may be said to be all its labels. *)
LEMMA PartMore ==
    ASSUME NEW a, NEW t, NEW cs, NEW P, NEW I, NEW U, NEW Q, NEW s, NEW v, NEW C,
           Part(a, s, v, P, I, U, Q, t, C, cs), NEW J, NEW V, I \subseteq J, U \subseteq V
    PROVE  Part(a, s, v, P, J, V, Q, t, C, cs)
BY DEF Part, Shape

(* A block whose labels have not been met. *)
Hidden(b, t, cs) ==
    /\ StmtBlock(b, t)
    /\ OfBlock(b, t, "ids") \cap DOMAIN cs = {}

LEMMA HiddenPart ==
    ASSUME NEW t, PCodeOK(t), NEW b, NEW cs, Injective(cs), Hidden(b, t, cs),
           NEW s \in State, NEW C, s.exp = 0,
           OfBlock(b, t, "exits") \subseteq s.exits, OfBlock(b, t, "returns") \subseteq s.rets
    PROVE  Part(Data(b), s, s, {}, OfBlock(b, t, "ids"), OfBlock(b, t, "ids"), {}, t, C, cs)
<1>1. StmtBlock(b, t) /\ OfBlock(b, t, "ids") \cap DOMAIN cs = {}
  BY DEF Hidden
<1>2. CaseLabels(b, t, cs) = {}
  BY <1>1, BlockLabels DEF CaseLabels, LabelsAt
<1>3. Part(Data(b), s, s, {}, OfBlock(b, t, "ids"),
           OfBlock(b, t, "ids") \ OfBlock(b, t, "labels"), {}, t, C, cs)
  BY <1>1, <1>2, BlockPart
<1> QED BY <1>3, PartMore

LEMMA AddBlock ==
    ASSUME NEW a, NEW t, PCodeOK(t), NEW cs, Injective(cs), NEW P, NEW I, NEW U, NEW Q,
           NEW s, NEW v \in State, NEW C, Part(a, s, v, P, I, U, Q, t, C, cs),
           NEW b, Hidden(b, t, cs), v.exp = 0,
           OfBlock(b, t, "ids") \cap I = {}, OfBlock(b, t, "ids") \cap U = {},
           OfBlock(b, t, "exits") \subseteq v.exits, OfBlock(b, t, "returns") \subseteq v.rets
    PROVE  Part(a \o Data(b), s, v, P, I \cup OfBlock(b, t, "ids"), U \cup OfBlock(b, t, "ids"), Q, t, C, cs)
<1>1. Part(Data(b), v, v, {}, OfBlock(b, t, "ids"), OfBlock(b, t, "ids"), {}, t, C, cs)
  BY HiddenPart
<1>2. I \cap OfBlock(b, t, "ids") = {} /\ U \cap OfBlock(b, t, "ids") = {}
  OBVIOUS
<1>3. Part(a \o Data(b), s, v, P \cup {}, I \cup OfBlock(b, t, "ids"), U \cup OfBlock(b, t, "ids"), Q, t, C, cs)
  BY <1>1, <1>2, PartJoin
<1>4. P \cup {} = P
  OBVIOUS
<1> QED BY <1>3, <1>4

(* What CodeScanCase goes through. *)
LEMMA ScanPart ==
    ASSUME NEW t, PCodeOK(t), NEW b, StmtBlock(b, t), NEW cs, NEW s \in State, NEW C
    PROVE  Part(Scan(b), s, s, {}, {}, OfBlock(b, t, "labels"), OfBlock(b, t, "labels"), t, C, cs)
<1>1. /\ Len(b) \in Nat
      /\ \A i \in 1 .. Len(b) : b[i] \in t.exprs \cup DOMAIN t.about
  BY DEF StmtBlock
<1>2. /\ \A i \in 1 .. Len(b) : Scan(b)[i] = [do |-> "scan", pc |-> b[i]]
      /\ Scan(b) = [i \in 1 .. Len(b) |-> Scan(b)[i]]
  BY DEF Scan
<1>3. IsSeq(Scan(b)) /\ Len(Scan(b)) = Len(b)
  BY <1>1, <1>2, SeqMap
<1>4. ASSUME NEW i \in 1 .. Len(b)
      PROVE  /\ Scan(b)[i].do = "scan" /\ Scan(b)[i].pc = b[i]
             /\ Places(Scan(b)[i], t, cs) = {} /\ Ids(Scan(b)[i], t) = {}
             /\ Unseen(Scan(b)[i], t) = Of(b[i], t, "labels")
             /\ ~Firm(Scan(b)[i])
  <2>1. Scan(b)[i].do = "scan" /\ Scan(b)[i].pc = b[i]
    <3>1. Scan(b)[i] = [do |-> "scan", pc |-> b[i]]
      BY <1>2
    <3> QED BY <3>1
  <2> QED BY <2>1 DEF Places, Ids, Unseen, Firm
<1>5. \A i, j \in 1 .. Len(b) : i # j => Of(b[i], t, "labels") \cap Of(b[j], t, "labels") = {}
  BY LabelsAmongIds DEF StmtBlock
<1>6. PlacesOf(Scan(b), t, cs) = {} /\ IdsOf(Scan(b), t) = {}
  BY <1>3, <1>4 DEF PlacesOf, IdsOf
<1>7. UnseenOf(Scan(b), t) \subseteq OfBlock(b, t, "labels")
  BY <1>3, <1>4 DEF UnseenOf, OfBlock
<1>8. Apart(Scan(b), t, cs)
  BY <1>3, <1>4, <1>5 DEF Apart, Clear
<1>9. Pending(Scan(b), OfBlock(b, t, "labels"), t)
  BY <1>3, <1>4 DEF Pending, OfBlock
<1>10. Leads(Scan(b), s, s, t, C)
  <2> DEFINE f == [i \in 1 .. Len(b) + 1 |-> s]
  <2>1. f \in [1 .. Len(b) + 1 -> State] /\ f[1] = s /\ f[Len(b) + 1] = s
    BY <1>1
  <2>2. ASSUME NEW i \in 1 .. Len(b) PROVE Step(Scan(b)[i], f[i], f[i + 1], t, C)
    <3>1. f[i] = s /\ f[i + 1] = s
      BY <1>1
    <3>2. Moves(s, s, 0)
      BY DEF Moves, State
    <3>3. Step(Scan(b)[i], s, s, t, C)
      BY <1>1, <1>4, <3>2 DEF Step, Kinds
    <3> QED BY <3>1, <3>3
  <2> HIDE DEF f
  <2> QED BY <1>3, <2>1, <2>2 DEF Leads
<1> QED BY <1>3, <1>4, <1>6, <1>7, <1>8, <1>9, <1>10 DEF Part, Shape

LEMMA BlockHolds ==
    ASSUME NEW t, PCodeOK(t), NEW b, StmtBlock(b, t), NEW id \in OfBlock(b, t, "labels")
    PROVE  Found(Data(b), id, t)
<1>1. PICK i \in 1 .. Len(b) : id \in Of(b[i], t, "labels")
  BY DEF OfBlock
<1>2. Len(Data(b)) = Len(b) /\ Data(b)[i].do = "code" /\ Data(b)[i].pc = b[i]
  <2>1. BlockView(b, t, <<>>)
    BY BlockItems
  <2> QED BY <2>1 DEF BlockView
<1> QED BY <1>1, <1>2 DEF Found, Holds

-----------------------------------------------------------------------------
(***************************************************************************)
(* The labels: each label an item places has an entry and no place, no     *)
(* other item places it, and the labels to come are new.                   *)
(***************************************************************************)
NoOff(l) == \A m \in Nat : l # Off(m)
Sits(x, lk, cs, t) ==
    \A l \in Places(x, t, cs) :
      /\ l \in DOMAIN lk => lk[l].nOffset = 0
      /\ IF Firm(x) THEN NoOff(l) ELSE l \in DOMAIN lk

LabelsOK(w, lk, cs, nx, t) ==
    /\ IsSeq(w) /\ nx \in Nat
    /\ \A m \in Nat : Off(m) \in DOMAIN lk => m < nx
    /\ Injective(cs) /\ \A id \in DOMAIN cs : cs[id] \in DOMAIN lk
    /\ \A i \in 1 .. Len(w) : Sits(w[i], lk, cs, t) /\ Unseen(w[i], t) \cap DOMAIN cs = {}
    /\ Apart(w, t, cs)
    /\ Pending(w, {}, t)

ScanLabels(x, t) == IF x.do = "scan" THEN Of(x.pc, t, "labels") ELSE {}
Beyond(x, w, t, cs) ==
    /\ \A i \in 1 .. Len(w) : Clear(x, w[i], t, cs)
    /\ \A id \in ScanLabels(x, t) : Found(w, id, t)

LEMMA DropHead ==
    ASSUME NEW w, NEW lk, NEW cs, NEW nx, NEW t, LabelsOK(w, lk, cs, nx, t), w # <<>>
    PROVE  LabelsOK(Tail(w), lk, cs, nx, t) /\ Beyond(w[1], Tail(w), t, cs)
<1> DEFINE r == Tail(w)
<1>1. /\ IsSeq(r) /\ Len(w) >= 1 /\ Len(r) = Len(w) - 1
      /\ \A i \in 1 .. Len(r) : r[i] = w[i + 1] /\ i + 1 \in 1 .. Len(w)
  BY SeqTail DEF LabelsOK
<1>2. Len(w) \in Nat /\ Len(r) \in Nat
  BY <1>1, SeqLength DEF LabelsOK
<1> HIDE DEF r
<1>3. Apart(w, t, cs) /\ Pending(w, {}, t)
  BY DEF LabelsOK
<1>4. Apart(r, t, cs)
  <2> SUFFICES ASSUME NEW i \in 1 .. Len(r), NEW j \in 1 .. Len(r), i # j
               PROVE  Clear(r[i], r[j], t, cs)
    BY DEF Apart
  <2>1. i + 1 # j + 1
    BY <1>2
  <2> QED BY <1>1, <1>3, <2>1 DEF Apart
<1>5. Pending(r, {}, t)
  <2> SUFFICES ASSUME NEW i \in 1 .. Len(r), r[i].do = "scan", NEW id \in Of(r[i].pc, t, "labels")
               PROVE  \E j \in i + 1 .. Len(r) : Holds(r[j], id, t)
    BY DEF Pending
  <2>1. PICK j \in (i + 1) + 1 .. Len(w) : Holds(w[j], id, t)
    BY <1>1, <1>3 DEF Pending
  <2>2. j - 1 \in i + 1 .. Len(r) /\ j - 1 \in 1 .. Len(r) /\ (j - 1) + 1 = j
    BY <1>1, <1>2
  <2> QED BY <1>1, <2>1, <2>2
<1>6. \A i \in 1 .. Len(r) : Sits(r[i], lk, cs, t) /\ Unseen(r[i], t) \cap DOMAIN cs = {}
  BY <1>1 DEF LabelsOK
<1>7. LabelsOK(r, lk, cs, nx, t)
  BY <1>1, <1>4, <1>5, <1>6 DEF LabelsOK
<1>8. ASSUME NEW i \in 1 .. Len(r) PROVE Clear(w[1], r[i], t, cs)
  <2>1. 1 \in 1 .. Len(w) /\ 1 # i + 1
    BY <1>1, <1>2
  <2> QED BY <1>1, <1>3, <2>1 DEF Apart
<1>9. ASSUME NEW id \in ScanLabels(w[1], t) PROVE Found(r, id, t)
  <2>1. 1 \in 1 .. Len(w) /\ w[1].do = "scan" /\ id \in Of(w[1].pc, t, "labels")
    BY <1>1, <1>2 DEF ScanLabels
  <2>2. PICK j \in 1 + 1 .. Len(w) : Holds(w[j], id, t)
    BY <1>3, <2>1 DEF Pending
  <2>3. j - 1 \in 1 .. Len(r) /\ (j - 1) + 1 = j
    BY <1>1, <1>2
  <2> QED BY <1>1, <2>2, <2>3 DEF Found
<1> QED BY <1>7, <1>8, <1>9 DEF Beyond, r

LEMMA GrowLabels ==
    ASSUME NEW w, NEW lk, NEW cs, NEW nx, NEW t, LabelsOK(w, lk, cs, nx, t), NEW lk2, NEW nx2 \in Nat,
           DOMAIN lk \subseteq DOMAIN lk2,
           \A l \in PlacesOf(w, t, cs) : l \in DOMAIN lk2 => lk2[l].nOffset = 0,
           \A m \in Nat : Off(m) \in DOMAIN lk2 => m < nx2
    PROVE  LabelsOK(w, lk2, cs, nx2, t)
<1>1. ASSUME NEW i \in 1 .. Len(w) PROVE Sits(w[i], lk2, cs, t)
  <2>1. Sits(w[i], lk, cs, t)
    BY DEF LabelsOK
  <2>2. Places(w[i], t, cs) \subseteq PlacesOf(w, t, cs)
    BY PlacesMember
  <2> QED BY <2>1, <2>2 DEF Sits
<1>2. \A id \in DOMAIN cs : cs[id] \in DOMAIN lk2
  BY DEF LabelsOK
<1> QED BY <1>1, <1>2 DEF LabelsOK

LEMMA PrependLabels ==
    ASSUME NEW w, NEW lk, NEW cs, NEW nx, NEW t, LabelsOK(w, lk, cs, nx, t),
           NEW items, NEW P, NEW I, NEW U, NEW Q, Shape(items, P, I, U, Q, t, cs),
           \A i \in 1 .. Len(items) : Sits(items[i], lk, cs, t),
           U \cap DOMAIN cs = {},
           P \cap PlacesOf(w, t, cs) = {}, I \cap IdsOf(w, t) = {}, U \cap UnseenOf(w, t) = {},
           \A id \in Q : Found(w, id, t)
    PROVE  LabelsOK(items \o w, lk, cs, nx, t)
<1>1. IsSeq(w) /\ Apart(w, t, cs) /\ Pending(w, {}, t)
  BY DEF LabelsOK
<1>2. Shape(w, PlacesOf(w, t, cs), IdsOf(w, t), UnseenOf(w, t), {}, t, cs)
  BY <1>1 DEF Shape
<1>3. Shape(items \o w, P \cup PlacesOf(w, t, cs), I \cup IdsOf(w, t), U \cup UnseenOf(w, t), {}, t, cs)
  BY <1>2, ShapeJoin
<1>4. IsSeq(items \o w) /\ Apart(items \o w, t, cs) /\ Pending(items \o w, {}, t)
  BY <1>3 DEF Shape
<1>5. IsSeq(items)
  BY DEF Shape
<1>6. ASSUME NEW i \in 1 .. Len(items \o w)
      PROVE  Sits((items \o w)[i], lk, cs, t) /\ Unseen((items \o w)[i], t) \cap DOMAIN cs = {}
  <2>1. CASE i <= Len(items)
    <3>1. i \in 1 .. Len(items) /\ (items \o w)[i] = items[i]
      BY <1>1, <1>5, <2>1, SeqConcat
    <3>2. Unseen(items[i], t) \subseteq U
      BY <3>1, PlacesMember DEF Shape
    <3> QED BY <3>1, <3>2
  <2>2. CASE ~(i <= Len(items))
    <3>1. i - Len(items) \in 1 .. Len(w) /\ (items \o w)[i] = w[i - Len(items)]
      BY <1>1, <1>5, <2>2, SeqConcat
    <3> QED BY <3>1 DEF LabelsOK
  <2> QED BY <2>1, <2>2
<1> QED BY <1>4, <1>6 DEF LabelsOK

LEMMA BeyondAll ==
    ASSUME NEW x, NEW w, NEW t, NEW cs, Beyond(x, w, t, cs)
    PROVE  /\ Places(x, t, cs) \cap PlacesOf(w, t, cs) = {}
           /\ Ids(x, t) \cap IdsOf(w, t) = {}
           /\ Unseen(x, t) \cap UnseenOf(w, t) = {}
BY DEF Beyond, Clear, PlacesOf, IdsOf, UnseenOf

Fresh(k, nx) == {Off(nx + i - 1) : i \in 1 .. k}
Kept(lk, lk2, k, nx) ==
    /\ DOMAIN lk2 = DOMAIN lk \cup Fresh(k, nx)
    /\ \A l \in DOMAIN lk2 : lk2[l] = IF l \in Fresh(k, nx) THEN Undefined ELSE lk[l]

LEMMA OffInjective == \A m, n : Off(m) = Off(n) => m = n
BY DEF Off

LEMMA FnNoOff ==
    ASSUME NEW name
    PROVE  NoOff(Fn(name))
BY DEF NoOff, Off, Fn

LEMMA SomewherePlaced ==
    ASSUME NEW w, NEW lk, NEW cs, NEW nx, NEW t, LabelsOK(w, lk, cs, nx, t), NEW l \in PlacesOf(w, t, cs)
    PROVE  /\ l \in DOMAIN lk => lk[l].nOffset = 0
           /\ l \in DOMAIN lk \/ NoOff(l)
           /\ \A m \in Nat : m >= nx => l # Off(m)
<1>1. PICK i \in 1 .. Len(w) : l \in Places(w[i], t, cs)
  BY DEF PlacesOf
<1>2. Sits(w[i], lk, cs, t)
  BY DEF LabelsOK
<1>3. l \in DOMAIN lk => lk[l].nOffset = 0
  BY <1>1, <1>2 DEF Sits
<1>4. l \in DOMAIN lk \/ NoOff(l)
  BY <1>1, <1>2 DEF Sits
<1>5. ASSUME NEW m \in Nat, m >= nx PROVE l # Off(m)
  <2>1. Off(m) \notin DOMAIN lk
    BY <1>5 DEF LabelsOK
  <2> QED BY <1>4, <2>1 DEF NoOff
<1> QED BY <1>3, <1>4, <1>5

(* The items that take the place of the first, with k labels made. *)
LEMMA AdvanceLabels ==
    ASSUME NEW w, NEW lk, NEW cs, NEW nx, NEW t, LabelsOK(w, lk, cs, nx, t), w # <<>>,
           NEW k \in Nat, NEW lk2, Kept(lk, lk2, k, nx),
           NEW items, NEW P, NEW I, NEW U, NEW Q, Shape(items, P, I, U, Q, t, cs),
           \A i \in 1 .. Len(items) : ~Firm(items[i]), ~Firm(w[1]),
           P \subseteq Places(w[1], t, cs) \cup Fresh(k, nx), I \subseteq Ids(w[1], t),
           U \subseteq Unseen(w[1], t), Q \subseteq ScanLabels(w[1], t)
    PROVE  LabelsOK(items \o Tail(w), lk2, cs, nx + k, t)
<1> DEFINE r == Tail(w)
<1>1. LabelsOK(r, lk, cs, nx, t) /\ Beyond(w[1], r, t, cs)
  BY DropHead
<1> HIDE DEF r
<1> USE DEF Kept
<1>2. nx \in Nat /\ nx + k \in Nat
  BY DEF LabelsOK
<1>3. ASSUME NEW l \in Fresh(k, nx)
      PROVE  \E m \in Nat : m >= nx /\ m < nx + k /\ l = Off(m)
  <2>1. PICK i \in 1 .. k : l = Off(nx + i - 1)
    BY DEF Fresh
  <2>2. nx + i - 1 \in Nat /\ nx + i - 1 >= nx /\ nx + i - 1 < nx + k
    BY <1>2
  <2> QED BY <2>1, <2>2
<1>4. Fresh(k, nx) \cap PlacesOf(r, t, cs) = {}
  BY <1>1, <1>3, SomewherePlaced
<1>5. ASSUME NEW m \in Nat, Off(m) \in DOMAIN lk2 PROVE m < nx + k
  <2>1. CASE Off(m) \in DOMAIN lk
    <3>1. m < nx
      BY <2>1 DEF LabelsOK
    <3> QED BY <1>2, <3>1
  <2>2. CASE Off(m) \in Fresh(k, nx)
    BY <1>3, <2>2, OffInjective
  <2> QED BY <1>5, <2>1, <2>2
<1>6. ASSUME NEW l \in PlacesOf(r, t, cs), l \in DOMAIN lk2 PROVE lk2[l].nOffset = 0
  <2>1. l \notin Fresh(k, nx)
    BY <1>4
  <2> QED BY <1>1, <1>6, <2>1, SomewherePlaced
<1>7. LabelsOK(r, lk2, cs, nx + k, t)
  BY <1>1, <1>2, <1>5, <1>6, GrowLabels
<1>8. IsSeq(w) /\ 1 \in 1 .. Len(w)
  <2>1. IsSeq(w)
    BY DEF LabelsOK
  <2> QED BY <2>1, SeqTail, SeqLength
<1>9. Sits(w[1], lk, cs, t) /\ Unseen(w[1], t) \cap DOMAIN cs = {}
  BY <1>8 DEF LabelsOK
<1>10. ASSUME NEW i \in 1 .. Len(items) PROVE Sits(items[i], lk2, cs, t)
  <2> SUFFICES ASSUME NEW l \in Places(items[i], t, cs)
               PROVE  l \in DOMAIN lk2 /\ lk2[l].nOffset = 0
    BY DEF Sits
  <2>1. l \in P
    BY PlacesMember DEF Shape
  <2>2. CASE l \in Fresh(k, nx)
    BY <2>2 DEF Undefined
  <2>3. CASE l \notin Fresh(k, nx)
    <3>1. l \in Places(w[1], t, cs)
      BY <2>1, <2>3
    <3>2. l \in DOMAIN lk /\ lk[l].nOffset = 0
      BY <1>9, <3>1 DEF Sits
    <3> QED BY <2>3, <3>2
  <2> QED BY <2>2, <2>3
<1>11. P \cap PlacesOf(r, t, cs) = {} /\ I \cap IdsOf(r, t) = {} /\ U \cap UnseenOf(r, t) = {}
  <2>1. /\ Places(w[1], t, cs) \cap PlacesOf(r, t, cs) = {}
        /\ Ids(w[1], t) \cap IdsOf(r, t) = {}
        /\ Unseen(w[1], t) \cap UnseenOf(r, t) = {}
    BY <1>1, BeyondAll
  <2> QED BY <1>4, <2>1
<1>12. U \cap DOMAIN cs = {} /\ \A id \in Q : Found(r, id, t)
  BY <1>1, <1>9 DEF Beyond
<1> QED BY <1>7, <1>10, <1>11, <1>12, PrependLabels DEF r

-----------------------------------------------------------------------------
(***************************************************************************)
(* The way the generator is on, for a set C of labels that get a place:    *)
(* its registers agree with the state s it starts from, the labels jumps   *)
(* wait for are in C, and a label in C has a place or gets one.            *)
(***************************************************************************)
T == Tree(prog)
NoError == ~(\E m \in messages : m[1] = "ErrorFunctionBodyMissing")
PlacedIn(l, lk) == l \in DOMAIN lk /\ lk[l].nOffset # 0

Regs(s, C) ==
    /\ s.exp = depth.exp
    /\ "break" \in s.exits => brk.label \in C
    /\ "continue" \in s.exits => cont.label \in C
    /\ s.rets \subseteq {fn.ret} /\ (s.rets # {} => fn.return \in C)
    /\ default = NoLabel \/ default \in C

Known(C) ==
    /\ \A name \in Names(T) : Fn(name) \in C
    /\ \A l \in C : l \in DOMAIN linker \/ NoOff(l)
    /\ \A l \in DOMAIN linker : linker[l].links # {} => l \in C
    /\ ContinuesPlaced /\ NoError =>
         \A l \in C : PlacedIn(l, linker) \/ l \in PlacesOf(work, T, cases)

Way(C) == \E s, u \in State : Regs(s, C) /\ Known(C) /\ Leads(work, s, u, T, C)
LabelsInv == LabelsOK(work, linker, cases, nextLabel, T)
CodeInv == prog \in Programs /\ LabelsInv /\ \E C : Way(C)

(* The first item leads from s to v, the others from there to u. *)
Here(C, s, v, u) ==
    /\ prog \in Programs /\ LabelsInv /\ work # <<>>
    /\ s \in State /\ v \in State /\ u \in State
    /\ Regs(s, C) /\ Known(C)
    /\ Step(Head1, s, v, T, C) /\ Leads(Tail(work), v, u, T, C)

LEMMA OpenWay ==
    ASSUME CodeInv, work # <<>>
    PROVE  \E C, s, v, u : Here(C, s, v, u)
<1>1. PICK C : Way(C)
  BY DEF CodeInv
<1>2. PICK s \in State, u \in State : Regs(s, C) /\ Known(C) /\ Leads(work, s, u, T, C)
  BY <1>1 DEF Way
<1>3. IsSeq(work)
  BY DEF CodeInv, LabelsInv, LabelsOK
<1>4. PICK v \in State : Step(work[1], s, v, T, C) /\ Leads(Tail(work), v, u, T, C)
  BY <1>2, <1>3, LeadsSplit
<1> QED BY <1>2, <1>4 DEF Here, CodeInv, Head1

LEMMA TreeOK ==
    ASSUME prog \in Programs
    PROVE  PCodeOK(T)
BY PCodeAssumption DEF T

LEMMA HeadPlaces ==
    ASSUME NEW w, IsSeq(w), w # <<>>, NEW t, NEW cs
    PROVE  PlacesOf(w, t, cs) = Places(w[1], t, cs) \cup PlacesOf(Tail(w), t, cs)
<1> DEFINE r == Tail(w)
<1>1. /\ Len(w) >= 1 /\ Len(r) = Len(w) - 1 /\ Len(w) \in Nat
      /\ \A i \in 1 .. Len(r) : r[i] = w[i + 1] /\ i + 1 \in 1 .. Len(w)
  BY SeqTail, SeqLength
<1> HIDE DEF r
<1>2. 1 \in 1 .. Len(w)
  BY <1>1
<1>3. ASSUME NEW i \in 1 .. Len(w), i # 1 PROVE i - 1 \in 1 .. Len(r) /\ w[i] = r[i - 1]
  <2>1. i - 1 \in 1 .. Len(r) /\ (i - 1) + 1 = i
    BY <1>1, <1>3
  <2> QED BY <1>1, <2>1
<1>4. PlacesOf(r, t, cs) \subseteq PlacesOf(w, t, cs)
  BY <1>1 DEF PlacesOf
<1>5. Places(w[1], t, cs) \subseteq PlacesOf(w, t, cs)
  BY <1>2 DEF PlacesOf
<1>6. PlacesOf(w, t, cs) \subseteq Places(w[1], t, cs) \cup PlacesOf(r, t, cs)
  BY <1>3 DEF PlacesOf
<1> QED BY <1>4, <1>5, <1>6 DEF r

(* What the items that take the place of the first may own. *)
Owns(P, I, U, Q, k) ==
    /\ Places(Head1, T, cases) \subseteq P /\ P \subseteq Places(Head1, T, cases) \cup Fresh(k, nextLabel)
    /\ I \subseteq Ids(Head1, T) /\ U \subseteq Unseen(Head1, T) /\ Q \subseteq ScanLabels(Head1, T)

(* The first item gives way to what CodeData does for it. *)
LEMMA AdvanceInv ==
    ASSUME NEW C, NEW s, NEW v, NEW u, Here(C, s, v, u), ~Firm(Head1),
           NEW k \in Nat, NEW items, Kept(linker, linker', k, nextLabel), nextLabel' = nextLabel + k,
           Then(items), prog' = prog, cases' = cases, NoError' => NoError,
           NEW D, NEW P, NEW I, NEW U, NEW Q, NEW s2 \in State,
           Part(items, s2, v, P, I, U, Q, T, C \cup D, cases), Regs(s2, C \cup D)',
           Owns(P, I, U, Q, k), D \subseteq Fresh(k, nextLabel), ContinuesPlaced => D \subseteq P
    PROVE  CodeInv'
<1>1. T' = T
  BY DEF T
<1>2. work' = items \o Tail(work)
  BY DEF Then
<1>3. LabelsOK(work, linker, cases, nextLabel, T) /\ work # <<>>
  BY DEF Here, LabelsInv
<1>4. LabelsOK(items \o Tail(work), linker', cases, nextLabel + k, T)
  <2>1. Shape(items, P, I, U, Q, T, cases) /\ \A i \in 1 .. Len(items) : ~Firm(items[i])
    BY DEF Part
  <2>2. ~Firm(work[1])
    BY DEF Head1
  <2>3. /\ P \subseteq Places(work[1], T, cases) \cup Fresh(k, nextLabel)
        /\ I \subseteq Ids(work[1], T) /\ U \subseteq Unseen(work[1], T) /\ Q \subseteq ScanLabels(work[1], T)
    BY DEF Owns, Head1
  <2> QED BY <1>3, <2>1, <2>2, <2>3, AdvanceLabels
<1>5. LabelsInv'
  BY <1>1, <1>2, <1>4 DEF LabelsInv
<1>6. IsSeq(work) /\ IsSeq(items) /\ IsSeq(Tail(work))
  BY <1>3, SeqTail DEF LabelsOK, Part, Shape
<1>7. Leads(work', s2, u, T, C \cup D)
  <2>1. Leads(items, s2, v, T, C \cup D)
    BY DEF Part
  <2>2. Leads(Tail(work), v, u, T, C \cup D)
    BY LeadsMore DEF Here
  <2> QED BY <1>2, <1>6, <2>1, <2>2, LeadsJoin
<1>8. Known(C)
  BY DEF Here
<1>9. \A l \in C : PlacedIn(l, linker) => PlacedIn(l, linker')
  <2> SUFFICES ASSUME NEW l \in DOMAIN linker, linker[l].nOffset # 0
               PROVE  l \in DOMAIN linker' /\ linker'[l].nOffset # 0
    BY DEF PlacedIn
  <2>1. l \notin Fresh(k, nextLabel)
    <3> SUFFICES ASSUME NEW i \in 1 .. k, l = Off(nextLabel + i - 1) PROVE FALSE
      BY DEF Fresh
    <3>1. nextLabel \in Nat
      BY <1>3 DEF LabelsOK
    <3>2. nextLabel + i - 1 \in Nat /\ ~(nextLabel + i - 1 < nextLabel)
      BY <3>1
    <3> QED BY <1>3, <3>2 DEF LabelsOK
  <2> QED BY <2>1 DEF Kept
<1>10. PlacesOf(work', T, cases) = P \cup PlacesOf(Tail(work), T, cases)
  BY <1>2, <1>6, JoinItems DEF Part, Shape
<1>11. PlacesOf(work, T, cases) \subseteq PlacesOf(work', T, cases)
  <2>1. Places(work[1], T, cases) \subseteq P
    BY DEF Owns, Head1
  <2> QED BY <1>3, <1>6, <1>10, <2>1, HeadPlaces
<1>12. Known(C \cup D)'
  <2>1. \A name \in Names(T) : Fn(name) \in C \cup D
    BY <1>8 DEF Known
  <2>2. \A l \in C \cup D : l \in DOMAIN linker' \/ NoOff(l)
    BY <1>8 DEF Known, Kept
  <2>3. \A l \in DOMAIN linker' : linker'[l].links # {} => l \in C \cup D
    BY <1>8 DEF Known, Kept, Undefined
  <2>4. ASSUME ContinuesPlaced, NoError', NEW l \in C \cup D
        PROVE  PlacedIn(l, linker') \/ l \in PlacesOf(work', T, cases)
    <3>1. CASE l \in C
      BY <1>8, <1>9, <1>11, <2>4, <3>1 DEF Known
    <3>2. CASE l \in D
      BY <1>10, <2>4, <3>2
    <3> QED BY <3>1, <3>2
  <2> QED BY <1>1, <2>1, <2>2, <2>3, <2>4 DEF Known, PlacedIn
<1>13. Way(C \cup D)'
  <2>1. u \in State
    BY DEF Here
  <2> QED BY <1>1, <1>7, <1>12, <2>1 DEF Way
<1>14. prog' \in Programs
  BY DEF Here
<1> QED BY <1>5, <1>13, <1>14 DEF CodeInv

-----------------------------------------------------------------------------
(* Operations that make no label and place none. *)

LEMMA TakenApart ==
    ASSUME NEW k \in Nat, NEW items, TakeApart(k, items)
    PROVE  /\ Kept(linker, linker', k, nextLabel) /\ nextLabel' = nextLabel + k
           /\ Then(items) /\ prog' = prog
           /\ \A i \in 1 .. k : L(i) \in Fresh(k, nextLabel) /\ L(i) = Off(nextLabel + i - 1)
           /\ UNCHANGED <<out, jumps, disp, code>>
<1>1. {L(i) : i \in 1 .. k} = Fresh(k, nextLabel)
  BY DEF L, Fresh
<1> QED BY <1>1 DEF TakeApart, ForwardLabels, Kept, L

LEMMA SameRegs ==
    ASSUME NEW s, NEW C, Regs(s, C), UNCHANGED <<depth, fn, brk, cont, default>>
    PROVE  Regs(s, C)'
BY DEF Regs

LEMMA FlatAdvance ==
    ASSUME NEW C, NEW s, NEW v, NEW u, Here(C, s, v, u), ~Firm(Head1), Places(Head1, T, cases) = {},
           NEW items, TakeApart(0, items), cases' = cases, NoError' => NoError,
           NEW s2 \in State, Flat(items, s2, v, T, C), Regs(s2, C)'
    PROVE  CodeInv'
<1>1. /\ Kept(linker, linker', 0, nextLabel) /\ nextLabel' = nextLabel + 0 /\ Then(items) /\ prog' = prog
  BY TakenApart
<1>2. Part(items, s2, v, {}, {}, {}, {}, T, C \cup {}, cases)
  BY FlatPart
<1>3. Owns({}, {}, {}, {}, 0)
  BY DEF Owns
<1>4. Regs(s2, C \cup {})'
  OBVIOUS
<1>5. {} \subseteq Fresh(0, nextLabel) /\ (ContinuesPlaced => {} \subseteq {})
  OBVIOUS
<1> QED BY <1>1, <1>2, <1>3, <1>4, <1>5, AdvanceInv

(* An operation of an expression, or one the generator puts into work. *)
LEMMA CodeHead ==
    ASSUME CodeInv, Doing("code")
    PROVE  \E C, s, v, u :
             /\ Here(C, s, v, u) /\ CodeStep(Node, s, v, T, C) /\ s.exp = depth.exp
             /\ s \in State /\ v \in State
             /\ \A name \in Names(T) : Fn(name) \in C
<1>1. work # <<>> /\ Head1.do = "code"
  BY DEF Doing
<1>2. PICK C, s, v, u : Here(C, s, v, u)
  BY <1>1, OpenWay
<1>3. CodeStep(Node, s, v, T, C) /\ s.exp = depth.exp
  BY <1>1, <1>2 DEF Here, Step, Regs, Node
<1> QED BY <1>2, <1>3 DEF Here, Known

LEMMA TreeHolds ==
    ASSUME CodeInv
    PROVE  PCodeOK(T)
BY TreeOK DEF CodeInv

LEMMA ExprHead ==
    ASSUME CodeInv, Doing("code"), Node.op \in ExprOps
    PROVE  Node \in T.exprs /\ ExprOK(Node, T) /\ ExprSize(Node) \in Int
<1>1. Node \in T.exprs
  BY CodeHead DEF CodeStep
<1> QED BY <1>1, TreeHolds, ExprNode

LEMMA NoStmtHead ==
    ASSUME CodeInv, Doing("code"), Node.op \notin StmtOps
    PROVE  ~Firm(Head1) /\ Places(Head1, T, cases) = {}
<1>1. Head1.do = "code"
  BY DEF Doing
<1>2. Bare(Head1, T)
  BY <1>1, TreeHolds, MadeUp DEF Bare, Node
<1> QED BY <1>2, BareItem

Steady == UNCHANGED <<depth, fn, brk, cont, default, cases>> /\ (NoError' => NoError)

LEMMA ExprAction ==
    ASSUME CodeInv, Doing("code"), Node.op \in ExprOps, NEW items, TakeApart(0, items), Steady,
           \A s \in State : \A C :
             (\A name \in Names(T) : Fn(name) \in C) => Flat(items, At(s, 0), At(s, ExprSize(Node)), T, C)
    PROVE  CodeInv'
<1>1. PICK C, s, v, u :
        /\ Here(C, s, v, u) /\ CodeStep(Node, s, v, T, C) /\ s \in State /\ v \in State
        /\ \A name \in Names(T) : Fn(name) \in C
  BY CodeHead
<1>2. ~Firm(Head1) /\ Places(Head1, T, cases) = {}
  BY NoStmtHead DEF ExprOps, StmtOps
<1>3. v = At(s, ExprSize(Node)) /\ s = At(s, 0)
  BY <1>1, ExprHead, MovesAt, AtZero DEF CodeStep
<1>4. Flat(items, s, v, T, C)
  BY <1>1, <1>3
<1>5. Regs(s, C)'
  BY <1>1, SameRegs DEF Here, Steady
<1> QED BY <1>1, <1>2, <1>4, <1>5, FlatAdvance DEF Steady

LEMMA SteadyAll ==
    ASSUME UNCHANGED <<depth, ctxVars>>
    PROVE  Steady
BY DEF ctxVars, Steady, NoError

LEMMA KeepConst ==
    ASSUME CodeInv, CodeConst
    PROVE  CodeInv'
<1>1. /\ Doing("code") /\ Node.op = "Const" /\ Node.op \in ExprOps /\ ExprSize(Node) = 1
      /\ TakeApart(0, Ins("CONST", Node.v, 0, 0, 1)) /\ Steady
  BY SteadyAll DEF CodeConst, Coding, ExprOps, ExprSize, Node
<1>2. ASSUME NEW s \in State, NEW C
      PROVE  Flat(Ins("CONST", Node.v, 0, 0, 1), At(s, 0), At(s, 1), T, C)
  BY FlatIns
<1> QED BY <1>1, <1>2, ExprAction

LEMMA KeepConstantVariable ==
    ASSUME CodeInv, CodeConstantVariable
    PROVE  CodeInv'
<1>1. /\ Doing("code") /\ Node.op = "Var" /\ Node.op \in ExprOps /\ ExprSize(Node) = 1
      /\ Node.global /\ Node.sym \in DOMAIN T.prog.constants /\ T.prog = prog
      /\ TakeApart(0, Data(prog.constants[Node.sym])) /\ Steady
  BY SteadyAll DEF CodeConstantVariable, Coding, ExprOps, ExprSize, Node, T, Tree
<1>2. ExprBlock(prog.constants[Node.sym], 1, T) /\ PCodeOK(T)
  BY <1>1, ExprHead, TreeHolds DEF ExprOK
<1>3. ASSUME NEW s \in State, NEW C
      PROVE  Flat(Data(prog.constants[Node.sym]), At(s, 0), At(s, 1), T, C)
  BY <1>2, FlatData
<1> QED BY <1>1, <1>3, ExprAction

LEMMA KeepVariable ==
    ASSUME CodeInv, CodeVariable
    PROVE  CodeInv'
<1> DEFINE at == VarOffset(Node)
           inc(d) == Ins(Pick(Node.global, "INCISP", "INCIBP"), at + d, 0, 0, 0)
           before == When(Node.inc = "pre", inc(0))
           copy == Ins(Pick(Node.global, "CPTOPSP", "CPTOPBP"), at, 1, 0, 1)
           after == When(Node.inc = "post", inc(IF BySP(Node.global) THEN 1 ELSE 0))
<1>1. /\ Doing("code") /\ Node.op = "Var" /\ Node.op \in ExprOps /\ ExprSize(Node) = 1
      /\ TakeApart(0, before \o copy \o after) /\ Steady
  BY SteadyAll DEF CodeVariable, Coding, ExprOps, ExprSize, Node
<1>2. ASSUME NEW s \in State, NEW C
      PROVE  Flat(before \o copy \o after, At(s, 0), At(s, 1), T, C)
  <2>1. At(s, 0) \in State /\ At(s, 1) \in State
    BY AtState
  <2>2. Flat(inc(0), At(s, 0), At(s, 0), T, C) /\ Flat(inc(0), At(s, 1), At(s, 1), T, C)
        /\ Flat(inc(1), At(s, 1), At(s, 1), T, C)
    BY FlatIns
  <2>3. Flat(before, At(s, 0), At(s, 0), T, C)
    BY <2>1, <2>2, FlatWhen
  <2>4. Flat(copy, At(s, 0), At(s, 1), T, C)
    BY FlatIns
  <2>5. Flat(after, At(s, 1), At(s, 1), T, C)
    <3>1. Flat(inc(IF BySP(Node.global) THEN 1 ELSE 0), At(s, 1), At(s, 1), T, C)
      BY <2>2
    <3> HIDE DEF inc
    <3> QED BY <2>1, <3>1, FlatWhen
  <2> HIDE DEF before, copy, after
  <2>6. Flat(before \o copy, At(s, 0), At(s, 1), T, C)
    BY <2>3, <2>4, FlatJoin
  <2> QED BY <2>5, <2>6, FlatJoin
<1> HIDE DEF before, copy, after
<1> QED BY <1>1, <1>2, ExprAction

LEMMA KeepAssignment ==
    ASSUME CodeInv, CodeAssignment
    PROVE  CodeInv'
<1> DEFINE n == [op |-> "Store", sym |-> Node.sym, off |-> Node.off, global |-> Node.global]
<1>1. /\ Doing("code") /\ Node.op = "Asn" /\ Node.op \in ExprOps /\ ExprSize(Node) = 1
      /\ TakeApart(0, Data(Node.rhs) \o <<Code(n)>>) /\ Steady
  BY SteadyAll DEF CodeAssignment, Coding, ExprOps, ExprSize, Node
<1>2. ExprBlock(Node.rhs, 1, T) /\ PCodeOK(T)
  BY <1>1, ExprHead, TreeHolds DEF ExprOK
<1>3. n.op = "Store"
  OBVIOUS
<1> HIDE DEF n
<1>4. ASSUME NEW s \in State, NEW C
      PROVE  Flat(Data(Node.rhs) \o <<Code(n)>>, At(s, 0), At(s, 1), T, C)
  <2>1. Flat(Data(Node.rhs), At(s, 0), At(s, 1), T, C)
    BY <1>2, FlatData
  <2>2. At(s, 1) \in State /\ Moves(At(s, 1), At(s, 1), 0)
    BY AtMoves
  <2>3. CodeStep(n, At(s, 1), At(s, 1), T, C)
    BY <1>3, <2>2 DEF CodeStep, ExprOps, Made
  <2>4. Flat(<<Code(n)>>, At(s, 1), At(s, 1), T, C)
    BY <1>2, <1>3, <2>2, <2>3, FlatCode DEF StmtOps
  <2> QED BY <2>1, <2>4, FlatJoin
<1> QED BY <1>1, <1>4, ExprAction

LEMMA KeepOperator ==
    ASSUME CodeInv, CodeOperator
    PROVE  CodeInv'
<1>1. /\ Doing("code") /\ Node.op = "Operator" /\ Node.op \in ExprOps
      /\ ExprSize(Node) = 1 - Node.operands
      /\ TakeApart(0, Ins(Node.code, 0, 0, 0, 1 - Node.operands)) /\ Steady
  BY SteadyAll DEF CodeOperator, Coding, ExprOps, ExprSize, Node
<1>2. ExprSize(Node) \in Int
  BY <1>1, ExprHead
<1> DEFINE d == ExprSize(Node)
<1>3. ASSUME NEW s \in State, NEW C
      PROVE  Flat(Ins(Node.code, 0, 0, 0, d), At(s, 0), At(s, d), T, C)
  <2>1. d \in Int /\ d = 0 + d
    BY <1>2
  <2> HIDE DEF d
  <2> QED BY <2>1, FlatIns
<1> QED BY <1>1, <1>3, ExprAction

-----------------------------------------------------------------------------
(* Calls. *)

LEMMA FlatMoves ==
    ASSUME NEW s \in State, NEW u \in State, NEW d, Moves(s, u, d), NEW t, NEW C
    PROVE  /\ \A op, x, y, z : Flat(Ins(op, x, y, z, d), s, u, t, C)
           /\ \A op, l : l \in C => Flat(Jump(op, l, d), s, u, t, C)
<1>1. ASSUME NEW op, NEW x, NEW y, NEW z PROVE Flat(Ins(op, x, y, z, d), s, u, t, C)
  <2> DEFINE i == [do |-> "ins", op |-> op, a |-> x, b |-> y, dSP |-> z, dExp |-> d]
  <2>1. i.do = "ins" /\ i.dExp = d
    OBVIOUS
  <2> HIDE DEF i
  <2>2. Step(i, s, u, t, C) /\ Bare(i, t)
    BY <2>1 DEF Step, Kinds, Bare
  <2> QED BY <2>2, FlatOne DEF Ins, i
<1>2. ASSUME NEW op, NEW l, l \in C PROVE Flat(Jump(op, l, d), s, u, t, C)
  <2> DEFINE i == [do |-> "jump", op |-> op, label |-> l, dExp |-> d]
  <2>1. i.do = "jump" /\ i.dExp = d /\ i.label = l
    OBVIOUS
  <2> HIDE DEF i
  <2>2. Step(i, s, u, t, C) /\ Bare(i, t)
    BY <1>2, <2>1 DEF Step, Kinds, Bare
  <2> QED BY <2>2, FlatOne DEF Jump, i
<1> QED BY <1>1, <1>2

LEMMA MadeAction ==
    ASSUME CodeInv, Doing("code"), Node.op \notin StmtOps, NEW items, TakeApart(0, items), Steady,
           \A s, v \in State : \A C :
             CodeStep(Node, s, v, T, C) /\ Regs(s, C) => Flat(items, s, v, T, C)
    PROVE  CodeInv'
<1>1. PICK C, s, v, u :
        Here(C, s, v, u) /\ CodeStep(Node, s, v, T, C) /\ s \in State /\ v \in State
  BY CodeHead
<1>2. ~Firm(Head1) /\ Places(Head1, T, cases) = {}
  BY NoStmtHead
<1>3. Regs(s, C)
  BY <1>1 DEF Here
<1>4. Flat(items, s, v, T, C)
  BY <1>1, <1>3
<1>5. Regs(s, C)'
  BY <1>3, SameRegs DEF Steady
<1> QED BY <1>1, <1>2, <1>4, <1>5, FlatAdvance DEF Steady

LEMMA KeepStore ==
    ASSUME CodeInv, CodeStore
    PROVE  CodeInv'
<1>1. /\ Doing("code") /\ Node.op = "Store" /\ Node.op \notin StmtOps /\ Steady
      /\ TakeApart(0, Ins(Pick(Node.global, "CPDOWNSP", "CPDOWNBP"), VarOffset(Node), 1, 0, 0))
  BY SteadyAll DEF CodeStore, Coding, StmtOps, Node
<1>2. ASSUME NEW s \in State, NEW v \in State, NEW C, CodeStep(Node, s, v, T, C)
      PROVE  Flat(Ins(Pick(Node.global, "CPDOWNSP", "CPDOWNBP"), VarOffset(Node), 1, 0, 0), s, v, T, C)
  <2>1. Moves(s, v, 0)
    BY <1>1, <1>2 DEF CodeStep
  <2> QED BY <2>1, FlatMoves
<1> QED BY <1>1, <1>2, MadeAction

LEMMA KeepSetReturn ==
    ASSUME CodeInv, CodeSetReturn
    PROVE  CodeInv'
<1> DEFINE items == Ins("CPDOWNSP", fn.ret + depth.sp + depth.exp, fn.ret, 0, 0)
<1>1. /\ Doing("code") /\ Node.op = "SetReturn" /\ Node.op \notin StmtOps /\ Steady
      /\ TakeApart(0, items)
  BY SteadyAll DEF CodeSetReturn, Coding, StmtOps, Node
<1>2. ASSUME NEW s \in State, NEW v \in State, NEW C, CodeStep(Node, s, v, T, C)
      PROVE  Flat(items, s, v, T, C)
  <2>1. Moves(s, v, 0)
    BY <1>1, <1>2 DEF CodeStep
  <2> QED BY <2>1, FlatMoves
<1> HIDE DEF items
<1> QED BY <1>1, <1>2, MadeAction

LEMMA KeepACTION ==
    ASSUME CodeInv, CodeACTION
    PROVE  CodeInv'
<1> DEFINE items == Ins("ACTION", Node.fn, <<Node.args, Node.ret>>, 0, Node.ret - Node.args)
<1>1. /\ Doing("code") /\ Node.op = "Action" /\ Node.op \notin StmtOps /\ Steady
      /\ TakeApart(0, items)
  BY SteadyAll DEF CodeACTION, Coding, StmtOps, Node
<1>2. ASSUME NEW s \in State, NEW v \in State, NEW C, CodeStep(Node, s, v, T, C)
      PROVE  Flat(items, s, v, T, C)
  <2>1. Moves(s, v, Node.ret - Node.args)
    BY <1>1, <1>2 DEF CodeStep
  <2> QED BY <2>1, FlatMoves
<1> HIDE DEF items
<1> QED BY <1>1, <1>2, MadeAction

LEMMA KeepJsr ==
    ASSUME CodeInv, CodeJsr
    PROVE  CodeInv'
<1> DEFINE items == Jump("JSR", Fn(Node.fn), -Node.size)
<1>1. /\ Doing("code") /\ Node.op = "Jsr" /\ Node.op \notin StmtOps /\ TakeApart(0, items)
  BY DEF CodeJsr, Coding, StmtOps, Node
<1>2. Steady
  BY DEF CodeJsr, Report, Steady, NoError
<1>3. ASSUME NEW s \in State, NEW v \in State, NEW C, CodeStep(Node, s, v, T, C)
      PROVE  Flat(items, s, v, T, C)
  <2>1. Moves(s, v, -Node.size) /\ Fn(Node.fn) \in C
    BY <1>1, <1>3 DEF CodeStep
  <2> QED BY <2>1, FlatMoves
<1> HIDE DEF items
<1> QED BY <1>1, <1>2, <1>3, MadeAction

LEMMA FlatPop ==
    ASSUME NEW n, NEW z, NEW t, NEW C, NEW s \in State
    PROVE  Flat(MOVSP(n, z, 0), s, s, t, C)
<1>1. Moves(s, s, 0)
  BY DEF Moves, State
<1>2. CASE n = 0
  <2>1. MOVSP(n, z, 0) = <<>>
    BY <1>2 DEF MOVSP
  <2> QED BY <2>1, FlatNone
<1>3. CASE n # 0
  <2>1. MOVSP(n, z, 0) = Ins("MOVSP", n, 0, z, 0)
    BY <1>3 DEF MOVSP
  <2> QED BY <1>1, <2>1, FlatMoves
<1> QED BY <1>2, <1>3

LEMMA KeepLeave ==
    ASSUME CodeInv, CodeLeave
    PROVE  CodeInv'
<1> DEFINE down == MOVSP(depth.sp + depth.exp - fn.args, 0, 0)
           off == Adjust(0, -fn.ret, 0)
           up == When(prog.opt, off)
           items == down \o up \o JMP(fn.return)
<1>1. /\ Doing("code") /\ Node.op = "Leave" /\ Node.op \notin StmtOps /\ Steady
      /\ TakeApart(0, items) /\ T.prog = prog
  BY SteadyAll DEF CodeLeave, Coding, StmtOps, Node, T, Tree
<1>2. ASSUME NEW s \in State, NEW v \in State, NEW C, CodeStep(Node, s, v, T, C), Regs(s, C)
      PROVE  Flat(items, s, v, T, C)
  <2>1. PICK r \in s.rets : Moves(s, v, IF prog.opt THEN -r ELSE 0)
    BY <1>1, <1>2 DEF CodeStep
  <2>2. r = fn.ret /\ fn.ret \in Int /\ fn.return \in C
    BY <1>2, <2>1 DEF Regs, State
  <2> DEFINE d == IF prog.opt THEN -fn.ret ELSE 0
  <2>3. d \in Int /\ v = At(s, d) /\ s = At(s, 0) /\ At(s, 0) \in State /\ At(s, d) \in State
    BY <2>1, <2>2, MovesAt, AtZero, AtState
  <2>4. Flat(down, At(s, 0), At(s, 0), T, C)
    BY <2>3, FlatPop
  <2>5. Flat(up, At(s, 0), At(s, d), T, C)
    <3>1. Flat(off, At(s, 0), At(s, -fn.ret), T, C)
      <4>1. ASSUME NEW m \in Int PROVE Flat(Adjust(0, m, 0), At(s, 0), At(s, m), T, C)
        <5>1. m = 0 + m
          OBVIOUS
        <5> QED BY <5>1, FlatAdjust
      <4>2. -fn.ret \in Int
        BY <2>2
      <4> QED BY <4>1, <4>2
    <3> HIDE DEF off
    <3> QED BY <2>3, <3>1, FlatWhen
  <2>6. Flat(JMP(fn.return), At(s, d), At(s, d), T, C)
    <3>1. Moves(At(s, d), At(s, d), 0)
      BY <2>3 DEF Moves, State
    <3> QED BY <2>2, <2>3, <3>1, FlatMoves DEF JMP
  <2> HIDE DEF down, up, d
  <2>7. Flat(down \o up, At(s, 0), At(s, d), T, C)
    BY <2>4, <2>5, FlatJoin
  <2> QED BY <2>3, <2>6, <2>7, FlatJoin
<1> HIDE DEF items
<1> QED BY <1>1, <1>2, MadeAction

LEMMA ArgumentsCount ==
    ASSUME NEW a, IsSeq(a)
    PROVE  /\ ArgumentSize(a) \in Nat
           /\ Len(a) = 0 => ArgumentSize(a) = 0
           /\ Len(a) > 0 =>
                LET n == Len(a)
                    b == SubSeq(a, 1, n - 1) IN
                /\ IsSeq(b) /\ Len(b) = n - 1 /\ \A i \in 1 .. n - 1 : b[i] = a[i]
                /\ ArgumentSize(a) = ArgumentSize(b) + IF a[n].action THEN 0 ELSE 1
<1> DEFINE n == Len(a)
           b == SubSeq(a, 1, n - 1)
           here == {i \in 1 .. n : ~a[i].action}
<1>1. n \in Nat
  BY SeqLength
<1>2. IsFiniteSet(here) /\ Cardinality(here) \in Nat
  <2>1. IsFiniteSet(1 .. n)
    BY <1>1, FS_Interval
  <2>2. here \in SUBSET (1 .. n)
    OBVIOUS
  <2> HIDE DEF here
  <2> QED BY <2>1, <2>2, FS_Subset, FS_CardinalityType
<1>3. ArgumentSize(a) = Cardinality(here)
  BY DEF ArgumentSize
<1>4. n = 0 => ArgumentSize(a) = 0
  <2>1. n = 0 => here = {}
    OBVIOUS
  <2> HIDE DEF here
  <2> QED BY <1>3, <2>1, FS_EmptySet
<1>5. ASSUME n > 0
      PROVE  /\ IsSeq(b) /\ Len(b) = n - 1 /\ \A i \in 1 .. n - 1 : b[i] = a[i]
             /\ ArgumentSize(a) = ArgumentSize(b) + IF a[n].action THEN 0 ELSE 1
  <2>1. PICK S : a \in Seq(S)
    BY DEF IsSeq
  <2>2. \A i \in 1 .. n - 1 : a[i] \in S
    BY <1>1, <2>1
  <2>3. /\ b \in Seq(S) /\ Len(b) = n - 1
        /\ \A i \in 1 .. n - 1 : b[i] = a[i]
    <3>1. 1 \in Int /\ n - 1 \in Int /\ (n - 1) - 1 + 1 = n - 1 /\ (1 <= n - 1 \/ n - 1 = 0)
      <4> HIDE DEF n
      <4> QED BY <1>1, <1>5
    <3>2. /\ SubSeq(a, 1, n - 1) \in Seq(S)
          /\ Len(SubSeq(a, 1, n - 1)) = IF 1 <= n - 1 THEN (n - 1) - 1 + 1 ELSE 0
          /\ \A i \in 1 .. (n - 1) - 1 + 1 : SubSeq(a, 1, n - 1)[i] = a[1 + i - 1]
      BY <2>2, <3>1, SubSeqProperties
    <3> QED BY <1>1, <1>5, <3>1, <3>2
  <2> HIDE DEF b
  <2> DEFINE less == {i \in 1 .. n - 1 : ~b[i].action}
  <2>4. less = {i \in 1 .. n - 1 : ~a[i].action}
    BY <2>3
  <2>5. ArgumentSize(b) = Cardinality(less)
    BY <2>3 DEF ArgumentSize
  <2>6. IsFiniteSet(less)
    <3>1. less \in SUBSET here
      BY <1>1, <1>5, <2>4
    <3> HIDE DEF here, less
    <3> QED BY <1>2, <3>1, FS_Subset
  <2>7. n \notin less
    BY <1>1
  <2>8. here = IF a[n].action THEN less ELSE less \cup {n}
    BY <1>1, <1>5, <2>4
  <2> HIDE DEF here, less
  <2>9. ArgumentSize(a) = ArgumentSize(b) + IF a[n].action THEN 0 ELSE 1
    <3>1. Cardinality(less) \in Nat
      BY <2>6, FS_CardinalityType
    <3>2. CASE a[n].action
      BY <1>3, <2>5, <2>8, <3>1, <3>2
    <3>3. CASE ~a[n].action
      <4>1. Cardinality(less \cup {n}) = Cardinality(less) + 1
        BY <2>6, <2>7, FS_AddElement
      <4> QED BY <1>3, <2>5, <2>8, <3>3, <4>1
    <3> QED BY <3>2, <3>3
  <2> QED BY <2>3, <2>9 DEF IsSeq
<1> QED BY <1>1, <1>2, <1>3, <1>4, <1>5

(* All the arguments there are. *)
LEMMA FlatArgs ==
    ASSUME NEW t, PCodeOK(t), NEW a, IsSeq(a), ArgsOK(a, t), NEW C, NEW s \in State,
           NEW e \in Int, NEW f \in Int, f = e + ArgumentSize(a)
    PROVE  Flat(Args(a), At(s, e), At(s, f), t, C)
<1> DEFINE n == [op |-> "Args", args |-> a]
<1>1. n.op = "Args" /\ n.args = a
  OBVIOUS
<1> HIDE DEF n
<1>2. ArgumentSize(a) \in Int
  BY ArgumentsCount
<1>3. At(s, e) \in State /\ At(s, f) \in State /\ Moves(At(s, e), At(s, f), ArgumentSize(a))
  BY <1>2, AtMoves
<1>4. CodeStep(n, At(s, e), At(s, f), t, C)
  BY <1>1, <1>3 DEF CodeStep, ExprOps, Made
<1>5. n.op \notin StmtOps
  BY <1>1 DEF StmtOps
<1> QED BY <1>3, <1>4, <1>5, FlatCode DEF Args, n

LEMMA ArgumentFlat ==
    ASSUME NEW t, PCodeOK(t), NEW a, NEW C, NEW s \in State, NEW e \in Int, NEW f \in Int,
           NEW d \in Int, d = IF a.action THEN 0 ELSE 1, ExprBlock(a.data, d, t), f = e + d
    PROVE  Flat(Argument(a), At(s, e), At(s, f), t, C)
<1>1. CASE a.action
  <2> DEFINE n == [op |-> "Situation", data |-> a.data]
  <2>1. n.op = "Situation" /\ n.data = a.data
    OBVIOUS
  <2> HIDE DEF n
  <2>2. At(s, e) \in State /\ Moves(At(s, e), At(s, e), 0) /\ e = f
    BY <1>1, AtState DEF Moves, State
  <2>3. CodeStep(n, At(s, e), At(s, f), t, C)
    BY <1>1, <2>1, <2>2 DEF CodeStep, ExprOps, Made
  <2>4. n.op \notin StmtOps
    BY <2>1 DEF StmtOps
  <2>5. Argument(a) = <<Code(n)>>
    BY <1>1 DEF Argument, n
  <2> QED BY <2>2, <2>3, <2>4, <2>5, FlatCode
<1>2. CASE ~a.action
  <2>1. Argument(a) = Data(a.data)
    BY <1>2 DEF Argument
  <2> QED BY <2>1, FlatData
<1> QED BY <1>1, <1>2

LEMMA KeepArguments ==
    ASSUME CodeInv, CodeArguments
    PROVE  CodeInv'
<1> DEFINE a == Node.args
           n == Len(a)
           b == SubSeq(a, 1, n - 1)
           items == IF n = 0 THEN <<>> ELSE Argument(a[n]) \o Args(b)
<1>1. /\ Doing("code") /\ Node.op = "Args" /\ Node.op \notin StmtOps /\ Steady
      /\ TakeApart(0, items)
  BY SteadyAll DEF CodeArguments, Coding, StmtOps, Node
<1>2. PCodeOK(T)
  BY TreeHolds
<1>3. ASSUME NEW s \in State, NEW v \in State, NEW C, CodeStep(Node, s, v, T, C)
      PROVE  Flat(items, s, v, T, C)
  <2>1. ArgsOK(a, T) /\ IsSeq(a) /\ Moves(s, v, ArgumentSize(a))
    BY <1>1, <1>3 DEF CodeStep
  <2> HIDE DEF a
  <2>2. n \in Nat /\ ArgumentSize(a) \in Nat /\ (n = 0 => ArgumentSize(a) = 0)
    BY <2>1, SeqLength, ArgumentsCount
  <2>3. v = At(s, ArgumentSize(a)) /\ s = At(s, 0)
    BY <2>1, <2>2, MovesAt, AtZero
  <2>4. CASE n = 0
    <3>1. items = <<>> /\ v = s
      BY <2>2, <2>3, <2>4
    <3> QED BY <3>1, FlatNone
  <2>5. CASE n # 0
    <3> DEFINE f == IF a[n].action THEN 0 ELSE 1
    <3>1. /\ IsSeq(b) /\ Len(b) = n - 1 /\ \A i \in 1 .. n - 1 : b[i] = a[i]
          /\ ArgumentSize(a) = ArgumentSize(b) + f
      BY <2>1, <2>2, <2>5, ArgumentsCount
    <3>2. ArgumentSize(b) \in Nat
      BY <3>1, ArgumentsCount
    <3>3. ExprBlock(a[n].data, f, T)
      BY <2>1, <2>2, <2>5 DEF ArgsOK
    <3>4. ArgsOK(b, T)
      <4> HIDE DEF n, b
      <4>1. \A i \in 1 .. Len(b) : i \in 1 .. Len(a) /\ b[i] = a[i]
        BY <2>2, <3>1 DEF n
      <4> QED BY <2>1, <4>1 DEF ArgsOK
    <3>5. f \in Int /\ ArgumentSize(a) = f + ArgumentSize(b) /\ f = 0 + f
      BY <3>1, <3>2
    <3> DEFINE x == a[n]
               o == 0
    <3>9. o \in Int /\ f = o + f /\ f = IF x.action THEN 0 ELSE 1
      BY <3>5
    <3> HIDE DEF f, x, o
    <3>6. Flat(Argument(a[n]), At(s, 0), At(s, f), T, C)
      <4>1. Flat(Argument(x), At(s, o), At(s, f), T, C)
        BY <1>2, <3>3, <3>5, <3>9, ArgumentFlat DEF x
      <4> QED BY <4>1 DEF x, o
    <3>7. Flat(Args(b), At(s, f), At(s, ArgumentSize(a)), T, C)
      BY <1>2, <2>2, <3>1, <3>4, <3>5, FlatArgs
    <3>8. Flat(Argument(a[n]) \o Args(b), At(s, 0), At(s, ArgumentSize(a)), T, C)
      BY <3>6, <3>7, FlatJoin
    <3> QED BY <2>3, <2>5, <3>8
  <2> QED BY <2>4, <2>5
<1> HIDE DEF items
<1> QED BY <1>1, <1>3, MadeAction

LEMMA KeepCall ==
    ASSUME CodeInv, CodeCall
    PROVE  CodeInv'
<1> DEFINE args == Arguments(Node, prog)
           size == ArgumentSize(args)
           engine == [op |-> "Action", fn |-> Node.fn, args |-> size, ret |-> Node.ret]
           jsr == [op |-> "Jsr", fn |-> Node.fn, size |-> size]
           room == When(Node.ret = 1, Ins("RSADD", 0, 0, 0, 1))
           items == IF Node.engine THEN Args(args) \o <<Code(engine)>>
                    ELSE room \o Args(args) \o <<Code(jsr)>>
<1>1. /\ Doing("code") /\ Node.op = "Call" /\ Node.op \in ExprOps /\ ExprSize(Node) = Node.ret
      /\ TakeApart(0, items) /\ Steady /\ T.prog = prog
  <2>1. TakeApart(0, items)
    BY DEF CodeCall
  <2> QED BY <2>1, SteadyAll DEF CodeCall, Coding, ExprOps, ExprSize, Node, T, Tree
<1>2. /\ ArgsOK(args, T) /\ Node.ret \in {0, 1} /\ (~Node.engine => Node.fn \in Names(T))
      /\ Len(Node.args) \in Nat /\ Len(prog.defaults[Node.fn]) \in Nat
  BY <1>1, ExprHead DEF ExprOK
<1>3. IsSeq(args)
  <2> DEFINE proto == prog.defaults[Node.fn]
             f == [i \in 1 .. Len(proto) |-> IF i <= Len(Node.args) THEN Node.args[i] ELSE proto[i]]
  <2>1. args = f
    BY DEF Arguments
  <2>2. Len(proto) \in Nat
    BY <1>2
  <2>3. f = [i \in 1 .. Len(proto) |-> f[i]]
    OBVIOUS
  <2> HIDE DEF f, proto
  <2> QED BY <2>1, <2>2, <2>3, SeqMap
<1> HIDE DEF args
<1>4. size \in Nat /\ PCodeOK(T)
  BY <1>3, ArgumentsCount, TreeHolds
<1>5. engine.op = "Action" /\ engine.ret = Node.ret /\ engine.args = size
  OBVIOUS
<1>6. jsr.op = "Jsr" /\ jsr.fn = Node.fn /\ jsr.size = size
  OBVIOUS
<1> HIDE DEF size, engine, jsr
<1>7. size = ArgumentSize(args)
  BY DEF size
<1> DEFINE r == Node.ret
           m == r + size
<1>8. r \in Int /\ m \in Int /\ size \in Int /\ m = r + size /\ r = size + (r - size)
      /\ r = m + (-size) /\ size = 0 + size /\ (r = 1 => r = 0 + 1) /\ (r # 1 => r = 0)
      /\ r - size \in Int /\ -size \in Int
  BY <1>2, <1>4
<1> HIDE DEF r, m
<1>9. ASSUME NEW s \in State, NEW C, \A name \in Names(T) : Fn(name) \in C
      PROVE  Flat(items, At(s, 0), At(s, r), T, C)
  <2>1. At(s, 0) \in State /\ At(s, r) \in State /\ At(s, m) \in State /\ At(s, size) \in State
    BY <1>8, AtState
  <2>2. CASE Node.engine
    <3>1. Flat(Args(args), At(s, 0), At(s, size), T, C)
      BY <1>2, <1>3, <1>4, <1>7, <1>8, FlatArgs
    <3>2. Moves(At(s, size), At(s, r), r - size)
      BY <1>8, AtMoves
    <3>3. CodeStep(engine, At(s, size), At(s, r), T, C)
      BY <1>5, <3>2 DEF CodeStep, ExprOps, Made, r
    <3>4. Flat(<<Code(engine)>>, At(s, size), At(s, r), T, C)
      BY <1>4, <1>5, <2>1, <3>3, FlatCode DEF StmtOps
    <3> QED BY <2>2, <3>1, <3>4, FlatJoin
  <2>3. CASE ~Node.engine
    <3>1. Flat(room, At(s, 0), At(s, r), T, C)
      <4>1. Flat(Ins("RSADD", 0, 0, 0, 1), At(s, 0), At(s, 1), T, C)
        BY FlatIns
      <4> QED BY <1>8, <2>1, <4>1, FlatWhen DEF r
    <3>2. Flat(Args(args), At(s, r), At(s, m), T, C)
      BY <1>2, <1>3, <1>4, <1>7, <1>8, FlatArgs
    <3>3. Moves(At(s, m), At(s, r), -size)
      BY <1>8, AtMoves
    <3>4. Fn(Node.fn) \in C
      BY <1>2, <1>9, <2>3
    <3>5. CodeStep(jsr, At(s, m), At(s, r), T, C)
      BY <1>6, <3>3, <3>4 DEF CodeStep, ExprOps, Made
    <3>6. Flat(<<Code(jsr)>>, At(s, m), At(s, r), T, C)
      BY <1>4, <1>6, <2>1, <3>5, FlatCode DEF StmtOps
    <3> HIDE DEF room
    <3>7. Flat(room \o Args(args), At(s, 0), At(s, m), T, C)
      BY <3>1, <3>2, FlatJoin
    <3> QED BY <2>3, <3>6, <3>7, FlatJoin
  <2> QED BY <2>2, <2>3
<1> HIDE DEF items
<1> QED BY <1>1, <1>9, ExprAction DEF r

-----------------------------------------------------------------------------
(* Expressions with labels. *)

LEMMA NewLabels ==
    ASSUME nextLabel \in Nat
    PROVE  /\ Fresh(1, nextLabel) = {L(1)}
           /\ Fresh(2, nextLabel) = {L(1), L(2)}
           /\ Fresh(3, nextLabel) = {L(1), L(2), L(3)}
           /\ L(1) # L(2) /\ L(1) # L(3) /\ L(2) # L(3)
<1>1. 1 .. 1 = {1} /\ 1 .. 2 = {1, 2} /\ 1 .. 3 = {1, 2, 3}
  OBVIOUS
<1>2. \A i \in 1 .. 3 : L(i) = Off(nextLabel + i - 1)
  BY DEF L
<1>3. /\ Fresh(1, nextLabel) = {L(1)} /\ Fresh(2, nextLabel) = {L(1), L(2)}
      /\ Fresh(3, nextLabel) = {L(1), L(2), L(3)}
  BY <1>1, <1>2 DEF Fresh
<1>4. \A i, j \in 1 .. 3 : L(i) = L(j) => i = j
  <2> SUFFICES ASSUME NEW i \in 1 .. 3, NEW j \in 1 .. 3, L(i) = L(j) PROVE i = j
    OBVIOUS
  <2>1. nextLabel + i - 1 = nextLabel + j - 1
    BY <1>2, OffInjective
  <2> QED BY <2>1
<1>5. L(1) # L(2) /\ L(1) # L(3) /\ L(2) # L(3)
  <2>1. 1 \in 1 .. 3 /\ 2 \in 1 .. 3 /\ 3 \in 1 .. 3
    OBVIOUS
  <2> QED BY <1>4, <2>1
<1> QED BY <1>3, <1>5

LEMMA NextLabel ==
    ASSUME CodeInv
    PROVE  nextLabel \in Nat
BY DEF CodeInv, LabelsInv, LabelsOK

LEMMA ExprLabels ==
    ASSUME CodeInv, Doing("code"), Node.op \in ExprOps, NEW k \in Nat, NEW items, TakeApart(k, items),
           Steady,
           \A s \in State : \A C :
             Fresh(k, nextLabel) \subseteq C =>
               Part(items, At(s, 0), At(s, ExprSize(Node)), Fresh(k, nextLabel), {}, {}, {}, T, C, cases)
    PROVE  CodeInv'
<1>0. PICK D : D = Fresh(k, nextLabel)
  OBVIOUS
<1>1. PICK C, s, v, u :
        Here(C, s, v, u) /\ CodeStep(Node, s, v, T, C) /\ s \in State /\ v \in State
  BY CodeHead
<1>2. ~Firm(Head1) /\ Places(Head1, T, cases) = {}
  BY NoStmtHead DEF ExprOps, StmtOps
<1>3. v = At(s, ExprSize(Node)) /\ s = At(s, 0)
  BY <1>1, ExprHead, MovesAt, AtZero DEF CodeStep
<1>4. D \subseteq C \cup D
  OBVIOUS
<1>5. Part(items, s, v, D, {}, {}, {}, T, C \cup D, cases)
  BY <1>0, <1>1, <1>3, <1>4
<1>6. Regs(s, C \cup D)'
  <2>1. Regs(s, C \cup D)
    BY <1>1 DEF Here, Regs
  <2> QED BY <2>1, SameRegs DEF Steady
<1>7. /\ Kept(linker, linker', k, nextLabel) /\ nextLabel' = nextLabel + k /\ Then(items) /\ prog' = prog
  BY TakenApart
<1>8. Owns(D, {}, {}, {}, k)
  BY <1>0, <1>2 DEF Owns
<1>9. D \subseteq Fresh(k, nextLabel) /\ (ContinuesPlaced => D \subseteq D)
  BY <1>0
<1> QED BY <1>1, <1>2, <1>5, <1>6, <1>7, <1>8, <1>9, AdvanceInv DEF Steady

(* A value more, or less. *)
LEMMA FlatUpDown ==
    ASSUME NEW s \in State, NEW t, NEW C
    PROVE  /\ \A op, x, y : Flat(Ins(op, x, y, 0, 1), At(s, 0), At(s, 1), t, C)
           /\ \A op, x, y : Flat(Ins(op, x, y, 0, 1), At(s, 1), At(s, 2), t, C)
           /\ \A op, x, y : Flat(Ins(op, x, y, 0, -1), At(s, 2), At(s, 1), t, C)
           /\ \A op, l : l \in C => Flat(Jump(op, l, -1), At(s, 2), At(s, 1), t, C)
           /\ \A op, l : l \in C => Flat(Jump(op, l, -1), At(s, 1), At(s, 0), t, C)
<1>1. At(s, 0) \in State /\ At(s, 1) \in State /\ At(s, 2) \in State
  BY AtState
<1>2. /\ Moves(At(s, 0), At(s, 1), 1) /\ Moves(At(s, 1), At(s, 2), 1)
      /\ Moves(At(s, 2), At(s, 1), -1) /\ Moves(At(s, 1), At(s, 0), -1)
  BY AtState DEF Moves, State
<1> QED BY <1>1, <1>2, FlatMoves

LEMMA KeepLogicalAND ==
    ASSUME CodeInv, CodeLogicalAND
    PROVE  CodeInv'
<1> DEFINE a == Data(Node.lhs)
           b == Ins("CPTOPSP", 1, 1, 0, 1)
           c == JZ(L(1))
           d == Data(Node.rhs)
           e == Ins("LOGAND", 0, 0, 0, -1)
           items == a \o b \o c \o d \o e \o Resolve(L(1))
<1>1. /\ Doing("code") /\ Node.op = "And" /\ Node.op \in ExprOps /\ ExprSize(Node) = 1
      /\ TakeApart(1, items) /\ Steady
  BY SteadyAll DEF CodeLogicalAND, Coding, ExprOps, ExprSize, Node
<1>2. ExprBlock(Node.lhs, 1, T) /\ ExprBlock(Node.rhs, 1, T) /\ PCodeOK(T)
  BY <1>1, ExprHead, TreeHolds DEF ExprOK
<1>3. Fresh(1, nextLabel) = {L(1)}
  BY NextLabel, NewLabels
<1>4. ASSUME NEW s \in State, NEW C, {L(1)} \subseteq C
      PROVE  Part(items, At(s, 0), At(s, 1), {L(1)}, {}, {}, {}, T, C, cases)
  <2>1. Flat(a, At(s, 0), At(s, 1), T, C) /\ Flat(d, At(s, 1), At(s, 2), T, C)
    BY <1>2, FlatData
  <2>2. Flat(b, At(s, 1), At(s, 2), T, C) /\ Flat(e, At(s, 2), At(s, 1), T, C)
    BY FlatUpDown
  <2>3. Flat(c, At(s, 2), At(s, 1), T, C)
    BY <1>4, FlatUpDown DEF JZ
  <2> HIDE DEF a, b, c, d, e
  <2>4. Flat(a \o b, At(s, 0), At(s, 2), T, C)
    BY <2>1, <2>2, FlatJoin
  <2>5. Flat(a \o b \o c, At(s, 0), At(s, 1), T, C)
    BY <2>3, <2>4, FlatJoin
  <2>6. Flat(a \o b \o c \o d, At(s, 0), At(s, 2), T, C)
    BY <2>1, <2>5, FlatJoin
  <2>7. Flat(a \o b \o c \o d \o e, At(s, 0), At(s, 1), T, C)
    BY <2>2, <2>6, FlatJoin
  <2>8. Part(a \o b \o c \o d \o e, At(s, 0), At(s, 1), {}, {}, {}, {}, T, C, cases)
    BY <2>7, FlatPart
  <2>9. At(s, 1) \in State /\ {} \cup {L(1)} = {L(1)}
    BY AtState
  <2> QED BY <2>8, <2>9, AddLabel
<1> HIDE DEF items
<1> QED BY <1>1, <1>3, <1>4, ExprLabels

LEMMA KeepLogicalOR ==
    ASSUME CodeInv, CodeLogicalOR
    PROVE  CodeInv'
<1> DEFINE a == Data(Node.lhs)
           b == Ins("CPTOPSP", 1, 1, 0, 1)
           c == JNZ(L(1))
           d == Data(Node.rhs)
           e == Ins("LOGOR", 0, 0, 0, -1)
           first == a \o b \o c \o d \o e \o Resolve(L(1))
           f == JZ(L(2))
           g == IF prog.v130 THEN JMP(L(1)) \o Adjust(0, -1, 0) ELSE JZ(L(1))
           other == a \o b \o f \o b \o g \o Resolve(L(2)) \o d \o Resolve(L(1)) \o e
<1>1. /\ Doing("code") /\ Node.op = "Or" /\ Node.op \in ExprOps /\ ExprSize(Node) = 1
      /\ Steady /\ (TakeApart(1, first) \/ TakeApart(2, other))
  BY SteadyAll DEF CodeLogicalOR, Coding, ExprOps, ExprSize, Node
<1>2. ExprBlock(Node.lhs, 1, T) /\ ExprBlock(Node.rhs, 1, T) /\ PCodeOK(T)
  BY <1>1, ExprHead, TreeHolds DEF ExprOK
<1>3. /\ Fresh(1, nextLabel) = {L(1)} /\ Fresh(2, nextLabel) = {L(1), L(2)} /\ L(1) # L(2)
  BY NextLabel, NewLabels
<1>4. ASSUME NEW s \in State, NEW C, L(1) \in C
      PROVE  /\ Flat(a, At(s, 0), At(s, 1), T, C) /\ Flat(d, At(s, 1), At(s, 2), T, C)
             /\ Flat(b, At(s, 1), At(s, 2), T, C) /\ Flat(e, At(s, 2), At(s, 1), T, C)
             /\ Flat(c, At(s, 2), At(s, 1), T, C)
             /\ At(s, 1) \in State
             /\ Flat(a \o b, At(s, 0), At(s, 2), T, C)
  <2>1. Flat(a, At(s, 0), At(s, 1), T, C) /\ Flat(d, At(s, 1), At(s, 2), T, C)
    BY <1>2, FlatData
  <2>2. Flat(b, At(s, 1), At(s, 2), T, C) /\ Flat(e, At(s, 2), At(s, 1), T, C)
    BY FlatUpDown
  <2>3. Flat(c, At(s, 2), At(s, 1), T, C)
    BY <1>4, FlatUpDown DEF JNZ
  <2> HIDE DEF a, b
  <2>4. Flat(a \o b, At(s, 0), At(s, 2), T, C)
    BY <2>1, <2>2, FlatJoin
  <2> QED BY <2>1, <2>2, <2>3, <2>4, AtState
<1>5. ASSUME NEW s \in State, NEW C, {L(1)} \subseteq C
      PROVE  Part(first, At(s, 0), At(s, 1), {L(1)}, {}, {}, {}, T, C, cases)
  <2>1. L(1) \in C
    BY <1>5
  <2> HIDE DEF a, b, c, d, e
  <2>5. Flat(a \o b \o c, At(s, 0), At(s, 1), T, C)
    BY <1>4, <2>1, FlatJoin
  <2>6. Flat(a \o b \o c \o d, At(s, 0), At(s, 2), T, C)
    BY <1>4, <2>1, <2>5, FlatJoin
  <2>7. Flat(a \o b \o c \o d \o e, At(s, 0), At(s, 1), T, C)
    BY <1>4, <2>1, <2>6, FlatJoin
  <2>8. Part(a \o b \o c \o d \o e, At(s, 0), At(s, 1), {}, {}, {}, {}, T, C, cases)
    BY <2>7, FlatPart
  <2>9. At(s, 1) \in State /\ {} \cup {L(1)} = {L(1)}
    BY AtState
  <2> QED BY <2>8, <2>9, AddLabel
<1>6. ASSUME NEW s \in State, NEW C, {L(1), L(2)} \subseteq C
      PROVE  Part(other, At(s, 0), At(s, 1), {L(1), L(2)}, {}, {}, {}, T, C, cases)
  <2>1. L(1) \in C /\ L(2) \in C
    BY <1>6
  <2>2. Flat(f, At(s, 2), At(s, 1), T, C)
    BY <2>1, FlatUpDown DEF JZ
  <2>3. Flat(g, At(s, 2), At(s, 1), T, C)
    <3>1. Flat(JZ(L(1)), At(s, 2), At(s, 1), T, C)
      BY <2>1, FlatUpDown DEF JZ
    <3>2. At(s, 2) \in State /\ Moves(At(s, 2), At(s, 2), 0)
      BY AtState DEF Moves, State
    <3>3. Flat(JMP(L(1)), At(s, 2), At(s, 2), T, C)
      BY <2>1, <3>2, FlatMoves DEF JMP
    <3>4. Flat(Adjust(0, -1, 0), At(s, 2), At(s, 1), T, C)
      <4>1. 1 = 2 + (-1)
        OBVIOUS
      <4> QED BY <4>1, FlatAdjust
    <3>5. Flat(JMP(L(1)) \o Adjust(0, -1, 0), At(s, 2), At(s, 1), T, C)
      BY <3>3, <3>4, FlatJoin
    <3> QED BY <3>1, <3>5
  <2> HIDE DEF a, b, c, d, e, f, g
  <2>4. Flat(a \o b \o f, At(s, 0), At(s, 1), T, C)
    BY <1>4, <2>1, <2>2, FlatJoin
  <2>5. Flat(a \o b \o f \o b, At(s, 0), At(s, 2), T, C)
    BY <1>4, <2>1, <2>4, FlatJoin
  <2>6. Flat(a \o b \o f \o b \o g, At(s, 0), At(s, 1), T, C)
    BY <2>3, <2>5, FlatJoin
  <2>7. Part(a \o b \o f \o b \o g, At(s, 0), At(s, 1), {}, {}, {}, {}, T, C, cases)
    BY <2>6, FlatPart
  <2>8. At(s, 1) \in State /\ At(s, 2) \in State /\ {} \cup {L(2)} = {L(2)}
    BY AtState
  <2>9. Part(a \o b \o f \o b \o g \o Resolve(L(2)), At(s, 0), At(s, 1), {L(2)}, {}, {}, {}, T, C, cases)
    BY <2>7, <2>8, AddLabel
  <2>10. Part(a \o b \o f \o b \o g \o Resolve(L(2)) \o d, At(s, 0), At(s, 2), {L(2)}, {}, {}, {}, T, C, cases)
    BY <1>4, <2>1, <2>9, AddFlat
  <2>11. L(1) \notin {L(2)} /\ {L(2)} \cup {L(1)} = {L(1), L(2)}
    BY <1>3
  <2>12. Part(a \o b \o f \o b \o g \o Resolve(L(2)) \o d \o Resolve(L(1)), At(s, 0), At(s, 2),
              {L(2)} \cup {L(1)}, {}, {}, {}, T, C, cases)
    BY <2>8, <2>10, <2>11, AddLabel
  <2> QED BY <1>4, <2>1, <2>11, <2>12, AddFlat
<1> HIDE DEF first, other
<1>7. CASE TakeApart(1, first)
  BY <1>1, <1>3, <1>5, <1>7, ExprLabels
<1>8. CASE TakeApart(2, other)
  BY <1>1, <1>3, <1>6, <1>8, ExprLabels
<1> QED BY <1>1, <1>7, <1>8

LEMMA KeepConditional ==
    ASSUME CodeInv, CodeConditional
    PROVE  CodeInv'
<1> DEFINE a == Data(Node.cond)
           b == JZ(L(2))
           c == Data(Node.then)
           d == Adjust(0, -1, 0)
           e == JMP(L(1))
           f == Data(Node.els)
           items == a \o b \o c \o d \o e \o Resolve(L(2)) \o f \o Resolve(L(1))
<1>1. /\ Doing("code") /\ Node.op = "Cond" /\ Node.op \in ExprOps /\ ExprSize(Node) = 1
      /\ Steady /\ (TakeApart(0, c) \/ TakeApart(0, f) \/ TakeApart(2, items))
  <2>1. TakeApart(0, c) \/ TakeApart(0, f) \/ TakeApart(2, items)
    <3>1. CASE CondValue(Node.cond) = 1
      BY <3>1 DEF CodeConditional
    <3>2. CASE CondValue(Node.cond) # 1 /\ CondValue(Node.cond) = 0
      BY <3>2 DEF CodeConditional
    <3>3. CASE CondValue(Node.cond) # 1 /\ CondValue(Node.cond) # 0
      BY <3>3 DEF CodeConditional
    <3> QED BY <3>1, <3>2, <3>3
  <2> QED BY <2>1, SteadyAll DEF CodeConditional, Coding, ExprOps, ExprSize, Node
<1>2. /\ ExprBlock(Node.cond, 1, T) /\ ExprBlock(Node.then, 1, T) /\ ExprBlock(Node.els, 1, T)
      /\ PCodeOK(T)
  BY <1>1, ExprHead, TreeHolds DEF ExprOK
<1>3. Fresh(2, nextLabel) = {L(1), L(2)} /\ L(1) # L(2)
  BY NextLabel, NewLabels
<1>4. ASSUME NEW s \in State, NEW C
      PROVE  /\ Flat(a, At(s, 0), At(s, 1), T, C) /\ Flat(c, At(s, 0), At(s, 1), T, C)
             /\ Flat(f, At(s, 0), At(s, 1), T, C)
  BY <1>2, FlatData
<1>5. ASSUME NEW s \in State, NEW C, {L(1), L(2)} \subseteq C
      PROVE  Part(items, At(s, 0), At(s, 1), {L(1), L(2)}, {}, {}, {}, T, C, cases)
  <2>1. L(1) \in C /\ L(2) \in C
    BY <1>5
  <2>2. Flat(b, At(s, 1), At(s, 0), T, C)
    BY <2>1, FlatUpDown DEF JZ
  <2>3. At(s, 0) \in State /\ At(s, 1) \in State /\ Moves(At(s, 0), At(s, 0), 0)
    BY AtState DEF Moves, State
  <2>4. Flat(d, At(s, 1), At(s, 0), T, C)
    <3>1. 0 = 1 + (-1)
      OBVIOUS
    <3> QED BY <3>1, FlatAdjust
  <2>5. Flat(e, At(s, 0), At(s, 0), T, C)
    BY <2>1, <2>3, FlatMoves DEF JMP
  <2> HIDE DEF a, b, c, d, e, f
  <2>6. Flat(a \o b, At(s, 0), At(s, 0), T, C)
    BY <1>4, <2>2, FlatJoin
  <2>7. Flat(a \o b \o c, At(s, 0), At(s, 1), T, C)
    BY <1>4, <2>6, FlatJoin
  <2>8. Flat(a \o b \o c \o d, At(s, 0), At(s, 0), T, C)
    BY <2>4, <2>7, FlatJoin
  <2>9. Flat(a \o b \o c \o d \o e, At(s, 0), At(s, 0), T, C)
    BY <2>5, <2>8, FlatJoin
  <2>10. Part(a \o b \o c \o d \o e, At(s, 0), At(s, 0), {}, {}, {}, {}, T, C, cases)
    BY <2>9, FlatPart
  <2>11. {} \cup {L(2)} = {L(2)} /\ L(1) \notin {L(2)} /\ {L(2)} \cup {L(1)} = {L(1), L(2)}
    BY <1>3
  <2>12. Part(a \o b \o c \o d \o e \o Resolve(L(2)), At(s, 0), At(s, 0), {L(2)}, {}, {}, {}, T, C, cases)
    BY <2>3, <2>10, <2>11, AddLabel
  <2>13. Part(a \o b \o c \o d \o e \o Resolve(L(2)) \o f, At(s, 0), At(s, 1), {L(2)}, {}, {}, {}, T, C, cases)
    BY <1>4, <2>12, AddFlat
  <2> QED BY <2>3, <2>11, <2>13, AddLabel
<1> HIDE DEF items, c, f
<1>6. CASE TakeApart(0, c)
  BY <1>1, <1>4, <1>6, ExprAction
<1>7. CASE TakeApart(0, f)
  BY <1>1, <1>4, <1>7, ExprAction
<1>8. CASE TakeApart(2, items)
  BY <1>1, <1>3, <1>5, <1>8, ExprLabels
<1> QED BY <1>1, <1>6, <1>7, <1>8

(* A state on the ground of an other. *)
Low(s) == [exp |-> 0, exits |-> s.exits, rets |-> s.rets]

LEMMA LowState ==
    ASSUME NEW s \in State
    PROVE  /\ Low(s) \in State /\ Low(s).exp = 0 /\ Low(s).exits = s.exits /\ Low(s).rets = s.rets
           /\ At(Low(s), s.exp) = s /\ At(Low(s), 0) = Low(s) /\ s.exp \in Int
           /\ (s.exp = 0 => Low(s) = s)
<1>1. Low(s) \in State /\ Low(s).exp = 0 /\ Low(s).exits = s.exits /\ Low(s).rets = s.rets
  BY DEF Low, State
<1>2. s.exp \in Int
  BY DEF State
<1>3. At(Low(s), s.exp) = s
  <2> DEFINE m == At(Low(s), s.exp)
  <2>1. m \in State /\ m.exp = Low(s).exp + s.exp /\ m.exits = s.exits /\ m.rets = s.rets
    BY <1>1, <1>2, AtState
  <2>2. m.exp = s.exp
    BY <1>1, <1>2, <2>1
  <2> HIDE DEF m
  <2>3. m = s
    BY <2>1, <2>2, SameState
  <2> QED BY <2>3 DEF m
<1>4. s.exp = 0 => Low(s) = s
  BY <1>1, SameState
<1> QED BY <1>1, <1>2, <1>3, <1>4, AtZero

LEMMA KeepSituation ==
    ASSUME CodeInv, CodeSituation
    PROVE  CodeInv'
<1> DEFINE a == Ins("STORE_STATE", depth.bp, fn.ret + depth.sp + depth.exp, 0, 0)
           b == JMP(L(1))
           c == Data(Node.data)
           d == Ins("RETN", 0, 0, 0, 0)
           e == Adjust(-depth.exp, depth.exp, 0)
           items == a \o b \o c \o d \o Resolve(L(1)) \o e
<1>1. /\ Doing("code") /\ Node.op = "Situation" /\ Node.op \notin StmtOps
      /\ TakeApart(1, items) /\ depth'.exp = 0
      /\ UNCHANGED <<fn, brk, cont, default, cases>> /\ (NoError' => NoError)
  BY DEF CodeSituation, Coding, StmtOps, Node, Report, NoError
<1>2. PICK C, s, v, u :
        Here(C, s, v, u) /\ CodeStep(Node, s, v, T, C) /\ s \in State /\ v \in State /\ s.exp = depth.exp
  BY <1>1, CodeHead
<1>3. ExprBlock(Node.data, 0, T) /\ Moves(s, v, 0) /\ PCodeOK(T)
  BY <1>1, <1>2, TreeHolds DEF CodeStep
<1>4. PICK D : D = {L(1)}
  OBVIOUS
<1>5. Fresh(1, nextLabel) = D /\ D = {} \cup {L(1)} /\ L(1) \in C \cup D
  BY <1>4, NextLabel, NewLabels
<1>6. v = s /\ At(Low(s), depth.exp) = s /\ At(Low(s), 0) = Low(s) /\ depth.exp \in Int /\ Low(s) \in State
  BY <1>2, <1>3, MovesAt, AtZero, LowState
<1> DEFINE m == Low(s)
<1>7. Part(items, m, v, D, {}, {}, {}, T, C \cup D, cases)
  <2>1. Moves(m, m, 0)
    BY <1>6 DEF Moves, State
  <2>2. Flat(a, m, m, T, C \cup D) /\ Flat(b, m, m, T, C \cup D) /\ Flat(d, m, m, T, C \cup D)
    BY <1>5, <1>6, <2>1, FlatMoves DEF JMP
  <2>3. Flat(c, m, m, T, C \cup D)
    <3>1. Flat(c, m, At(m, 0), T, C \cup D)
      BY <1>3, <1>6, ExprFlat
    <3> QED BY <1>6, <3>1
  <2>4. Flat(e, m, v, T, C \cup D)
    <3> DEFINE x == depth.exp
               y == -depth.exp
    <3>1. x \in Int /\ x = 0 + x
      BY <1>6
    <3> HIDE DEF x, y, m
    <3>2. m \in State
      BY <1>6 DEF m
    <3>3. Flat(Adjust(y, x, 0), At(m, 0), At(m, x), T, C \cup D)
      BY <3>1, <3>2, FlatAdjust
    <3> QED BY <1>6, <3>3 DEF x, y, m
  <2> HIDE DEF a, b, c, d, e, m
  <2>5. Flat(a \o b, m, m, T, C \cup D)
    BY <2>2, FlatJoin
  <2>6. Flat(a \o b \o c, m, m, T, C \cup D)
    BY <2>3, <2>5, FlatJoin
  <2>7. Flat(a \o b \o c \o d, m, m, T, C \cup D)
    BY <2>2, <2>6, FlatJoin
  <2>8. Part(a \o b \o c \o d, m, m, {}, {}, {}, {}, T, C \cup D, cases)
    BY <2>7, FlatPart
  <2>9. m \in State
    BY <1>6 DEF m
  <2>10. Part(a \o b \o c \o d \o Resolve(L(1)), m, m, {} \cup {L(1)}, {}, {}, {}, T, C \cup D, cases)
    BY <2>8, <2>9, AddLabel
  <2> QED BY <1>5, <2>4, <2>10, AddFlat
<1> HIDE DEF items
<1>8. ~Firm(Head1) /\ Places(Head1, T, cases) = {}
  BY <1>1, NoStmtHead
<1>9. Owns(D, {}, {}, {}, 1)
  BY <1>5, <1>8 DEF Owns
<1>10. Regs(m, C \cup D)'
  <2>1. m.exp = 0 /\ m.exits = s.exits /\ m.rets = s.rets
    BY <1>2, LowState
  <2> HIDE DEF m
  <2> QED BY <1>1, <1>2, <2>1 DEF Here, Regs
<1>11. Kept(linker, linker', 1, nextLabel) /\ nextLabel' = nextLabel + 1 /\ Then(items) /\ prog' = prog
  BY <1>1, TakenApart
<1>12. D \subseteq Fresh(1, nextLabel) /\ (ContinuesPlaced => D \subseteq D) /\ m \in State
  BY <1>5, <1>6
<1> HIDE DEF m
<1> QED BY <1>1, <1>2, <1>7, <1>8, <1>9, <1>10, <1>11, <1>12, AdvanceInv

-----------------------------------------------------------------------------
(* Statements without labels. *)

LEMMA CodeLabels ==
    ASSUME CodeInv, Doing("code")
    PROVE  /\ ~Firm(Head1)
           /\ Places(Head1, T, cases) = LabelsAt(Of(Node, T, "labels"), cases)
           /\ Ids(Head1, T) = Of(Node, T, "ids")
           /\ Unseen(Head1, T) = Of(Node, T, "ids") \ Of(Node, T, "labels")
           /\ Unseen(Head1, T) \cap DOMAIN cases = {}
           /\ ScanLabels(Head1, T) = {}
           /\ Injective(cases) /\ nextLabel \in Nat
<1>1. Head1.do = "code" /\ work # <<>>
  BY DEF Doing
<1>2. LabelsOK(work, linker, cases, nextLabel, T)
  BY DEF CodeInv, LabelsInv
<1>3. 1 \in 1 .. Len(work)
  BY <1>1, <1>2, SeqTail, SeqLength DEF LabelsOK
<1>4. Unseen(Head1, T) \cap DOMAIN cases = {}
  BY <1>2, <1>3 DEF LabelsOK, Head1
<1>5. Injective(cases) /\ nextLabel \in Nat
  BY <1>2 DEF LabelsOK
<1>6. ~Firm(Head1) /\ ScanLabels(Head1, T) = {}
  BY <1>1 DEF Firm, ScanLabels
<1>7. Places(Head1, T, cases) = LabelsAt(Of(Node, T, "labels"), cases)
  BY <1>1 DEF Places, Node
<1>8. Ids(Head1, T) = Of(Node, T, "ids")
  BY <1>1 DEF Ids, Node
<1>9. Unseen(Head1, T) = Of(Node, T, "ids") \ Of(Node, T, "labels")
  BY <1>1 DEF Unseen, Node
<1> QED BY <1>4, <1>5, <1>6, <1>7, <1>8, <1>9

LEMMA NoLabels ==
    ASSUME NEW cs
    PROVE  LabelsAt({}, cs) = {}
BY LabelsAtMember

LEMMA FlatStmt ==
    ASSUME CodeInv, Doing("code"), Of(Node, T, "labels") = {}, NEW items, TakeApart(0, items), Steady,
           \A s, v \in State : \A C :
             CodeStep(Node, s, v, T, C) /\ Regs(s, C) => Flat(items, s, v, T, C)
    PROVE  CodeInv'
<1>1. PICK C, s, v, u :
        Here(C, s, v, u) /\ CodeStep(Node, s, v, T, C) /\ s \in State /\ v \in State
  BY CodeHead
<1>2. ~Firm(Head1) /\ Places(Head1, T, cases) = {}
  BY CodeLabels, NoLabels
<1>3. Regs(s, C)
  BY <1>1 DEF Here
<1>4. Flat(items, s, v, T, C)
  BY <1>1, <1>3
<1>5. Regs(s, C)'
  BY <1>3, SameRegs DEF Steady
<1> QED BY <1>1, <1>2, <1>4, <1>5, FlatAdvance DEF Steady

LEMMA PlainLabels ==
    ASSUME CodeInv, Node.op \notin {"Stmt", "Case", "Default"}
    PROVE  Of(Node, T, "labels") = {}
<1>1. CASE Node \in DOMAIN T.about
  BY <1>1, TreeHolds, StmtNode, OfStmt DEF StatementOK
<1>2. CASE Node \notin DOMAIN T.about
  BY <1>2, OfOther
<1> QED BY <1>1, <1>2

LEMMA KeepExpressionEnd ==
    ASSUME CodeInv, CodeExpressionEnd
    PROVE  CodeInv'
<1> DEFINE a == MOVSP(Node.size, 0, -Node.size)
           items == a \o AssertNoExp
<1>1. /\ Doing("code") /\ Node.op = "End" /\ Of(Node, T, "labels") = {} /\ Steady
      /\ TakeApart(0, items)
  BY SteadyAll, PlainLabels DEF CodeExpressionEnd, Coding, Node
<1>2. ASSUME NEW s \in State, NEW v \in State, NEW C, CodeStep(Node, s, v, T, C)
      PROVE  Flat(items, s, v, T, C)
  <2>1. Node \in DOMAIN T.about /\ s.exp = Node.size /\ Moves(s, v, -Node.size)
    BY <1>1, <1>2 DEF CodeStep, ExprOps, Made
  <2> DEFINE n == Node.size
             d == -Node.size
             o == 0
  <2>2. n \in Int /\ d \in Int /\ d = o + d /\ (n = 0 => d = 0) /\ s.exp + d = 0 /\ o \in Int
    BY <2>1 DEF State
  <2> HIDE DEF n, d, o
  <2>3. v = At(s, d) /\ s = At(s, o)
    BY <2>1, <2>2, MovesAt, AtZero DEF d, o
  <2>4. Flat(MOVSP(n, 0, d), At(s, o), At(s, d), T, C)
    BY <2>2, FlatMOVSP
  <2>5. v.exp = 0
    BY <2>1, <2>2 DEF Moves, d
  <2>6. Flat(AssertNoExp, v, v, T, C)
    BY <2>5, FlatAssert
  <2> QED BY <2>3, <2>4, <2>6, FlatJoin DEF n, d
<1> HIDE DEF items
<1> QED BY <1>1, <1>2, FlatStmt

LEMMA KeepDeclaration ==
    ASSUME CodeInv, CodeDeclaration
    PROVE  CodeInv'
<1> DEFINE a == Data(Node.init)
           x == [do |-> "adopt", exp |-> depth.exp]
           b == Ins("RSADD", 0, 0, 1, 0)
           c == Ins("CPDOWNSP", 2, 1, 0, 0)
           d == MOVSP(1, 0, -1)
           g == a \o c \o d
           e == When(Node.init # <<>>, g)
           items == IF Node.init # <<>> /\ prog.optDecl /\ ~Node.selfRef THEN a \o <<x>> ELSE b \o e
<1>1. /\ Doing("code") /\ Node.op = "Decl" /\ Of(Node, T, "labels") = {} /\ Steady
      /\ TakeApart(0, items)
  BY SteadyAll, PlainLabels DEF CodeDeclaration, Coding, Node, Declaration
<1>2. PCodeOK(T)
  BY TreeHolds
<1>3. ASSUME NEW s \in State, NEW v \in State, NEW C, CodeStep(Node, s, v, T, C), Regs(s, C)
      PROVE  Flat(items, s, v, T, C)
  <2>1. OptBlock(Node.init, 1, T) /\ Moves(s, v, 0) /\ s.exp = depth.exp
    BY <1>1, <1>3 DEF CodeStep, ExprOps, Made, Regs
  <2>2. v = s /\ At(s, 0) = s /\ At(s, 1) \in State /\ s.exp \in Int
    <3>1. v = s /\ At(s, 0) = s
      BY <2>1, MovesAt, AtZero
    <3>2. At(s, 1) \in State
      BY AtState
    <3> QED BY <3>1, <3>2 DEF State
  <2>13. At(s, 1).exp = s.exp + 1 /\ At(s, 1).exits = s.exits /\ At(s, 1).rets = s.rets
    BY AtState
  <2>3. Node.init # <<>> => Flat(a, s, At(s, 1), T, C)
    <3> SUFFICES ASSUME Node.init # <<>> PROVE Flat(a, At(s, 0), At(s, 1), T, C)
      BY <2>2
    <3>1. ExprBlock(Node.init, 1, T)
      BY <2>1 DEF OptBlock
    <3> QED BY <1>2, <3>1, FlatData
  <2>4. Moves(At(s, 1), s, -1) /\ Moves(At(s, 1), At(s, 1), 0) /\ Moves(s, s, 0)
    BY <2>2, <2>13 DEF Moves
  <2>5. Flat(<<x>>, At(s, 1), s, T, C)
    <3>1. x.do = "adopt" /\ x.exp = depth.exp
      OBVIOUS
    <3>2. x.exp - At(s, 1).exp = -1 /\ x.exp \in Int
      BY <2>1, <2>2, <2>13, <3>1
    <3> HIDE DEF x
    <3>3. Step(x, At(s, 1), s, T, C) /\ Bare(x, T)
      BY <2>4, <3>1, <3>2 DEF Step, Kinds, Bare
    <3> QED BY <2>2, <3>3, FlatOne
  <2>6. Flat(b, s, s, T, C) /\ Flat(c, At(s, 1), At(s, 1), T, C)
    BY <2>2, <2>4, FlatMoves
  <2>7. Flat(d, At(s, 1), s, T, C)
    <3>1. MOVSP(1, 0, -1) = Ins("MOVSP", 1, 0, 0, -1)
      BY DEF MOVSP
    <3> QED BY <2>2, <2>4, <3>1, FlatMoves
  <2> HIDE DEF a, b, c, d, x
  <2>8. Node.init # <<>> => Flat(a \o c, s, At(s, 1), T, C)
    BY <2>3, <2>6, FlatJoin
  <2>9. Node.init # <<>> => Flat(g, s, s, T, C)
    BY <2>7, <2>8, FlatJoin
  <2> HIDE DEF g
  <2>10. Flat(e, s, s, T, C)
    BY <2>9, FlatWhen
  <2> HIDE DEF e
  <2>11. Flat(b \o e, s, s, T, C)
    BY <2>6, <2>10, FlatJoin
  <2>12. Node.init # <<>> => Flat(a \o <<x>>, s, s, T, C)
    BY <2>3, <2>5, FlatJoin
  <2> QED BY <2>2, <2>11, <2>12
<1> HIDE DEF items
<1> QED BY <1>1, <1>3, FlatStmt

(* Where a statement of the PCode is coded. *)
LEMMA StmtHead ==
    ASSUME CodeInv, Doing("code"), Node.op \in StmtOps \ {"Decl", "End"}
    PROVE  /\ PCodeOK(T) /\ Node \in DOMAIN T.about
           /\ Statement(Node, T.about[Node], T) /\ T.about[Node] \in Facts
           /\ StatementOK(Node, T)
           /\ Of(Node, T, "labels") = T.about[Node].labels /\ Of(Node, T, "ids") = T.about[Node].ids
           /\ depth.exp = 0
<1>1. PICK C, s, v, u :
        Here(C, s, v, u) /\ CodeStep(Node, s, v, T, C) /\ s \in State /\ v \in State /\ s.exp = depth.exp
  BY CodeHead
<1>2. Node.op \notin ExprOps \cup {"Decl", "End"} \cup Made
  BY DEF ExprOps, Made, StmtOps
<1>3. Node \in DOMAIN T.about /\ s.exp = 0
  BY <1>1, <1>2 DEF CodeStep
<1>4. PCodeOK(T)
  BY TreeHolds
<1>5. StatementOK(Node, T) /\ T.about[Node] \in Facts
  BY <1>3, <1>4, StmtNode
<1>6. Of(Node, T, "labels") = T.about[Node].labels /\ Of(Node, T, "ids") = T.about[Node].ids
  BY <1>3, <1>4, OfStmt
<1> QED BY <1>1, <1>3, <1>4, <1>5, <1>6 DEF StatementOK

LEMMA StmtMoves ==
    ASSUME NEW n, n.op \in StmtOps \ {"Decl", "End"}, NEW s, NEW v, NEW t, NEW C, CodeStep(n, s, v, t, C)
    PROVE  /\ n \in DOMAIN t.about /\ s.exp = 0 /\ Moves(s, v, t.about[n].size)
           /\ t.about[n].exits \subseteq s.exits /\ t.about[n].returns \subseteq s.rets
<1>1. n.op \notin ExprOps \cup {"Decl", "End"} \cup Made
  BY DEF ExprOps, Made, StmtOps
<1> QED BY <1>1 DEF CodeStep

LEMMA KeepBreak ==
    ASSUME CodeInv, CodeBreak \/ CodeContinue
    PROVE  CodeInv'
<1> DEFINE items(x) == LeaveTo(x)
<1>1. /\ Doing("code") /\ Node.op \in {"Break", "Continue"} /\ Of(Node, T, "labels") = {} /\ Steady
      /\ Node.op = "Break" => TakeApart(0, LeaveTo(brk))
      /\ Node.op = "Continue" => TakeApart(0, LeaveTo(cont))
      /\ Node.op \in StmtOps \ {"Decl", "End"}
  BY SteadyAll, PlainLabels DEF CodeBreak, CodeContinue, Coding, Node, StmtOps
<1>2. /\ Statement(Node, T.about[Node], T) /\ StatementOK(Node, T) /\ T.about[Node] \in Facts
  BY <1>1, StmtHead
<1>3. T.about[Node].size = 0
  BY <1>1, <1>2 DEF StatementOK
<1>4. ASSUME NEW x, NEW s \in State, NEW C, x.label \in C
      PROVE  Flat(LeaveTo(x), s, s, T, C)
  <2> DEFINE b == MOVSP(depth.sp - x.depth, 0, 0)
             a == When(NoBugBreakContinue /\ x.depth < depth.sp, b)
  <2>1. Flat(b, s, s, T, C)
    BY FlatPop
  <2> HIDE DEF b
  <2>2. Flat(a, s, s, T, C)
    BY <2>1, FlatWhen
  <2>3. Moves(s, s, 0)
    BY DEF Moves, State
  <2>4. Flat(JMP(x.label), s, s, T, C)
    BY <1>4, <2>3, FlatMoves DEF JMP
  <2>5. LeaveTo(x) = a \o JMP(x.label)
    BY DEF LeaveTo, b
  <2> HIDE DEF a
  <2> QED BY <2>2, <2>4, <2>5, FlatJoin
<1>5. ASSUME NEW s \in State, NEW v \in State, NEW C, CodeStep(Node, s, v, T, C), Regs(s, C)
      PROVE  /\ Node.op = "Break" => Flat(LeaveTo(brk), s, v, T, C)
             /\ Node.op = "Continue" => Flat(LeaveTo(cont), s, v, T, C)
  <2>1. Moves(s, v, 0) /\ T.about[Node].exits \subseteq s.exits
    BY <1>1, <1>3, <1>5, StmtMoves
  <2>2. v = s
    BY <2>1, MovesAt, AtZero
  <2>3. Node.op = "Break" => brk.label \in C
    BY <1>2, <1>5, <2>1 DEF Statement, Regs
  <2>4. Node.op = "Continue" => cont.label \in C
    BY <1>2, <1>5, <2>1 DEF Statement, Regs
  <2> QED BY <1>4, <2>2, <2>3, <2>4
<1>6. CASE Node.op = "Break"
  BY <1>1, <1>5, <1>6, FlatStmt
<1>7. CASE Node.op = "Continue"
  BY <1>1, <1>5, <1>7, FlatStmt
<1> QED BY <1>1, <1>6, <1>7

LEMMA KeepReturn ==
    ASSUME CodeInv, CodeReturn
    PROVE  CodeInv'
<1> DEFINE a == Data(Node.data)
           x == [op |-> "SetReturn"]
           y == [op |-> "Leave"]
           items == IF Node.data = <<>> THEN <<Code(y)>> ELSE a \o <<Code(x), Code(y)>>
           size == Net(Node.data, T)
           d == IF prog.opt THEN 0 ELSE size
<1>1. /\ Doing("code") /\ Node.op = "Return" /\ Of(Node, T, "labels") = {} /\ Steady
      /\ TakeApart(0, items) /\ Node.op \in StmtOps \ {"Decl", "End"} /\ T.prog = prog
  BY SteadyAll, PlainLabels DEF CodeReturn, Coding, Node, StmtOps, T, Tree
<1>2. /\ Statement(Node, T.about[Node], T) /\ StatementOK(Node, T) /\ T.about[Node] \in Facts
      /\ PCodeOK(T)
  BY <1>1, StmtHead
<1>3. /\ T.about[Node].size = d /\ Node.data \in Seq(T.exprs) /\ size \in T.about[Node].returns
  BY <1>1, <1>2 DEF StatementOK, Statement
<1>4. x.op = "SetReturn" /\ y.op = "Leave"
  OBVIOUS
<1>5. size \in Int
  BY <1>2, <1>3 DEF Facts
<1>6. Node.data = <<>> => size = 0
  <2>1. Node.data \in Seq(T.exprs \cup DOMAIN T.about)
    BY <1>3, SeqMonotonic
  <2>2. Heights(Node.data, T)[0] = 0
    BY <1>2, <2>1, HeightsFacts
  <2> QED BY <2>2 DEF Net
<1> HIDE DEF x, y, size
<1>7. ASSUME NEW s \in State, NEW v \in State, NEW C, CodeStep(Node, s, v, T, C)
      PROVE  Flat(items, s, v, T, C)
  <2>1. Moves(s, v, d) /\ size \in s.rets
    BY <1>1, <1>3, <1>7, StmtMoves
  <2>2. v = At(s, d) /\ d \in Int /\ s.exp \in Int /\ At(s, size) \in State /\ At(s, 0) = s
    <3>1. v = At(s, d) /\ d \in Int
      BY <1>5, <2>1, MovesAt
    <3>2. At(s, size) \in State /\ At(s, 0) = s
      BY <1>5, AtState, AtZero
    <3> QED BY <3>1, <3>2 DEF State
  <2>3. Flat(a, s, At(s, size), T, C)
    BY <1>2, <1>3, ExprsFlat DEF size
  <2>4. At(s, size).exp = s.exp + size /\ At(s, size).exits = s.exits /\ At(s, size).rets = s.rets
    BY <1>5, AtState
  <2>5. CodeStep(x, At(s, size), At(s, size), T, C)
    <3>1. Moves(At(s, size), At(s, size), 0)
      BY <1>5, <2>2, <2>4 DEF Moves
    <3> QED BY <1>4, <3>1 DEF CodeStep, ExprOps, Made
  <2>6. Flat(<<Code(x)>>, At(s, size), At(s, size), T, C)
    BY <1>2, <1>4, <2>2, <2>5, FlatCode DEF StmtOps
  <2>7. v.exp = s.exp + d /\ v.exits = s.exits /\ v.rets = s.rets
    BY <2>1 DEF Moves
  <2>8. CodeStep(y, At(s, size), v, T, C)
    <3>1. v.exp = At(s, size).exp + IF prog.opt THEN -size ELSE 0
      <4> DEFINE m == At(s, size)
      <4>1. m.exp = s.exp + size
        BY <2>4
      <4> HIDE DEF m
      <4>2. CASE prog.opt
        <5>1. v.exp = s.exp
          BY <2>2, <2>7, <4>2
        <5>2. s.exp = m.exp + (-size)
          BY <1>5, <2>2, <4>1
        <5> QED BY <4>2, <5>1, <5>2 DEF m
      <4>3. CASE ~prog.opt
        <5>1. v.exp = s.exp + size
          BY <2>7, <4>3
        <5>2. s.exp + size = m.exp + 0
          BY <1>5, <2>2, <4>1
        <5> QED BY <4>3, <5>1, <5>2 DEF m
      <4> QED BY <4>2, <4>3
    <3>2. Moves(At(s, size), v, IF prog.opt THEN -size ELSE 0)
      BY <2>4, <2>7, <3>1 DEF Moves
    <3>3. size \in At(s, size).rets
      BY <2>1, <2>4
    <3> QED BY <1>1, <1>4, <3>2, <3>3 DEF CodeStep, ExprOps, Made
  <2>9. Flat(<<Code(y)>>, At(s, size), v, T, C)
    BY <1>2, <1>4, <2>2, <2>8, FlatCode DEF StmtOps
  <2>10. CASE Node.data = <<>>
    <3>1. At(s, size) = s
      BY <1>6, <2>2, <2>10
    <3> QED BY <2>9, <2>10, <3>1
  <2>11. CASE Node.data # <<>>
    <3> HIDE DEF a
    <3>1. Flat(a \o <<Code(x)>>, s, At(s, size), T, C)
      BY <2>3, <2>6, FlatJoin
    <3>2. Flat((a \o <<Code(x)>>) \o <<Code(y)>>, s, v, T, C)
      BY <2>9, <3>1, FlatJoin
    <3>3. (a \o <<Code(x)>>) \o <<Code(y)>> = a \o <<Code(x), Code(y)>>
      <4>1. IsSeq(a)
        BY <2>3 DEF Flat
      <4>2. PICK S : a \in Seq(S)
        BY <4>1 DEF IsSeq
      <4> DEFINE p == Code(x)
                 q == Code(y)
                 R == S \cup {p, q}
      <4> HIDE DEF p, q
      <4>3. a \in Seq(R) /\ <<p>> \in Seq(R) /\ <<q>> \in Seq(R)
        BY <4>2, SeqMonotonic
      <4>4. (a \o <<p>>) \o <<q>> = a \o (<<p>> \o <<q>>)
        BY <4>3, ConcatAssociative
      <4>5. <<p>> \o <<q>> = <<p, q>>
        <5>1. <<p>> \in Seq(R) /\ <<q>> \in Seq(R) /\ <<p, q>> \in Seq(R)
          OBVIOUS
        <5>2. /\ Len(<<p>> \o <<q>>) = 2 /\ <<p>> \o <<q>> \in Seq(R)
              /\ (<<p>> \o <<q>>)[1] = p /\ (<<p>> \o <<q>>)[2] = q
          BY <5>1, SeqOne, SeqConcat, ConcatProperties DEF IsSeq
        <5>3. \A i \in 1 .. 2 : (<<p>> \o <<q>>)[i] = <<p, q>>[i]
          <6>1. \A i \in 1 .. 2 : i = 1 \/ i = 2
            OBVIOUS
          <6> QED BY <5>2, <6>1
        <5> QED BY <5>1, <5>2, <5>3, SeqEqual
      <4> QED BY <4>4, <4>5 DEF p, q
    <3> QED BY <2>11, <3>2, <3>3
  <2> QED BY <2>10, <2>11
<1> HIDE DEF items
<1> QED BY <1>1, <1>7, FlatStmt

-----------------------------------------------------------------------------
(* Statements with blocks. *)
Stands(s, C) ==
    /\ s \in State /\ s.exp = 0
    /\ T.about[Node].exits \subseteq s.exits /\ T.about[Node].returns \subseteq s.rets
    /\ Regs(s, C)
BlockOps == {"Stmt", "If", "While", "Do", "For", "Switch", "Case", "Default"}

LEMMA StmtAdvance ==
    ASSUME CodeInv, Doing("code"), Node.op \in BlockOps, NEW k \in Nat, NEW items, TakeApart(k, items),
           cases' = cases, NoError' => NoError, NEW D, NEW P, NEW I, NEW U,
           LabelsAt(T.about[Node].labels, cases) \subseteq P,
           P \subseteq LabelsAt(T.about[Node].labels, cases) \cup Fresh(k, nextLabel),
           I \subseteq T.about[Node].ids, U \subseteq T.about[Node].ids \ T.about[Node].labels,
           D \subseteq Fresh(k, nextLabel), ContinuesPlaced => D \subseteq P,
           \A s, C : Stands(s, C) =>
             \E s2 \in State : Regs(s2, C \cup D)' /\ Part(items, s2, s, P, I, U, {}, T, C \cup D, cases)
    PROVE  CodeInv'
<1>1. PICK C, s, v, u :
        Here(C, s, v, u) /\ CodeStep(Node, s, v, T, C) /\ s \in State /\ v \in State
  BY CodeHead
<1>2. Node.op \in StmtOps \ {"Decl", "End"} /\ Node.op # "Return"
  BY DEF BlockOps, StmtOps
<1>3. /\ PCodeOK(T) /\ StatementOK(Node, T)
      /\ Of(Node, T, "labels") = T.about[Node].labels /\ Of(Node, T, "ids") = T.about[Node].ids
  BY <1>2, StmtHead
<1>4. T.about[Node].size = 0
  BY <1>2, <1>3 DEF StatementOK
<1>5. /\ s.exp = 0 /\ Moves(s, v, 0)
      /\ T.about[Node].exits \subseteq s.exits /\ T.about[Node].returns \subseteq s.rets
  BY <1>1, <1>2, <1>4, StmtMoves
<1>6. v = s
  BY <1>1, <1>5, MovesAt, AtZero
<1>7. Stands(s, C)
  BY <1>1, <1>5 DEF Stands, Here
<1>8. PICK s2 \in State : Regs(s2, C \cup D)' /\ Part(items, s2, s, P, I, U, {}, T, C \cup D, cases)
  BY <1>7
<1>9. Owns(P, I, U, {}, k) /\ ~Firm(Head1)
  BY <1>3, CodeLabels DEF Owns
<1>10. /\ Kept(linker, linker', k, nextLabel) /\ nextLabel' = nextLabel + k /\ Then(items) /\ prog' = prog
  BY TakenApart
<1> QED BY <1>1, <1>6, <1>8, <1>9, <1>10, AdvanceInv

(* A piece without labels in front of an other. *)
LEMMA PreFlat ==
    ASSUME NEW a, NEW b, NEW t, NEW cs, NEW P, NEW I, NEW U, NEW Q, NEW s, NEW v, NEW u, NEW C,
           Flat(a, s, v, t, C), Part(b, v, u, P, I, U, Q, t, C, cs)
    PROVE  Part(a \o b, s, u, P, I, U, Q, t, C, cs)
<1>1. Part(a, s, v, {}, {}, {}, {}, t, C, cs)
  BY FlatPart
<1>2. Part(a \o b, s, u, {} \cup P, {} \cup I, {} \cup U, Q, t, C, cs)
  BY <1>1, PartJoin
<1>3. {} \cup P = P /\ {} \cup I = I /\ {} \cup U = U
  OBVIOUS
<1> QED BY <1>2, <1>3

LEMMA BlockExits ==
    ASSUME NEW t, PCodeOK(t), NEW b
    PROVE  OfBlock(b, t, "exits") \subseteq {"break", "continue"}
<1>1. ASSUME NEW n PROVE Of(n, t, "exits") \subseteq {"break", "continue"}
  <2>1. CASE n \in DOMAIN t.about
    BY <2>1, OfStmt, StmtNode DEF Facts
  <2>2. CASE n \notin DOMAIN t.about
    BY <2>2, OfOther
  <2> QED BY <2>1, <2>2
<1> QED BY <1>1 DEF OfBlock

LEMMA InsideHidden ==
    ASSUME CodeInv, Doing("code"), Node.op \in BlockOps \ {"Stmt", "Case", "Default"},
           NEW b, Inside(b, T.about[Node], T)
    PROVE  /\ Hidden(b, T, cases) /\ T.about[Node].labels = {}
           /\ OfBlock(b, T, "ids") \subseteq T.about[Node].ids
           /\ OfBlock(b, T, "returns") \subseteq T.about[Node].returns
<1>1. Node.op \in StmtOps \ {"Decl", "End"}
  BY DEF BlockOps, StmtOps
<1>2. /\ StatementOK(Node, T)
      /\ Of(Node, T, "labels") = T.about[Node].labels /\ Of(Node, T, "ids") = T.about[Node].ids
  BY <1>1, StmtHead
<1>3. T.about[Node].labels = {}
  BY <1>2 DEF StatementOK
<1>4. T.about[Node].ids \cap DOMAIN cases = {}
  BY <1>2, <1>3, CodeLabels
<1> QED BY <1>3, <1>4 DEF Inside, Hidden

LEMMA KeepStatement ==
    ASSUME CodeInv, CodeStatement
    PROVE  CodeInv'
<1> DEFINE a == T.about[Node]
           b == Data(Node.data)
           c == MOVSP(Node.locals, -Node.locals, 0)
           items == AssertNoExp \o b \o c \o AssertNoExp
           P == CaseLabels(Node.data, T, cases)
           I == OfBlock(Node.data, T, "ids")
           U == OfBlock(Node.data, T, "ids") \ OfBlock(Node.data, T, "labels")
<1>1. /\ Doing("code") /\ Node.op = "Stmt" /\ Node.op \in BlockOps /\ Steady /\ TakeApart(0, items)
      /\ Node.op \in StmtOps \ {"Decl", "End"}
  BY SteadyAll DEF CodeStatement, Coding, Node, StmtOps, BlockOps
<1>2. PCodeOK(T) /\ Statement(Node, a, T)
  BY <1>1, StmtHead
<1>3. /\ StmtBlock(Node.data, T) /\ I \subseteq a.ids /\ OfBlock(Node.data, T, "returns") \subseteq a.returns
      /\ OfBlock(Node.data, T, "exits") \subseteq a.exits
      /\ OfBlock(Node.data, T, "labels") = a.labels
  BY <1>1, <1>2 DEF Statement, Inside
<1>4. P = LabelsAt(a.labels, cases) /\ U \subseteq a.ids \ a.labels
  BY <1>3 DEF CaseLabels
<1>5. Injective(cases)
  BY <1>1, CodeLabels
<1> HIDE DEF P, I, U
<1>6. ASSUME NEW s, NEW C, Stands(s, C) PROVE Part(items, s, s, P, I, U, {}, T, C, cases)
  <2>1. s \in State /\ s.exp = 0 /\ a.exits \subseteq s.exits /\ a.returns \subseteq s.rets
    BY <1>6 DEF Stands
  <2>2. Part(b, s, s, P, I, U, {}, T, C, cases)
    BY <1>2, <1>3, <1>5, <2>1, BlockPart DEF P, I, U
  <2>3. Flat(AssertNoExp, s, s, T, C)
    BY <2>1, FlatAssert
  <2>4. Flat(c, s, s, T, C)
    BY <2>1, FlatPop
  <2> HIDE DEF b, c
  <2>5. Part(AssertNoExp \o b, s, s, P, I, U, {}, T, C, cases)
    BY <2>2, <2>3, PreFlat
  <2>6. Part(AssertNoExp \o b \o c, s, s, P, I, U, {}, T, C, cases)
    BY <2>4, <2>5, AddFlat
  <2> QED BY <2>3, <2>6, AddFlat
<1>7. PICK D : D = {}
  OBVIOUS
<1>8. ASSUME NEW s, NEW C, Stands(s, C)
      PROVE  \E s2 \in State : Regs(s2, C \cup D)' /\ Part(items, s2, s, P, I, U, {}, T, C \cup D, cases)
  <2>1. C \cup D = C
    BY <1>7
  <2>2. s \in State /\ Regs(s, C)'
    BY <1>1, <1>8, SameRegs DEF Stands, Steady
  <2> QED BY <1>6, <1>8, <2>1, <2>2
<1> HIDE DEF items
<1>9. D \subseteq Fresh(0, nextLabel) /\ (ContinuesPlaced => D \subseteq P)
  BY <1>7
<1>10. /\ LabelsAt(a.labels, cases) \subseteq P
       /\ P \subseteq LabelsAt(a.labels, cases) \cup Fresh(0, nextLabel)
  BY <1>4
<1> QED BY <1>1, <1>3, <1>4, <1>8, <1>9, <1>10, StmtAdvance DEF Steady

LEMMA KeepCase ==
    ASSUME CodeInv, CodeCase
    PROVE  CodeInv'
<1> DEFINE a == T.about[Node]
           here == Node.id \in DOMAIN cases
           items == When(here, Resolve(cases[Node.id]))
           P == IF here THEN {cases[Node.id]} ELSE {}
<1>1. /\ Doing("code") /\ Node.op \in {"Case", "Default"} /\ Node.op \in BlockOps /\ Steady
      /\ TakeApart(0, items) /\ Node.op \in StmtOps \ {"Decl", "End"}
  BY SteadyAll DEF CodeCase, Coding, Node, StmtOps, BlockOps
<1>2. PCodeOK(T) /\ Statement(Node, a, T)
  BY <1>1, StmtHead
<1>3. a.labels = {Node.id}
  BY <1>1, <1>2 DEF Statement
<1>4. P = LabelsAt(a.labels, cases)
  <2>1. \A l : l \in LabelsAt(a.labels, cases) <=> \E id \in a.labels \cap DOMAIN cases : l = cases[id]
    BY LabelsAtMember
  <2> QED BY <1>3, <2>1
<1>5. ASSUME NEW s, NEW C, Stands(s, C) PROVE Part(items, s, s, P, {}, {}, {}, T, C, cases)
  <2>1. s \in State
    BY <1>5 DEF Stands
  <2>2. Part(<<>>, s, s, {}, {}, {}, {}, T, C, cases)
    BY <2>1, FlatNone, FlatPart
  <2>3. CASE ~here
    BY <2>2, <2>3 DEF When
  <2>4. CASE here
    <3> DEFINE l == cases[Node.id]
    <3> HIDE DEF l
    <3>1. Part(<<>> \o Resolve(l), s, s, {} \cup {l}, {}, {}, {}, T, C, cases)
      BY <2>1, <2>2, AddLabel
    <3>2. <<>> \o Resolve(l) = Resolve(l)
      <4>1. Resolve(l) \in Seq({[do |-> "resolve", label |-> l]})
        BY DEF Resolve
      <4> QED BY <4>1, ConcatEmptySeq
    <3>3. {} \cup {l} = P
      BY <2>4 DEF l
    <3> QED BY <2>4, <3>1, <3>2, <3>3 DEF When, l
  <2> QED BY <2>3, <2>4
<1>6. PICK D : D = {}
  OBVIOUS
<1>7. ASSUME NEW s, NEW C, Stands(s, C)
      PROVE  \E s2 \in State : Regs(s2, C \cup D)' /\ Part(items, s2, s, P, {}, {}, {}, T, C \cup D, cases)
  <2>1. C \cup D = C
    BY <1>6
  <2>2. s \in State /\ Regs(s, C)'
    BY <1>1, <1>7, SameRegs DEF Stands, Steady
  <2> QED BY <1>5, <1>7, <2>1, <2>2
<1> HIDE DEF items, P
<1>8. D \subseteq Fresh(0, nextLabel) /\ (ContinuesPlaced => D \subseteq P)
  BY <1>6
<1>9. /\ LabelsAt(a.labels, cases) \subseteq P
      /\ P \subseteq LabelsAt(a.labels, cases) \cup Fresh(0, nextLabel)
      /\ {} \subseteq a.ids /\ {} \subseteq a.ids \ a.labels
  BY <1>4
<1> QED BY <1>1, <1>7, <1>8, <1>9, StmtAdvance DEF Steady

LEMMA OfBlockJoin ==
    ASSUME NEW b, NEW c, IsSeq(b), IsSeq(c), NEW t, NEW x
    PROVE  OfBlock(b, t, x) \subseteq OfBlock(b \o c, t, x) /\ OfBlock(c, t, x) \subseteq OfBlock(b \o c, t, x)
<1>1. ASSUME NEW i \in 1 .. Len(b) PROVE Of(b[i], t, x) \subseteq OfBlock(b \o c, t, x)
  <2>1. i \in 1 .. Len(b \o c) /\ (b \o c)[i] = b[i]
    BY SeqConcat, SeqLength
  <2> QED BY <2>1, OfMember
<1>2. ASSUME NEW i \in 1 .. Len(c) PROVE Of(c[i], t, x) \subseteq OfBlock(b \o c, t, x)
  <2>1. Len(b) + i \in 1 .. Len(b \o c) /\ (b \o c)[Len(b) + i] = c[i]
    BY SeqConcat, SeqLength
  <2> QED BY <2>1, OfMember
<1> QED BY <1>1, <1>2 DEF OfBlock

LEMMA KeepIf ==
    ASSUME CodeInv, CodeIf
    PROVE  CodeInv'
<1> DEFINE n == T.about[Node]
           a == Data(Node.cond)
           b == JZ(L(1))
           c == Data(Node.then)
           d == JZ(L(2))
           e == JMP(L(1))
           f == Ins("NOP", 0, 0, 0, 0)
           g == When(prog.v130 /\ (Node.els # <<>> \/ Node.hasElse), f)
           h == Data(Node.els)
           short == a \o b \o c \o Resolve(L(1))
           long == a \o d \o c \o e \o Resolve(L(2)) \o g \o h \o Resolve(L(1))
           I == OfBlock(Node.then, T, "ids")
           J == OfBlock(Node.els, T, "ids")
<1>1. /\ Doing("code") /\ Node.op = "If" /\ Node.op \in BlockOps \ {"Stmt", "Case", "Default"}
      /\ Node.op \in StmtOps \ {"Decl", "End"} /\ Steady
      /\ TakeApart(0, c) \/ TakeApart(0, h) \/ TakeApart(1, short) \/ TakeApart(2, long)
  <2>1. TakeApart(0, c) \/ TakeApart(0, h) \/ TakeApart(1, short) \/ TakeApart(2, long)
    <3>1. CASE CondValue(Node.cond) = 1
      BY <3>1 DEF CodeIf
    <3>2. CASE CondValue(Node.cond) # 1 /\ CondValue(Node.cond) = 0
      BY <3>2 DEF CodeIf
    <3>3. CASE /\ CondValue(Node.cond) # 1 /\ CondValue(Node.cond) # 0
               /\ CondValue(Node.cond) = -1 /\ Node.els = <<>> /\ prog.opt
      BY <3>3 DEF CodeIf
    <3>4. CASE /\ CondValue(Node.cond) # 1 /\ CondValue(Node.cond) # 0
               /\ ~(CondValue(Node.cond) = -1 /\ Node.els = <<>> /\ prog.opt)
      BY <3>4 DEF CodeIf
    <3> QED BY <3>1, <3>2, <3>3, <3>4
  <2> QED BY <2>1, SteadyAll DEF CodeIf, Coding, Node, StmtOps, BlockOps
<1>2. PCodeOK(T) /\ Statement(Node, n, T)
  BY <1>1, StmtHead
<1>3. /\ ExprBlock(Node.cond, 1, T) /\ Inside(Node.then, n, T) /\ Inside(Node.els, n, T)
      /\ I \cap J = {} /\ OfBlock(Node.then \o Node.els, T, "exits") \subseteq n.exits
  BY <1>1, <1>2 DEF Statement
<1>4. /\ Hidden(Node.then, T, cases) /\ Hidden(Node.els, T, cases) /\ n.labels = {}
      /\ I \subseteq n.ids /\ J \subseteq n.ids
      /\ OfBlock(Node.then, T, "returns") \subseteq n.returns
      /\ OfBlock(Node.els, T, "returns") \subseteq n.returns
  BY <1>1, <1>3, InsideHidden
<1>5. /\ OfBlock(Node.then, T, "exits") \subseteq n.exits /\ OfBlock(Node.els, T, "exits") \subseteq n.exits
  <2>1. IsSeq(Node.then) /\ IsSeq(Node.els)
    BY <1>3 DEF Inside, StmtBlock, IsSeq
  <2> QED BY <1>3, <2>1, OfBlockJoin
<1>6. Injective(cases) /\ nextLabel \in Nat
  BY <1>1, CodeLabels
<1>7. Fresh(1, nextLabel) = {L(1)} /\ Fresh(2, nextLabel) = {L(1), L(2)} /\ L(1) # L(2)
  BY <1>6, NewLabels
<1> HIDE DEF I, J
<1>8. ASSUME NEW s, NEW C, Stands(s, C)
      PROVE  /\ s \in State /\ s.exp = 0
             /\ OfBlock(Node.then, T, "exits") \subseteq s.exits
             /\ OfBlock(Node.then, T, "returns") \subseteq s.rets
             /\ OfBlock(Node.els, T, "exits") \subseteq s.exits
             /\ OfBlock(Node.els, T, "returns") \subseteq s.rets
             /\ \A D : /\ Part(c, s, s, {}, I, I, {}, T, C \cup D, cases)
                       /\ Part(h, s, s, {}, J, J, {}, T, C \cup D, cases)
                       /\ Flat(a, s, At(s, 1), T, C \cup D)
  <2>1. s \in State /\ s.exp = 0 /\ n.exits \subseteq s.exits /\ n.returns \subseteq s.rets
    BY <1>8 DEF Stands
  <2>2. /\ OfBlock(Node.then, T, "exits") \subseteq s.exits
        /\ OfBlock(Node.then, T, "returns") \subseteq s.rets
        /\ OfBlock(Node.els, T, "exits") \subseteq s.exits
        /\ OfBlock(Node.els, T, "returns") \subseteq s.rets
    BY <1>4, <1>5, <2>1
  <2>3. ASSUME NEW D
        PROVE  /\ Part(c, s, s, {}, I, I, {}, T, C \cup D, cases)
               /\ Part(h, s, s, {}, J, J, {}, T, C \cup D, cases)
               /\ Flat(a, s, At(s, 1), T, C \cup D)
    BY <1>2, <1>3, <1>4, <1>6, <2>1, <2>2, HiddenPart, ExprFlat DEF I, J
  <2> QED BY <2>1, <2>2, <2>3
<1>9. CASE TakeApart(0, c) \/ TakeApart(0, h)
  <2>1. PICK D : D = {}
    OBVIOUS
  <2>2. ASSUME NEW s, NEW C, Stands(s, C)
        PROVE  /\ \E s2 \in State : Regs(s2, C \cup D)' /\ Part(c, s2, s, {}, I, I, {}, T, C \cup D, cases)
               /\ \E s2 \in State : Regs(s2, C \cup D)' /\ Part(h, s2, s, {}, J, J, {}, T, C \cup D, cases)
    <3>1. C \cup D = C
      BY <2>1
    <3>2. s \in State /\ Regs(s, C)'
      BY <1>1, <2>2, SameRegs DEF Stands, Steady
    <3> QED BY <1>8, <2>2, <3>1, <3>2
  <2>3. /\ LabelsAt(n.labels, cases) = {} /\ I \subseteq n.ids \ n.labels /\ J \subseteq n.ids \ n.labels
    BY <1>4, NoLabels
  <2>4. D \subseteq Fresh(0, nextLabel) /\ (ContinuesPlaced => D \subseteq {}) /\ Node.op \in BlockOps
    BY <1>1, <2>1
  <2> HIDE DEF c, h
  <2>5. CASE TakeApart(0, c)
    BY <1>1, <1>4, <2>2, <2>3, <2>4, <2>5, StmtAdvance DEF Steady
  <2>6. CASE TakeApart(0, h)
    BY <1>1, <1>4, <2>2, <2>3, <2>4, <2>6, StmtAdvance DEF Steady
  <2> QED BY <1>9, <2>5, <2>6
<1>10. CASE TakeApart(1, short)
  <2>1. PICK D : D = {L(1)}
    OBVIOUS
  <2>2. ASSUME NEW s, NEW C, Stands(s, C)
        PROVE  \E s2 \in State : Regs(s2, C \cup D)' /\ Part(short, s2, s, D, I, I, {}, T, C \cup D, cases)
    <3>1. s \in State /\ s.exp = 0 /\ At(s, 0) = s /\ L(1) \in C \cup D
      BY <1>8, <2>1, <2>2, AtZero
    <3>2. Regs(s, C \cup D)'
      <4>1. Regs(s, C \cup D)
        BY <2>2 DEF Stands, Regs
      <4> QED BY <1>1, <4>1, SameRegs DEF Steady
    <3>3. Flat(b, At(s, 1), s, T, C \cup D)
      <4>1. Flat(b, At(s, 1), At(s, 0), T, C \cup D)
        BY <3>1, FlatUpDown DEF JZ
      <4> QED BY <3>1, <4>1
    <3>4. Flat(a, s, At(s, 1), T, C \cup D) /\ Part(c, s, s, {}, I, I, {}, T, C \cup D, cases)
      BY <1>8, <2>2
    <3> HIDE DEF a, b, c
    <3>5. Flat(a \o b, s, s, T, C \cup D)
      BY <3>3, <3>4, FlatJoin
    <3>6. Part(a \o b \o c, s, s, {}, I, I, {}, T, C \cup D, cases)
      BY <3>4, <3>5, PreFlat
    <3>7. Part(a \o b \o c \o Resolve(L(1)), s, s, {} \cup {L(1)}, I, I, {}, T, C \cup D, cases)
      BY <3>1, <3>6, AddLabel
    <3>8. {} \cup {L(1)} = D
      BY <2>1
    <3> QED BY <3>1, <3>2, <3>7, <3>8
  <2> HIDE DEF short
  <2>3. /\ LabelsAt(n.labels, cases) \subseteq D
        /\ D \subseteq LabelsAt(n.labels, cases) \cup Fresh(1, nextLabel)
        /\ I \subseteq n.ids \ n.labels
        /\ D \subseteq Fresh(1, nextLabel) /\ (ContinuesPlaced => D \subseteq D)
        /\ Node.op \in BlockOps
    BY <1>1, <1>4, <1>7, <2>1, NoLabels
  <2> QED BY <1>1, <1>4, <1>10, <2>2, <2>3, StmtAdvance DEF Steady
<1>11. CASE TakeApart(2, long)
  <2>1. PICK D : D = {L(1), L(2)}
    OBVIOUS
  <2> DEFINE K == I \cup J
  <2>2. ASSUME NEW s, NEW C, Stands(s, C)
        PROVE  \E s2 \in State : Regs(s2, C \cup D)' /\ Part(long, s2, s, D, K, K, {}, T, C \cup D, cases)
    <3>1. s \in State /\ s.exp = 0 /\ At(s, 0) = s /\ L(1) \in C \cup D /\ L(2) \in C \cup D
      BY <1>8, <2>1, <2>2, AtZero
    <3>2. Regs(s, C \cup D)'
      <4>1. Regs(s, C \cup D)
        BY <2>2 DEF Stands, Regs
      <4> QED BY <1>1, <4>1, SameRegs DEF Steady
    <3>3. Flat(d, At(s, 1), s, T, C \cup D)
      <4>1. Flat(d, At(s, 1), At(s, 0), T, C \cup D)
        BY <3>1, FlatUpDown DEF JZ
      <4> QED BY <3>1, <4>1
    <3>4. Flat(a, s, At(s, 1), T, C \cup D) /\ Part(c, s, s, {}, I, I, {}, T, C \cup D, cases)
      BY <1>8, <2>2
    <3>5. Flat(e, s, s, T, C \cup D) /\ Flat(f, s, s, T, C \cup D)
      <4>1. Moves(s, s, 0)
        BY <3>1 DEF Moves
      <4> QED BY <3>1, <4>1, FlatMoves DEF JMP
    <3> HIDE DEF a, c, d, e, f
    <3>6. Flat(g, s, s, T, C \cup D)
      BY <3>1, <3>5, FlatWhen
    <3> HIDE DEF g
    <3>7. Flat(a \o d, s, s, T, C \cup D)
      BY <3>3, <3>4, FlatJoin
    <3>8. Part(a \o d \o c, s, s, {}, I, I, {}, T, C \cup D, cases)
      BY <3>4, <3>7, PreFlat
    <3>9. Part(a \o d \o c \o e, s, s, {}, I, I, {}, T, C \cup D, cases)
      BY <3>5, <3>8, AddFlat
    <3>10. Part(a \o d \o c \o e \o Resolve(L(2)), s, s, {} \cup {L(2)}, I, I, {}, T, C \cup D, cases)
      BY <3>1, <3>9, AddLabel
    <3>11. Part(a \o d \o c \o e \o Resolve(L(2)) \o g, s, s, {} \cup {L(2)}, I, I, {}, T, C \cup D, cases)
      BY <3>6, <3>10, AddFlat
    <3>12. Part(a \o d \o c \o e \o Resolve(L(2)) \o g \o h, s, s, {} \cup {L(2)}, K, K, {}, T, C \cup D, cases)
      <4>1. J \cap I = {}
        BY <1>3 DEF I, J
      <4>2. /\ OfBlock(Node.els, T, "exits") \subseteq s.exits
            /\ OfBlock(Node.els, T, "returns") \subseteq s.rets
        BY <1>8, <2>2
      <4> QED BY <1>2, <1>4, <1>6, <3>1, <3>11, <4>1, <4>2, AddBlock DEF J
    <3>13. L(1) \notin {} \cup {L(2)} /\ {} \cup {L(2)} \cup {L(1)} = D
      BY <1>7, <2>1
    <3> HIDE DEF h, K
    <3>14. Part(a \o d \o c \o e \o Resolve(L(2)) \o g \o h \o Resolve(L(1)), s, s,
                {} \cup {L(2)} \cup {L(1)}, K, K, {}, T, C \cup D, cases)
      BY <3>1, <3>12, <3>13, AddLabel
    <3> QED BY <3>1, <3>2, <3>13, <3>14
  <2> HIDE DEF long
  <2>3. /\ LabelsAt(n.labels, cases) \subseteq D
        /\ D \subseteq LabelsAt(n.labels, cases) \cup Fresh(2, nextLabel)
        /\ K \subseteq n.ids \ n.labels /\ K \subseteq n.ids
        /\ D \subseteq Fresh(2, nextLabel) /\ (ContinuesPlaced => D \subseteq D)
        /\ Node.op \in BlockOps
    BY <1>1, <1>4, <1>7, <2>1, NoLabels
  <2> HIDE DEF K
  <2> QED BY <1>1, <1>11, <2>2, <2>3, StmtAdvance DEF Steady
<1> QED BY <1>1, <1>9, <1>10, <1>11

-----------------------------------------------------------------------------
(* Loops and switch. *)

LEMMA ThreeSeqs ==
    ASSUME NEW a, NEW b, NEW c, IsSeq(a), IsSeq(b), IsSeq(c)
    PROVE  (a \o b) \o c = a \o (b \o c)
<1>1. PICK Q, R, S : a \in Seq(Q) /\ b \in Seq(R) /\ c \in Seq(S)
  BY DEF IsSeq
<1> DEFINE V == Q \cup R \cup S
<1>2. a \in Seq(V) /\ b \in Seq(V) /\ c \in Seq(V)
  BY <1>1, SeqMonotonic
<1> HIDE DEF V
<1> QED BY <1>2, ConcatAssociative

LEMMA OneLabel ==
    ASSUME NEW l, NEW t, NEW cs, NEW s \in State, NEW C
    PROVE  Part(Resolve(l), s, s, {l}, {}, {}, {}, t, C, cs)
<1>1. Part(<<>>, s, s, {}, {}, {}, {}, t, C, cs)
  BY FlatNone, FlatPart
<1>2. Part(<<>> \o Resolve(l), s, s, {} \cup {l}, {}, {}, {}, t, C, cs)
  BY <1>1, AddLabel
<1>3. <<>> \o Resolve(l) = Resolve(l)
  <2>1. Resolve(l) \in Seq({[do |-> "resolve", label |-> l]})
    BY DEF Resolve
  <2> QED BY <2>1, ConcatEmptySeq
<1>4. {} \cup {l} = {l}
  OBVIOUS
<1> QED BY <1>2, <1>3, <1>4

LEMMA AddWhenLabel ==
    ASSUME NEW a, NEW c, NEW l, NEW t, NEW cs, NEW P, NEW I, NEW U, NEW Q, NEW s, NEW v \in State, NEW C,
           Part(a, s, v, P, I, U, Q, t, C, cs), l \notin P, NEW R, R = P \cup IF c THEN {l} ELSE {}
    PROVE  Part(a \o When(c, Resolve(l)), s, v, R, I, U, Q, t, C, cs)
<1>1. CASE c
  <2>1. When(c, Resolve(l)) = Resolve(l) /\ R = P \cup {l}
    BY <1>1 DEF When
  <2> QED BY <2>1, AddLabel
<1>2. CASE ~c
  <2>1. When(c, Resolve(l)) = <<>> /\ R = P
    BY <1>2 DEF When
  <2>2. IsSeq(a)
    BY DEF Part, Shape
  <2>3. a \o <<>> = a
    BY <2>2, ConcatEmptySeq DEF IsSeq
  <2> QED BY <2>1, <2>3
<1> QED BY <1>1, <1>2

(* The state in a loop or a switch: what its body may jump to. *)
Within(s, X) == [exp |-> 0, exits |-> X, rets |-> s.rets]

LEMMA WithinState ==
    ASSUME NEW s \in State, NEW X, X \subseteq {"break", "continue"}
    PROVE  /\ Within(s, X) \in State /\ Within(s, X).exp = 0 /\ Within(s, X).exits = X
           /\ Within(s, X).rets = s.rets
BY DEF Within, State

LEMMA BackAgain ==
    ASSUME NEW s, NEW C, Stands(s, C), NEW X, X \subseteq {"break", "continue"}, NEW D
    PROVE  Flat(RestoreLabels, Within(s, X), s, T, C \cup D)
<1>1. s \in State /\ s.exp = 0 /\ Regs(s, C)
  BY DEF Stands
<1>2. /\ Within(s, X) \in State /\ Within(s, X).exp = 0 /\ Within(s, X).rets = s.rets
  BY <1>1, WithinState
<1>3. ("break" \in s.exits => brk.label \in C \cup D) /\ ("continue" \in s.exits => cont.label \in C \cup D)
  BY <1>1 DEF Regs
<1> HIDE DEF Within
<1> QED BY <1>1, <1>2, <1>3, FlatRestore

LEMMA LoopRegs ==
    ASSUME NEW s, NEW C, Stands(s, C), NEW X, X \subseteq {"break", "continue"}, NEW D,
           EnterLoop(L(2), L(3)), depth'.exp = 0, L(2) \in C \cup D, "continue" \in X => L(3) \in C \cup D
    PROVE  Regs(Within(s, X), C \cup D)'
<1>1. s \in State /\ Regs(s, C)
  BY DEF Stands
<1>2. /\ Within(s, X).exp = 0 /\ Within(s, X).exits = X /\ Within(s, X).rets = s.rets
  BY <1>1, WithinState
<1>3. brk'.label = L(2) /\ cont'.label = L(3) /\ UNCHANGED <<depth, fn, default>>
  BY DEF EnterLoop
<1> HIDE DEF Within
<1> QED BY <1>1, <1>2, <1>3 DEF Regs

(* A test in front of a body, that jumps behind it. *)
LEMMA FlatTest ==
    ASSUME NEW t, PCodeOK(t), NEW b, ExprBlock(b, 1, t), NEW m \in State, NEW l, NEW C, l \in C
    PROVE  /\ Flat(Data(b) \o JZ(l), m, m, t, C) /\ Flat(Data(b) \o JNZ(l), m, m, t, C)
           /\ Flat(JMP(l), m, m, t, C)
<1>1. Flat(Data(b), m, At(m, 1), t, C)
  BY ExprFlat
<1>2. Flat(JZ(l), At(m, 1), At(m, 0), t, C) /\ Flat(JNZ(l), At(m, 1), At(m, 0), t, C)
  BY FlatUpDown DEF JZ, JNZ
<1>3. At(m, 0) = m
  BY AtZero
<1>4. Flat(JMP(l), m, m, t, C)
  <2>1. Moves(m, m, 0)
    BY DEF Moves, State
  <2> QED BY <2>1, FlatMoves DEF JMP
<1> QED BY <1>1, <1>2, <1>3, <1>4, FlatJoin

LEMMA KeepWhile ==
    ASSUME CodeInv, CodeWhile
    PROVE  CodeInv'
<1> DEFINE n == T.about[Node]
           a == When(prog.opt, Resolve(L(3)))
           b == Data(Node.cond) \o JZ(L(2))
           c == When(CondValue(Node.cond) = -1, b)
           d == Data(Node.body)
           e == When(~prog.opt, Resolve(L(3)))
           f == JMP(L(1))
           items == Resolve(L(1)) \o a \o c \o d \o e \o f \o Resolve(L(2)) \o RestoreLabels
           I == OfBlock(Node.body, T, "ids")
           X == {"break", "continue"}
<1>1. /\ Doing("code") /\ Node.op = "While" /\ Node.op \in BlockOps \ {"Stmt", "Case", "Default"}
      /\ Node.op \in StmtOps \ {"Decl", "End"} /\ Node.op \in BlockOps
      /\ (Steady /\ TakeApart(0, <<>>)) \/ (EnterLoop(L(2), L(3)) /\ TakeApart(3, items))
  <2>1. (UNCHANGED <<depth, ctxVars>> /\ TakeApart(0, <<>>)) \/ (EnterLoop(L(2), L(3)) /\ TakeApart(3, items))
    BY DEF CodeWhile
  <2> QED BY <2>1, SteadyAll DEF CodeWhile, Coding, Node, StmtOps, BlockOps
<1>2. PCodeOK(T) /\ Statement(Node, n, T) /\ depth.exp = 0
  BY <1>1, StmtHead
<1>3. /\ ExprBlock(Node.cond, 1, T) /\ Inside(Node.body, n, T)
  BY <1>1, <1>2 DEF Statement
<1>4. /\ Hidden(Node.body, T, cases) /\ n.labels = {} /\ I \subseteq n.ids
      /\ OfBlock(Node.body, T, "returns") \subseteq n.returns
  BY <1>1, <1>3, InsideHidden
<1>5. OfBlock(Node.body, T, "exits") \subseteq X
  BY <1>2, BlockExits
<1>6. Injective(cases) /\ nextLabel \in Nat
  BY <1>1, CodeLabels
<1>7. Fresh(3, nextLabel) = {L(1), L(2), L(3)} /\ L(1) # L(2) /\ L(1) # L(3) /\ L(2) # L(3)
  BY <1>6, NewLabels
<1> HIDE DEF I
<1>8. LabelsAt(n.labels, cases) = {}
  BY <1>4, NoLabels
<1>9. CASE Steady /\ TakeApart(0, <<>>)
  <2>1. PICK D : D = {}
    OBVIOUS
  <2>2. ASSUME NEW s, NEW C, Stands(s, C)
        PROVE  \E s2 \in State : Regs(s2, C \cup D)' /\ Part(<<>>, s2, s, {}, {}, {}, {}, T, C \cup D, cases)
    <3>1. C \cup D = C
      BY <2>1
    <3>2. s \in State /\ Regs(s, C)'
      BY <1>9, <2>2, SameRegs DEF Stands, Steady
    <3>3. Part(<<>>, s, s, {}, {}, {}, {}, T, C \cup D, cases)
      BY <3>2, FlatNone, FlatPart
    <3> QED BY <3>1, <3>2, <3>3
  <2>3. /\ D \subseteq Fresh(0, nextLabel) /\ (ContinuesPlaced => D \subseteq {})
        /\ {} \subseteq n.ids /\ {} \subseteq n.ids \ n.labels
        /\ LabelsAt(n.labels, cases) \subseteq {} /\ {} \subseteq LabelsAt(n.labels, cases) \cup Fresh(0, nextLabel)
    BY <1>8, <2>1
  <2> QED BY <1>1, <1>9, <2>2, <2>3, StmtAdvance DEF Steady
<1>10. CASE EnterLoop(L(2), L(3)) /\ TakeApart(3, items)
  <2>1. PICK D : D = {L(1), L(2), L(3)}
    OBVIOUS
  <2>2. ASSUME NEW s, NEW C, Stands(s, C)
        PROVE  \E s2 \in State : Regs(s2, C \cup D)' /\ Part(items, s2, s, D, I, I, {}, T, C \cup D, cases)
    <3> DEFINE m == Within(s, X)
    <3>1. L(1) \in C \cup D /\ L(2) \in C \cup D /\ L(3) \in C \cup D
      BY <2>1
    <3>2. s \in State /\ n.returns \subseteq s.rets
      BY <2>2 DEF Stands
    <3>3. m \in State /\ m.exp = 0 /\ m.exits = X /\ m.rets = s.rets
      BY <3>2, WithinState
    <3>4. Regs(m, C \cup D)'
      <4>1. depth'.exp = 0
        BY <1>2, <1>10 DEF EnterLoop
      <4> QED BY <1>10, <2>2, <3>1, <4>1, LoopRegs
    <3>5. Flat(RestoreLabels, m, s, T, C \cup D)
      BY <2>2, BackAgain
    <3> HIDE DEF m
    <3>6. Flat(b, m, m, T, C \cup D) /\ Flat(f, m, m, T, C \cup D)
      BY <1>2, <1>3, <3>1, <3>3, FlatTest
    <3> HIDE DEF b, f
    <3>7. Flat(c, m, m, T, C \cup D)
      BY <3>3, <3>6, FlatWhen
    <3>8. Part(Resolve(L(1)), m, m, {L(1)}, {}, {}, {}, T, C \cup D, cases)
      BY <3>3, OneLabel
    <3> DEFINE P == {L(1)} \cup IF prog.opt THEN {L(3)} ELSE {}
               R == P \cup IF ~prog.opt THEN {L(3)} ELSE {}
    <3>9. L(3) \notin {L(1)} /\ (~prog.opt => L(3) \notin P) /\ R = {L(1), L(3)} /\ L(2) \notin R
          /\ R \cup {L(2)} = D
      BY <1>7, <2>1
    <3>10. Part(Resolve(L(1)) \o a, m, m, P, {}, {}, {}, T, C \cup D, cases)
      BY <3>3, <3>8, <3>9, AddWhenLabel
    <3> HIDE DEF a, c
    <3>11. Part(Resolve(L(1)) \o a \o c, m, m, P, {}, {}, {}, T, C \cup D, cases)
      BY <3>7, <3>10, AddFlat
    <3>12. Part(Resolve(L(1)) \o a \o c \o d, m, m, P, I, I, {}, T, C \cup D, cases)
      <4>1. /\ OfBlock(Node.body, T, "exits") \subseteq m.exits
            /\ OfBlock(Node.body, T, "returns") \subseteq m.rets
        BY <1>4, <1>5, <3>2, <3>3
      <4>2. {} \cup I = I /\ I \cap {} = {}
        OBVIOUS
      <4> HIDE DEF P
      <4>3. Part(Resolve(L(1)) \o a \o c \o d, m, m, P, {} \cup I, {} \cup I, {}, T, C \cup D, cases)
        BY <1>2, <1>4, <1>6, <3>3, <3>11, <4>1, <4>2, AddBlock DEF I
      <4> QED BY <4>2, <4>3
    <3> HIDE DEF d
    <3>13. Part(Resolve(L(1)) \o a \o c \o d \o e, m, m, R, I, I, {}, T, C \cup D, cases)
      <4>1. CASE ~prog.opt
        <5>1. L(3) \notin P /\ R = P \cup IF ~prog.opt THEN {L(3)} ELSE {}
          BY <3>9, <4>1
        <5> HIDE DEF P, R
        <5> QED BY <3>3, <3>12, <5>1, AddWhenLabel
      <4>2. CASE prog.opt
        <5>1. e = <<>> /\ R = P
          BY <4>2 DEF When
        <5>2. IsSeq(Resolve(L(1)) \o a \o c \o d)
          BY <3>12 DEF Part, Shape
        <5>3. (Resolve(L(1)) \o a \o c \o d) \o <<>> = Resolve(L(1)) \o a \o c \o d
          BY <5>2, ConcatEmptySeq DEF IsSeq
        <5> HIDE DEF e, R, P
        <5> QED BY <3>12, <5>1, <5>3
      <4> QED BY <4>1, <4>2
    <3> HIDE DEF e, R
    <3>14. Part(Resolve(L(1)) \o a \o c \o d \o e \o f, m, m, R, I, I, {}, T, C \cup D, cases)
      BY <3>6, <3>13, AddFlat
    <3>15. Part(Resolve(L(1)) \o a \o c \o d \o e \o f \o Resolve(L(2)), m, m, R \cup {L(2)}, I, I, {},
                T, C \cup D, cases)
      BY <3>3, <3>9, <3>14, AddLabel
    <3>16. Part(items, m, s, D, I, I, {}, T, C \cup D, cases)
      BY <3>5, <3>9, <3>15, AddFlat
    <3> QED BY <3>3, <3>4, <3>16
  <2> HIDE DEF items
  <2>3. /\ LabelsAt(n.labels, cases) \subseteq D
        /\ D \subseteq LabelsAt(n.labels, cases) \cup Fresh(3, nextLabel)
        /\ I \subseteq n.ids \ n.labels
        /\ D \subseteq Fresh(3, nextLabel) /\ (ContinuesPlaced => D \subseteq D)
    BY <1>4, <1>7, <1>8, <2>1
  <2>4. cases' = cases /\ (NoError' => NoError)
    BY <1>10 DEF EnterLoop, NoError
  <2> QED BY <1>1, <1>4, <1>10, <2>2, <2>3, <2>4, StmtAdvance
<1> QED BY <1>1, <1>9, <1>10

LEMMA KeepFor ==
    ASSUME CodeInv, CodeFor
    PROVE  CodeInv'
<1> DEFINE n == T.about[Node]
           runs == CondValue(Node.cond) # 0
           a == Data(Node.init)
           b == ForTest(Node)
           d == Data(Node.body)
           c == When(runs, d)
           i == Data(Node.inc)
           f == JMP(L(1))
           g == AssertNoExp \o i \o DropExp \o f
           e == When(runs, g)
           items == AssertNoExp \o a \o DropExp \o Resolve(L(1)) \o b \o c \o Resolve(L(3)) \o e
                    \o Resolve(L(2)) \o RestoreLabels
           I == OfBlock(Node.body, T, "ids")
           X == {"break", "continue"}
<1>1. /\ Doing("code") /\ Node.op = "For" /\ Node.op \in BlockOps \ {"Stmt", "Case", "Default"}
      /\ Node.op \in StmtOps \ {"Decl", "End"} /\ Node.op \in BlockOps
      /\ EnterLoop(L(2), L(3)) /\ TakeApart(3, items)
  BY DEF CodeFor, Coding, Node, StmtOps, BlockOps
<1>2. PCodeOK(T) /\ Statement(Node, n, T) /\ depth.exp = 0
  BY <1>1, StmtHead
<1>3. /\ Node.init \in Seq(T.exprs) /\ Node.inc \in Seq(T.exprs)
      /\ OptBlock(Node.cond, 1, T) /\ Inside(Node.body, n, T)
  BY <1>1, <1>2 DEF Statement
<1>4. /\ Hidden(Node.body, T, cases) /\ n.labels = {} /\ I \subseteq n.ids
      /\ OfBlock(Node.body, T, "returns") \subseteq n.returns
  BY <1>1, <1>3, InsideHidden
<1>5. OfBlock(Node.body, T, "exits") \subseteq X
  BY <1>2, BlockExits
<1>6. Injective(cases) /\ nextLabel \in Nat
  BY <1>1, CodeLabels
<1>7. Fresh(3, nextLabel) = {L(1), L(2), L(3)} /\ L(1) # L(2) /\ L(1) # L(3) /\ L(2) # L(3)
  BY <1>6, NewLabels
<1> HIDE DEF I
<1>8. LabelsAt(n.labels, cases) = {}
  BY <1>4, NoLabels
<1>9. PICK D : D = {L(1), L(2), L(3)}
  OBVIOUS
<1>10. ASSUME NEW s, NEW C, Stands(s, C)
       PROVE  \E s2 \in State : Regs(s2, C \cup D)' /\ Part(items, s2, s, D, I, I, {}, T, C \cup D, cases)
  <2> DEFINE m == Within(s, X)
  <2>1. L(1) \in C \cup D /\ L(2) \in C \cup D /\ L(3) \in C \cup D
    BY <1>9
  <2>2. s \in State /\ n.returns \subseteq s.rets
    BY <1>10 DEF Stands
  <2>3. m \in State /\ m.exp = 0 /\ m.exits = X /\ m.rets = s.rets
    BY <2>2, WithinState
  <2>4. Regs(m, C \cup D)'
    <3>1. depth'.exp = 0
      BY <1>1, <1>2 DEF EnterLoop
    <3> QED BY <1>1, <1>10, <2>1, <3>1, LoopRegs
  <2>5. Flat(RestoreLabels, m, s, T, C \cup D)
    BY <1>10, BackAgain
  <2> HIDE DEF m
  <2>6. Flat(AssertNoExp, m, m, T, C \cup D)
    BY <2>3, FlatAssert
  <2>7. ASSUME NEW y, y \in Seq(T.exprs)
        PROVE  Flat(AssertNoExp \o Data(y) \o DropExp, m, m, T, C \cup D)
    <3> DEFINE q == Data(y)
               k == Net(y, T)
    <3>1. Flat(q, m, At(m, k), T, C \cup D) /\ k \in Int
      BY <1>2, <2>3, <2>7, ExprsFlat
    <3> HIDE DEF q, k
    <3>2. Flat(DropExp, At(m, k), m, T, C \cup D)
      BY <2>3, <3>1, FlatDrop
    <3>3. Flat(AssertNoExp \o q, m, At(m, k), T, C \cup D)
      BY <2>6, <3>1, FlatJoin
    <3>4. Flat(AssertNoExp \o q \o DropExp, m, m, T, C \cup D)
      BY <3>2, <3>3, FlatJoin
    <3> QED BY <3>4 DEF q
  <2>8. Flat(AssertNoExp \o a \o DropExp, m, m, T, C \cup D) /\ Flat(AssertNoExp \o i \o DropExp, m, m, T, C \cup D)
    BY <1>3, <2>7
  <2>9. Flat(f, m, m, T, C \cup D)
    <3>1. Moves(m, m, 0)
      BY <2>3 DEF Moves
    <3> QED BY <2>1, <2>3, <3>1, FlatMoves DEF JMP
  <2>10. Flat(b, m, m, T, C \cup D)
    <3> DEFINE x == Ins("CONST", 1, 0, 0, 1)
               y == JZ(L(2))
               z == x \o y
               w == Data(Node.cond) \o JZ(L(2))
    <3>1. Node.cond # <<>> => Flat(w, m, m, T, C \cup D)
      BY <1>2, <1>3, <2>1, <2>3, FlatTest DEF OptBlock
    <3>2. Flat(z, m, m, T, C \cup D)
      <4>1. Flat(x, At(m, 0), At(m, 1), T, C \cup D) /\ Flat(y, At(m, 1), At(m, 0), T, C \cup D)
        BY <2>1, <2>3, FlatUpDown DEF JZ
      <4>2. At(m, 0) = m
        BY <2>3, AtZero
      <4> HIDE DEF x, y
      <4> QED BY <4>1, <4>2, FlatJoin
    <3> HIDE DEF z, w
    <3>3. Flat(<<>>, m, m, T, C \cup D) /\ Flat(When(~prog.opt, z), m, m, T, C \cup D)
      BY <2>3, <3>2, FlatNone, FlatWhen
    <3>4. CASE Node.cond = <<>>
      <4>1. b = When(~prog.opt, z)
        BY <3>4 DEF ForTest, z
      <4> QED BY <3>3, <4>1
    <3>5. CASE Node.cond # <<>> /\ CondValue(Node.cond) = -1
      <4>1. b = w
        BY <3>5 DEF ForTest, w
      <4> QED BY <3>1, <3>5, <4>1
    <3>6. CASE Node.cond # <<>> /\ CondValue(Node.cond) # -1
      <4>1. b = <<>>
        BY <3>6 DEF ForTest
      <4> QED BY <3>3, <4>1
    <3> QED BY <3>4, <3>5, <3>6
  <2>11. Part(c, m, m, {}, I, I, {}, T, C \cup D, cases)
    <3>1. /\ OfBlock(Node.body, T, "exits") \subseteq m.exits
          /\ OfBlock(Node.body, T, "returns") \subseteq m.rets
      BY <1>4, <1>5, <2>2, <2>3
    <3>2. Part(d, m, m, {}, I, I, {}, T, C \cup D, cases)
      BY <1>2, <1>4, <1>6, <2>3, <3>1, HiddenPart DEF I
    <3>3. Part(<<>>, m, m, {}, {}, {}, {}, T, C \cup D, cases)
      BY <2>3, FlatNone, FlatPart
    <3>4. Part(<<>>, m, m, {}, I, I, {}, T, C \cup D, cases)
      BY <3>3, PartMore
    <3> HIDE DEF d
    <3> QED BY <3>2, <3>4 DEF When
  <2> DEFINE p == AssertNoExp \o a \o DropExp
             q == AssertNoExp \o i \o DropExp
  <2>12. Flat(e, m, m, T, C \cup D)
    <3>1. g = q \o f
      OBVIOUS
    <3>2. Flat(p, m, m, T, C \cup D) /\ Flat(q, m, m, T, C \cup D)
      BY <2>8
    <3> HIDE DEF p, q, f, g
    <3>3. Flat(g, m, m, T, C \cup D)
      BY <2>9, <3>1, <3>2, FlatJoin
    <3> QED BY <2>3, <3>3, FlatWhen
  <2>13. Flat(p, m, m, T, C \cup D)
    BY <2>8
  <2>14. items = p \o Resolve(L(1)) \o b \o c \o Resolve(L(3)) \o e \o Resolve(L(2)) \o RestoreLabels
    OBVIOUS
  <2> HIDE DEF p, b, c, e, items
  <2>15. Part(p, m, m, {}, {}, {}, {}, T, C \cup D, cases)
    BY <2>13, FlatPart
  <2>16. Part(p \o Resolve(L(1)), m, m, {} \cup {L(1)}, {}, {}, {}, T, C \cup D, cases)
    BY <2>3, <2>15, AddLabel
  <2>17. Part(p \o Resolve(L(1)) \o b, m, m, {} \cup {L(1)}, {}, {}, {}, T, C \cup D, cases)
    BY <2>10, <2>16, AddFlat
  <2>18. Part(p \o Resolve(L(1)) \o b \o c, m, m, {L(1)}, I, I, {}, T, C \cup D, cases)
    <3>1. {} \cup {L(1)} = {L(1)} /\ {L(1)} \cup {} = {L(1)} /\ {} \cup I = I
      OBVIOUS
    <3>2. Part(p \o Resolve(L(1)) \o b, m, m, {L(1)}, {}, {}, {}, T, C \cup D, cases)
      BY <2>17, <3>1
    <3>3. Part(p \o Resolve(L(1)) \o b \o c, m, m, {L(1)} \cup {}, {} \cup I, {} \cup I, {}, T, C \cup D, cases)
      BY <2>11, <3>2, PartJoin
    <3> QED BY <3>1, <3>3
  <2>19. Part(p \o Resolve(L(1)) \o b \o c \o Resolve(L(3)), m, m, {L(1)} \cup {L(3)}, I, I, {}, T, C \cup D, cases)
    <3>1. L(3) \notin {L(1)}
      BY <1>7
    <3> QED BY <2>3, <2>18, <3>1, AddLabel
  <2>20. Part(p \o Resolve(L(1)) \o b \o c \o Resolve(L(3)) \o e, m, m, {L(1)} \cup {L(3)}, I, I, {},
              T, C \cup D, cases)
    BY <2>12, <2>19, AddFlat
  <2>21. L(2) \notin {L(1)} \cup {L(3)} /\ {L(1)} \cup {L(3)} \cup {L(2)} = D
    BY <1>7, <1>9
  <2>22. Part(p \o Resolve(L(1)) \o b \o c \o Resolve(L(3)) \o e \o Resolve(L(2)), m, m,
              {L(1)} \cup {L(3)} \cup {L(2)}, I, I, {}, T, C \cup D, cases)
    BY <2>3, <2>20, <2>21, AddLabel
  <2>23. Part(items, m, s, D, I, I, {}, T, C \cup D, cases)
    BY <2>5, <2>14, <2>21, <2>22, AddFlat
  <2> QED BY <2>3, <2>4, <2>23
<1> HIDE DEF items
<1>11. /\ LabelsAt(n.labels, cases) \subseteq D
       /\ D \subseteq LabelsAt(n.labels, cases) \cup Fresh(3, nextLabel)
       /\ I \subseteq n.ids \ n.labels
       /\ D \subseteq Fresh(3, nextLabel) /\ (ContinuesPlaced => D \subseteq D)
  BY <1>4, <1>7, <1>8, <1>9
<1>12. cases' = cases /\ (NoError' => NoError)
  BY <1>1 DEF EnterLoop, NoError
<1> QED BY <1>1, <1>4, <1>10, <1>11, <1>12, StmtAdvance

LEMMA KeepDo ==
    ASSUME CodeInv, CodeDo
    PROVE  CodeInv'
<1> DEFINE n == T.about[Node]
           tested == CondValue(Node.cond) # 1 /\ CondValue(Node.cond) # 0
           goes == tested \/ "continue" \in OfBlock(Node.body, T, "exits")
           d == Data(Node.body)
           x == Data(Node.cond) \o JNZ(L(1))
           w == Data(Node.cond) \o JZ(L(2))
           y == w \o JMP(L(1))
           z == Data(Node.cond) \o (IF prog.opt THEN JNZ(L(1)) ELSE JZ(L(2)) \o JMP(L(1)))
           b == DoTest(Node)
           items == Resolve(L(1)) \o d \o b \o Resolve(L(2)) \o RestoreLabels
           I == OfBlock(Node.body, T, "ids")
           P == {L(1), L(2)} \cup IF tested THEN {L(3)} ELSE {}
<1>1. /\ Doing("code") /\ Node.op = "Do" /\ Node.op \in BlockOps \ {"Stmt", "Case", "Default"}
      /\ Node.op \in StmtOps \ {"Decl", "End"} /\ Node.op \in BlockOps
      /\ EnterLoop(L(2), L(3)) /\ TakeApart(3, items)
  BY DEF CodeDo, Coding, Node, StmtOps, BlockOps
<1>2. PCodeOK(T) /\ Statement(Node, n, T) /\ depth.exp = 0 /\ Node \in DOMAIN T.about
  BY <1>1, StmtHead
<1>3. /\ ExprBlock(Node.cond, 1, T) /\ Inside(Node.body, n, T)
  BY <1>1, <1>2 DEF Statement
<1>4. /\ Hidden(Node.body, T, cases) /\ n.labels = {} /\ I \subseteq n.ids
      /\ OfBlock(Node.body, T, "returns") \subseteq n.returns
  BY <1>1, <1>3, InsideHidden
<1>5. OfBlock(Node.body, T, "exits") \subseteq {"break", "continue"}
  BY <1>2, BlockExits
<1>6. Injective(cases) /\ nextLabel \in Nat
  BY <1>1, CodeLabels
<1>7. Fresh(3, nextLabel) = {L(1), L(2), L(3)} /\ L(1) # L(2) /\ L(1) # L(3) /\ L(2) # L(3)
  BY <1>6, NewLabels
<1>8. LabelsAt(n.labels, cases) = {}
  BY <1>4, NoLabels
<1>9. PICK D : D = {L(1), L(2)} \cup IF goes THEN {L(3)} ELSE {}
  OBVIOUS
<1>10. PICK X : X = {"break"} \cup IF goes THEN {"continue"} ELSE {}
  OBVIOUS
<1>11. ContinuesPlaced => D \subseteq P
  <2> SUFFICES ASSUME ContinuesPlaced, ~tested PROVE "continue" \notin OfBlock(Node.body, T, "exits")
    BY <1>9
  <2>1. prog.opt /\ IsSimpleConstant(Node.cond)
    BY DEF CondValue
  <2>2. prog \in Programs
    BY DEF CodeInv
  <2> QED BY <1>1, <1>2, <2>1, <2>2 DEF ContinuesPlaced, T
<1>12. OfBlock(Node.body, T, "exits") \subseteq X /\ X \subseteq {"break", "continue"}
  BY <1>5, <1>10
<1> HIDE DEF I
<1>13. ASSUME NEW s, NEW C, Stands(s, C)
       PROVE  \E s2 \in State : Regs(s2, C \cup D)' /\ Part(items, s2, s, P, I, I, {}, T, C \cup D, cases)
  <2> DEFINE m == Within(s, X)
  <2>1. L(1) \in C \cup D /\ L(2) \in C \cup D /\ ("continue" \in X => L(3) \in C \cup D)
    BY <1>9, <1>10
  <2>2. s \in State /\ n.returns \subseteq s.rets
    BY <1>13 DEF Stands
  <2>3. m \in State /\ m.exp = 0 /\ m.exits = X /\ m.rets = s.rets
    BY <1>12, <2>2, WithinState
  <2>4. Regs(m, C \cup D)'
    <3>1. depth'.exp = 0
      BY <1>1, <1>2 DEF EnterLoop
    <3> QED BY <1>1, <1>12, <1>13, <2>1, <3>1, LoopRegs
  <2>5. Flat(RestoreLabels, m, s, T, C \cup D)
    BY <1>12, <1>13, BackAgain
  <2> HIDE DEF m
  <2>6. Part(d, m, m, {}, I, I, {}, T, C \cup D, cases)
    <3>1. /\ OfBlock(Node.body, T, "exits") \subseteq m.exits
          /\ OfBlock(Node.body, T, "returns") \subseteq m.rets
      BY <1>4, <1>12, <2>2, <2>3
    <3> QED BY <1>2, <1>4, <1>6, <2>3, <3>1, HiddenPart DEF I
  <2>7. Flat(x, m, m, T, C \cup D) /\ Flat(w, m, m, T, C \cup D) /\ Flat(JMP(L(1)), m, m, T, C \cup D)
    BY <1>2, <1>3, <2>1, <2>3, FlatTest
  <2>8. Flat(z, m, m, T, C \cup D)
    <3>1. CASE prog.opt
      <4>1. z = x
        BY <3>1
      <4> QED BY <2>7, <4>1
    <3>2. CASE ~prog.opt
      <4>1. z = Data(Node.cond) \o (JZ(L(2)) \o JMP(L(1)))
        BY <3>2
      <4>2. y = z
        <5>1. IsSeq(Data(Node.cond))
          <6>1. Len(Node.cond) \in Nat
            BY <1>3 DEF ExprBlock
          <6> QED BY <6>1, DataItems
        <5>2. IsSeq(JZ(L(2))) /\ IsSeq(JMP(L(1)))
          BY SeqOne DEF JZ, JMP, Jump
        <5>3. y = (Data(Node.cond) \o JZ(L(2))) \o JMP(L(1))
          OBVIOUS
        <5> HIDE DEF y, z, w
        <5> QED BY <4>1, <5>1, <5>2, <5>3, ThreeSeqs
      <4> HIDE DEF z, w
      <4>3. Flat(y, m, m, T, C \cup D)
        BY <2>7, FlatJoin
      <4> QED BY <4>2, <4>3
    <3> QED BY <3>1, <3>2
  <2> HIDE DEF x, w, y, z, d
  <2>9. Part(Resolve(L(1)), m, m, {L(1)}, {}, {}, {}, T, C \cup D, cases)
    BY <2>3, OneLabel
  <2>10. Part(Resolve(L(1)) \o d, m, m, {L(1)}, I, I, {}, T, C \cup D, cases)
    <3>1. {L(1)} \cup {} = {L(1)} /\ {} \cup I = I
      OBVIOUS
    <3>2. Part(Resolve(L(1)) \o d, m, m, {L(1)} \cup {}, {} \cup I, {} \cup I, {}, T, C \cup D, cases)
      BY <2>6, <2>9, PartJoin
    <3> QED BY <3>1, <3>2
  <2>11. Part(Resolve(L(1)) \o d \o b, m, m, P \ {L(2)}, I, I, {}, T, C \cup D, cases)
    <3>1. CASE tested
      <4>1. b = Resolve(L(3)) \o Data(Node.cond) \o (IF prog.opt THEN JNZ(L(1)) ELSE JZ(L(2)) \o JMP(L(1)))
        BY <3>1 DEF DoTest
      <4> DEFINE r == Resolve(L(3))
                 dc == Data(Node.cond)
                 tl == IF prog.opt THEN JNZ(L(1)) ELSE JZ(L(2)) \o JMP(L(1))
      <4>2. b = (r \o dc) \o tl /\ z = dc \o tl
        BY <4>1 DEF z
      <4>3. IsSeq(r) /\ IsSeq(dc) /\ IsSeq(tl)
        <5>1. IsSeq(r)
          BY SeqOne DEF Resolve
        <5>2. IsSeq(dc)
          <6>1. Len(Node.cond) \in Nat
            BY <1>3 DEF ExprBlock
          <6> QED BY <6>1, DataItems
        <5>3. IsSeq(JNZ(L(1))) /\ IsSeq(JZ(L(2))) /\ IsSeq(JMP(L(1)))
          BY SeqOne DEF JNZ, JZ, JMP, Jump
        <5>4. IsSeq(JZ(L(2)) \o JMP(L(1)))
          BY <5>3, SeqConcat
        <5> QED BY <5>1, <5>2, <5>3, <5>4
      <4> HIDE DEF r, dc, tl
      <4>4. b = r \o z
        BY <4>2, <4>3, ThreeSeqs
      <4>5. Part(r, m, m, {L(3)}, {}, {}, {}, T, C \cup D, cases)
        BY <2>3, OneLabel DEF r
      <4>6. Part(b, m, m, {L(3)}, {}, {}, {}, T, C \cup D, cases)
        BY <2>8, <4>4, <4>5, AddFlat
      <4>7. {L(1)} \cap {L(3)} = {} /\ {L(1)} \cup {L(3)} = P \ {L(2)} /\ I \cup {} = I /\ I \cap {} = {}
        BY <1>7, <3>1
      <4> HIDE DEF P, b
      <4>8. Part(Resolve(L(1)) \o d \o b, m, m, {L(1)} \cup {L(3)}, I \cup {}, I \cup {}, {}, T, C \cup D, cases)
        BY <2>10, <4>6, <4>7, PartJoin
      <4> QED BY <4>7, <4>8
    <3>2. CASE ~tested
      <4>1. Flat(b, m, m, T, C \cup D)
        <5>1. CASE CondValue(Node.cond) = 1
          <6>1. b = JMP(L(1))
            BY <5>1 DEF DoTest
          <6> QED BY <2>7, <6>1
        <5>2. CASE CondValue(Node.cond) # 1
          <6>1. b = <<>>
            BY <3>2, <5>2 DEF DoTest
          <6> QED BY <2>3, <6>1, FlatNone
        <5> QED BY <5>1, <5>2
      <4>2. P \ {L(2)} = {L(1)}
        BY <1>7, <3>2
      <4> HIDE DEF b, P
      <4> QED BY <2>10, <4>1, <4>2, AddFlat
    <3> QED BY <3>1, <3>2
  <2> HIDE DEF b
  <2>12. L(2) \notin P \ {L(2)} /\ (P \ {L(2)}) \cup {L(2)} = P
    OBVIOUS
  <2> HIDE DEF P
  <2>13. Part(Resolve(L(1)) \o d \o b \o Resolve(L(2)), m, m, (P \ {L(2)}) \cup {L(2)}, I, I, {}, T, C \cup D, cases)
    BY <2>3, <2>11, <2>12, AddLabel
  <2>14. Part(items, m, s, P, I, I, {}, T, C \cup D, cases)
    BY <2>5, <2>12, <2>13, AddFlat
  <2> QED BY <2>3, <2>4, <2>14
<1> HIDE DEF items
<1>14. /\ LabelsAt(n.labels, cases) \subseteq P
       /\ P \subseteq LabelsAt(n.labels, cases) \cup Fresh(3, nextLabel)
       /\ I \subseteq n.ids \ n.labels
       /\ D \subseteq Fresh(3, nextLabel)
  BY <1>4, <1>7, <1>8, <1>9
<1>15. cases' = cases /\ (NoError' => NoError)
  BY <1>1 DEF EnterLoop, NoError
<1> HIDE DEF P
<1> QED BY <1>1, <1>4, <1>11, <1>13, <1>14, <1>15, StmtAdvance

LEMMA KeepSwitch ==
    ASSUME CodeInv, CodeSwitch
    PROVE  CodeInv'
<1> DEFINE n == T.about[Node]
           a == Data(Node.cond)
           b == Scan(Node.body)
           x == [do |-> "jmpdefault", end |-> L(1)]
           c == Adjust(1, -1, 0)
           d == Data(Node.body)
           e == MOVSP(1, -1, 0)
           items == a \o b \o <<x>> \o c \o d \o Resolve(L(1)) \o e \o RestoreLabels
           I == OfBlock(Node.body, T, "ids")
           V == OfBlock(Node.body, T, "labels")
<1>1. /\ Doing("code") /\ Node.op = "Switch" /\ Node.op \in BlockOps \ {"Stmt", "Case", "Default"}
      /\ Node.op \in StmtOps \ {"Decl", "End"} /\ Node.op \in BlockOps
      /\ TakeApart(1, items) /\ brk'.label = L(1) /\ default' = NoLabel
      /\ UNCHANGED <<depth, fn, cont, cases, messages>>
  BY DEF CodeSwitch, Coding, Node, StmtOps, BlockOps
<1>2. PCodeOK(T) /\ Statement(Node, n, T) /\ depth.exp = 0
  BY <1>1, StmtHead
<1>3. /\ ExprBlock(Node.cond, 1, T) /\ Inside(Node.body, n, T)
      /\ OfBlock(Node.body, T, "exits") \ {"break"} \subseteq n.exits
  BY <1>1, <1>2 DEF Statement
<1>4. /\ Hidden(Node.body, T, cases) /\ n.labels = {} /\ I \subseteq n.ids
      /\ OfBlock(Node.body, T, "returns") \subseteq n.returns
  BY <1>1, <1>3, InsideHidden
<1>5. Injective(cases) /\ nextLabel \in Nat
  BY <1>1, CodeLabels
<1>6. Fresh(1, nextLabel) = {L(1)}
  BY <1>5, NewLabels
<1>7. LabelsAt(n.labels, cases) = {}
  BY <1>4, NoLabels
<1>8. V \subseteq I
  BY <1>2, BlockLabels
<1>9. StmtBlock(Node.body, T) /\ CaseLabels(Node.body, T, cases) = {}
  <2>1. V \cap DOMAIN cases = {}
    BY <1>4, <1>8 DEF Hidden
  <2>2. LabelsAt(V, cases) = {}
    BY <2>1, LabelsAtMember
  <2> QED BY <1>4, <2>2 DEF CaseLabels, Hidden
<1> HIDE DEF I, V
<1>10. PICK D : D = {L(1)}
  OBVIOUS
<1>11. ASSUME NEW s, NEW C, Stands(s, C)
       PROVE  \E s2 \in State : Regs(s2, C \cup D)' /\ Part(items, s2, s, D, I, I, {}, T, C \cup D, cases)
  <2> DEFINE X == s.exits \cup {"break"}
             m == Within(s, X)
  <2>1. L(1) \in C \cup D
    BY <1>10
  <2>2. s \in State /\ n.returns \subseteq s.rets /\ n.exits \subseteq s.exits /\ Regs(s, C)
    BY <1>11 DEF Stands
  <2>3. X \subseteq {"break", "continue"}
    BY <2>2 DEF State
  <2> HIDE DEF X
  <2>4. m \in State /\ m.exp = 0 /\ m.exits = X /\ m.rets = s.rets
    BY <2>2, <2>3, WithinState
  <2>5. Flat(RestoreLabels, m, s, T, C \cup D)
    BY <1>11, <2>3, BackAgain
  <2> HIDE DEF m
  <2>6. Regs(m, C \cup D)'
    <3>1. "continue" \in m.exits => cont.label \in C
      BY <2>2, <2>4 DEF X, Regs
    <3>2. m.rets \subseteq {fn.ret} /\ (m.rets # {} => fn.return \in C)
      BY <2>2, <2>4 DEF Regs
    <3> QED BY <1>1, <1>2, <2>1, <2>4, <3>1, <3>2 DEF Regs
  <2>7. /\ OfBlock(Node.body, T, "exits") \subseteq m.exits
        /\ OfBlock(Node.body, T, "returns") \subseteq m.rets
    <3>1. OfBlock(Node.body, T, "exits") \subseteq X
      BY <1>3, <2>2 DEF X
    <3> QED BY <1>4, <2>2, <2>4, <3>1
  <2>8. Part(d, m, m, {}, I, I \ V, {}, T, C \cup D, cases)
    BY <1>2, <1>5, <1>9, <2>4, <2>7, BlockPart DEF I, V
  <2> DEFINE h == At(m, 1)
  <2>9. Flat(a, m, h, T, C \cup D)
    BY <1>2, <1>3, <2>4, ExprFlat
  <2>10. h \in State /\ At(m, 0) = m
    BY <2>4, AtState, AtZero
  <2>11. Part(b, h, h, {}, {}, V, V, T, C \cup D, cases)
    BY <1>2, <1>9, <2>10, ScanPart DEF V
  <2>12. Flat(<<x>>, h, h, T, C \cup D)
    <3>1. x.do = "jmpdefault" /\ x.end = L(1)
      OBVIOUS
    <3>2. Moves(h, h, 0)
      BY <2>10 DEF Moves, State
    <3> HIDE DEF x, h
    <3>3. Step(x, h, h, T, C \cup D) /\ Bare(x, T)
      BY <2>1, <3>1, <3>2 DEF Step, Kinds, Bare
    <3> QED BY <2>10, <3>3, FlatOne
  <2>13. Flat(c, h, m, T, C \cup D)
    <3>1. ASSUME NEW y, NEW k \in State PROVE Flat(Adjust(y, -1, 0), At(k, 1), At(k, 0), T, C \cup D)
      <4> DEFINE o == 1
                 p == -1
                 q == 0
      <4>1. o \in Int /\ p \in Int /\ q \in Int /\ q = o + p
        OBVIOUS
      <4> HIDE DEF o, p, q
      <4>2. Flat(Adjust(y, p, 0), At(k, o), At(k, q), T, C \cup D)
        BY <4>1, FlatAdjust
      <4> QED BY <4>2 DEF o, p, q
    <3> QED BY <2>4, <2>10, <3>1
  <2>14. Flat(e, m, m, T, C \cup D)
    BY <2>4, FlatPop
  <2> HIDE DEF a, b, c, d, e, x, h
  <2>15. Part(a \o b, m, h, {}, {}, V, V, T, C \cup D, cases)
    BY <2>9, <2>11, PreFlat
  <2>16. Part(a \o b \o <<x>>, m, h, {}, {}, V, V, T, C \cup D, cases)
    BY <2>12, <2>15, AddFlat
  <2>17. Part(a \o b \o <<x>> \o c, m, m, {}, {}, V, V, T, C \cup D, cases)
    BY <2>13, <2>16, AddFlat
  <2>18. Part(a \o b \o <<x>> \o c \o d, m, m, {}, I, I, {}, T, C \cup D, cases)
    <3>1. {} \cup {} = {} /\ {} \cup I = I /\ V \cup (I \ V) = I /\ V \cap (I \ V) = {}
      BY <1>8 DEF I, V
    <3>2. \A id \in V : Found(d, id, T)
      BY <1>2, <1>9, BlockHolds DEF V, d
    <3>3. Part(a \o b \o <<x>> \o c \o d, m, m, {} \cup {}, {} \cup I, V \cup (I \ V), {}, T, C \cup D, cases)
      BY <2>8, <2>17, <3>1, <3>2, PartJoin
    <3> QED BY <3>1, <3>3
  <2>19. Part(a \o b \o <<x>> \o c \o d \o Resolve(L(1)), m, m, {} \cup {L(1)}, I, I, {}, T, C \cup D, cases)
    BY <2>4, <2>18, AddLabel
  <2>20. {} \cup {L(1)} = D
    BY <1>10
  <2>21. Part(a \o b \o <<x>> \o c \o d \o Resolve(L(1)) \o e, m, m, D, I, I, {}, T, C \cup D, cases)
    BY <2>14, <2>19, <2>20, AddFlat
  <2>22. Part(items, m, s, D, I, I, {}, T, C \cup D, cases)
    BY <2>5, <2>21, AddFlat
  <2> QED BY <2>4, <2>6, <2>22
<1> HIDE DEF items
<1>12. /\ LabelsAt(n.labels, cases) \subseteq D
       /\ D \subseteq LabelsAt(n.labels, cases) \cup Fresh(1, nextLabel)
       /\ I \subseteq n.ids \ n.labels
       /\ D \subseteq Fresh(1, nextLabel) /\ (ContinuesPlaced => D \subseteq D)
  BY <1>4, <1>6, <1>7, <1>10
<1>13. cases' = cases /\ (NoError' => NoError)
  BY <1>1 DEF NoError
<1> QED BY <1>1, <1>4, <1>11, <1>12, <1>13, StmtAdvance

-----------------------------------------------------------------------------
(* The other items that give way to what they stand for. *)

LEMMA ItemHead ==
    ASSUME CodeInv, NEW kind, Doing(kind)
    PROVE  /\ Head1.do = kind /\ work # <<>> /\ PCodeOK(T) /\ nextLabel \in Nat /\ Injective(cases)
           /\ \E C, s, v, u :
                /\ Here(C, s, v, u) /\ Step(Head1, s, v, T, C) /\ s \in State /\ v \in State
                /\ s.exp = depth.exp
<1>1. Head1.do = kind /\ work # <<>>
  BY DEF Doing
<1>2. PICK C, s, v, u : Here(C, s, v, u)
  BY <1>1, OpenWay
<1>3. Step(Head1, s, v, T, C) /\ s \in State /\ v \in State /\ s.exp = depth.exp
  BY <1>2 DEF Here, Regs
<1>4. nextLabel \in Nat /\ Injective(cases)
  BY DEF CodeInv, LabelsInv, LabelsOK
<1> QED BY <1>1, <1>2, <1>3, <1>4, TreeHolds

(* An item that neither places a label nor is a piece of PCode. *)
LEMMA ItemBare ==
    ASSUME Head1.do \in {"drop", "jmpdefault", "scan", "callentry", "global"}
    PROVE  ~Firm(Head1) /\ Places(Head1, T, cases) = {}
BY DEF Firm, Places

LEMMA KeepJumpToDefault ==
    ASSUME CodeInv, JumpToDefault
    PROVE  CodeInv'
<1> DEFINE l == IF default # NoLabel THEN default ELSE Head1.end
<1>1. Doing("jmpdefault") /\ TakeApart(0, JMP(l)) /\ Steady
  BY SteadyAll DEF JumpToDefault
<1>2. PICK C, s, v, u :
        /\ Here(C, s, v, u) /\ Step(Head1, s, v, T, C) /\ s \in State /\ v \in State
  BY <1>1, ItemHead
<1>3. Head1.do = "jmpdefault"
  BY <1>1, ItemHead
<1>4. Head1.end \in C /\ Moves(s, v, 0)
  BY <1>2, <1>3 DEF Step
<1>5. l \in C /\ Regs(s, C)
  BY <1>2, <1>4 DEF Here, Regs
<1> HIDE DEF l
<1>6. Flat(JMP(l), s, v, T, C)
  BY <1>2, <1>4, <1>5, FlatMoves DEF JMP
<1>7. Regs(s, C)'
  BY <1>1, <1>5, SameRegs DEF Steady
<1>8. ~Firm(Head1) /\ Places(Head1, T, cases) = {}
  BY <1>3, ItemBare
<1> QED BY <1>1, <1>2, <1>6, <1>7, <1>8, FlatAdvance DEF Steady

LEMMA KeepScanOther ==
    ASSUME CodeInv, ScanOther
    PROVE  CodeInv'
<1>1. Doing("scan") /\ TakeApart(0, <<>>) /\ Steady
  BY SteadyAll DEF ScanOther
<1>2. PICK C, s, v, u :
        /\ Here(C, s, v, u) /\ Step(Head1, s, v, T, C) /\ s \in State /\ v \in State
  BY <1>1, ItemHead
<1>3. Head1.do = "scan"
  BY <1>1, ItemHead
<1>4. v = s
  BY <1>2, <1>3, MovesAt, AtZero DEF Step
<1>5. Regs(s, C)
  BY <1>2 DEF Here
<1>6. Flat(<<>>, s, v, T, C)
  BY <1>2, <1>4, FlatNone
<1>7. Regs(s, C)'
  BY <1>1, <1>5, SameRegs DEF Steady
<1>8. ~Firm(Head1) /\ Places(Head1, T, cases) = {}
  BY <1>3, ItemBare
<1> QED BY <1>1, <1>2, <1>6, <1>7, <1>8, FlatAdvance DEF Steady

(* A statement CodeScanCase meets. *)
LEMMA ScanHead ==
    ASSUME CodeInv, Doing("scan"), Node.op \in {"Stmt", "Case", "Default"}
    PROVE  /\ Node \in DOMAIN T.about /\ Statement(Node, T.about[Node], T)
           /\ Unseen(Head1, T) = T.about[Node].labels /\ ScanLabels(Head1, T) = T.about[Node].labels
           /\ Places(Head1, T, cases) = {} /\ Ids(Head1, T) = {} /\ ~Firm(Head1)
           /\ Unseen(Head1, T) \cap DOMAIN cases = {}
<1>1. Head1.do = "scan" /\ work # <<>> /\ PCodeOK(T)
  BY ItemHead
<1>2. PICK C, s, v, u : Step(Head1, s, v, T, C)
  BY ItemHead
<1>3. Node \in T.exprs \cup DOMAIN T.about
  BY <1>1, <1>2 DEF Step, Node
<1>4. Node \in DOMAIN T.about
  BY <1>1, <1>3, ExprNode DEF ExprOps
<1>5. Statement(Node, T.about[Node], T) /\ Of(Node, T, "labels") = T.about[Node].labels
  BY <1>1, <1>4, StmtNode, OfStmt DEF StatementOK
<1>6. Unseen(Head1, T) = T.about[Node].labels /\ ScanLabels(Head1, T) = T.about[Node].labels
  <2>1. Unseen(Head1, T) = Of(Node, T, "labels")
    BY <1>1 DEF Unseen, Node
  <2>2. ScanLabels(Head1, T) = Of(Node, T, "labels")
    BY <1>1 DEF ScanLabels, Node
  <2> QED BY <1>5, <2>1, <2>2
<1>7. Places(Head1, T, cases) = {} /\ Ids(Head1, T) = {} /\ ~Firm(Head1)
  BY <1>1, ItemBare DEF Ids
<1>8. Unseen(Head1, T) \cap DOMAIN cases = {}
  <2>1. LabelsOK(work, linker, cases, nextLabel, T)
    BY DEF CodeInv, LabelsInv
  <2>2. 1 \in 1 .. Len(work)
    BY <1>1, <2>1, SeqTail, SeqLength DEF LabelsOK
  <2> QED BY <2>1, <2>2 DEF LabelsOK, Head1
<1> QED BY <1>4, <1>5, <1>6, <1>7, <1>8

LEMMA KeepScanStatement ==
    ASSUME CodeInv, ScanStatement
    PROVE  CodeInv'
<1> DEFINE items == Scan(Node.data)
           V == OfBlock(Node.data, T, "labels")
<1>1. Doing("scan") /\ Node.op = "Stmt" /\ TakeApart(0, items) /\ Steady
  BY SteadyAll DEF ScanStatement, Node
<1>2. PICK C, s, v, u :
        /\ Here(C, s, v, u) /\ Step(Head1, s, v, T, C) /\ s \in State /\ v \in State
  BY <1>1, ItemHead
<1>3. Head1.do = "scan" /\ PCodeOK(T)
  BY <1>1, ItemHead
<1>4. v = s
  BY <1>2, <1>3, MovesAt, AtZero DEF Step
<1>5. StmtBlock(Node.data, T) /\ V = T.about[Node].labels
  BY <1>1, ScanHead DEF Statement, Inside
<1>6. Regs(s, C)
  BY <1>2 DEF Here
<1>7. PICK D : D = {}
  OBVIOUS
<1>8. C \cup D = C /\ D \subseteq Fresh(0, nextLabel) /\ (ContinuesPlaced => D \subseteq D)
  BY <1>7
<1>9. Regs(s, C \cup D)'
  BY <1>1, <1>6, <1>8, SameRegs DEF Steady
<1>10. Part(items, s, v, D, {}, V, V, T, C \cup D, cases)
  <2>1. Part(items, s, s, {}, {}, V, V, T, C \cup D, cases)
    BY <1>2, <1>3, <1>5, ScanPart
  <2> QED BY <1>4, <1>7, <2>1
<1> HIDE DEF V, items
<1>11. Owns(D, {}, V, V, 0) /\ ~Firm(Head1)
  BY <1>1, <1>5, <1>7, ScanHead DEF Owns
<1>12. Kept(linker, linker', 0, nextLabel) /\ nextLabel' = nextLabel + 0 /\ Then(items) /\ prog' = prog
  BY <1>1, TakenApart
<1> QED BY <1>1, <1>2, <1>8, <1>9, <1>10, <1>11, <1>12, AdvanceInv DEF Steady

LEMMA KeepDropExpression ==
    ASSUME CodeInv, DropExpression
    PROVE  CodeInv'
<1> DEFINE items == MOVSP(depth.exp, 0, -depth.exp)
<1>1. /\ Doing("drop") /\ Then(items) /\ Steady /\ linker' = linker /\ nextLabel' = nextLabel
      /\ prog' = prog
  BY SteadyAll DEF DropExpression, linkerVars
<1>2. PICK C, s, v, u :
        /\ Here(C, s, v, u) /\ Step(Head1, s, v, T, C) /\ s \in State /\ v \in State
        /\ s.exp = depth.exp
  BY <1>1, ItemHead
<1>3. Head1.do = "drop"
  BY <1>1, ItemHead
<1>4. Moves(s, v, -depth.exp) /\ depth.exp \in Int
  BY <1>2, <1>3 DEF Step, State
<1>5. Flat(items, s, v, T, C)
  <2> DEFINE x == depth.exp
             d == -depth.exp
             o == 0
  <2>1. x \in Int /\ d \in Int /\ o \in Int /\ d = o + d /\ (x = 0 => d = 0)
    BY <1>4
  <2> HIDE DEF x, d, o
  <2>2. Flat(MOVSP(x, 0, d), At(s, o), At(s, d), T, C)
    BY <1>2, <2>1, FlatMOVSP
  <2>3. At(s, o) = s /\ At(s, d) = v
    BY <1>2, <1>4, <2>1, AtZero, MovesAt DEF d, o
  <2> QED BY <2>2, <2>3 DEF x, d
<1>6. PICK D : D = {}
  OBVIOUS
<1>7. C \cup D = C /\ D \subseteq Fresh(0, nextLabel) /\ (ContinuesPlaced => D \subseteq D)
  BY <1>6
<1>8. Regs(s, C \cup D)'
  BY <1>1, <1>2, <1>7, SameRegs DEF Steady, Here
<1> HIDE DEF items
<1>9. Part(items, s, v, D, {}, {}, {}, T, C \cup D, cases)
  BY <1>5, <1>6, <1>7, FlatPart
<1>10. Owns(D, {}, {}, {}, 0) /\ ~Firm(Head1)
  BY <1>3, <1>6, ItemBare DEF Owns
<1>11. Kept(linker, linker', 0, nextLabel) /\ nextLabel' = nextLabel + 0
  <2>1. nextLabel \in Nat
    BY <1>1, ItemHead
  <2>2. Fresh(0, nextLabel) = {}
    BY DEF Fresh
  <2> QED BY <1>1, <2>1, <2>2 DEF Kept
<1> QED BY <1>1, <1>2, <1>7, <1>8, <1>9, <1>10, <1>11, AdvanceInv DEF Steady

-----------------------------------------------------------------------------
(* Globals, and the end of #globals. *)

LEMMA OneItem ==
    ASSUME NEW x, NEW s \in State, NEW u \in State, NEW t, NEW C, NEW cs, Step(x, s, u, t, C),
           Places(x, t, cs) = {}, Ids(x, t) = {}, Unseen(x, t) = {}, ~Firm(x), x.do # "scan"
    PROVE  Part(<<x>>, s, u, {}, {}, {}, {}, t, C, cs)
<1>1. IsSeq(<<x>>) /\ Len(<<x>>) = 1 /\ <<x>>[1] = x
  BY SeqOne
<1>2. \A i \in 1 .. Len(<<x>>) : <<x>>[i] = x
  <2>1. \A i \in 1 .. Len(<<x>>) : i = 1
    BY <1>1
  <2> QED BY <1>1, <2>1
<1>3. PlacesOf(<<x>>, t, cs) = {} /\ IdsOf(<<x>>, t) = {} /\ UnseenOf(<<x>>, t) = {}
  BY <1>2 DEF PlacesOf, IdsOf, UnseenOf
<1>4. Apart(<<x>>, t, cs)
  BY <1>2 DEF Apart, Clear
<1>5. Pending(<<x>>, {}, t)
  BY <1>2 DEF Pending
<1>6. Leads(<<x>>, s, u, t, C)
  BY LeadsOne
<1> QED BY <1>1, <1>2, <1>3, <1>4, <1>5, <1>6 DEF Part, Shape

(* An item that gives way to items without labels of their own. *)
LEMMA PartAdvance ==
    ASSUME NEW C, NEW s \in State, NEW v, NEW u, Here(C, s, v, u), ~Firm(Head1),
           Places(Head1, T, cases) = {}, NEW items, TakeApart(0, items), Steady,
           Part(items, s, v, {}, {}, {}, {}, T, C, cases)
    PROVE  CodeInv'
<1>1. PICK D : D = {}
  OBVIOUS
<1>2. C \cup D = C /\ D \subseteq Fresh(0, nextLabel) /\ (ContinuesPlaced => D \subseteq D)
  BY <1>1
<1>3. Regs(s, C \cup D)'
  BY <1>2, SameRegs DEF Steady, Here
<1>4. Part(items, s, v, D, {}, {}, {}, T, C \cup D, cases)
  BY <1>1, <1>2
<1>5. Owns(D, {}, {}, {}, 0)
  BY <1>1 DEF Owns
<1>6. Kept(linker, linker', 0, nextLabel) /\ nextLabel' = nextLabel + 0 /\ Then(items) /\ prog' = prog
  BY TakenApart
<1> QED BY <1>2, <1>3, <1>4, <1>5, <1>6, AdvanceInv DEF Steady

LEMMA KeepGlobal ==
    ASSUME CodeInv, CodeGlobal
    PROVE  CodeInv'
<1> DEFINE g == Head1.pc
           post == g.init # <<>> /\ prog.optDecl /\ ~g.selfRef
           n == [op |-> "Decl", init |-> g.init, selfRef |-> g.selfRef]
           a == AssertNoExp
           b == When(~post, Adjust(0, 0, 1))
           c == When(post, Adjust(0, 0, 1))
           items == a \o b \o <<Code(n)>> \o c \o a
<1>1. Doing("global") /\ TakeApart(0, items) /\ Steady
  BY SteadyAll DEF CodeGlobal
<1>2. PICK C, s, v, u :
        /\ Here(C, s, v, u) /\ Step(Head1, s, v, T, C) /\ s \in State /\ v \in State
  BY <1>1, ItemHead
<1>3. Head1.do = "global" /\ PCodeOK(T)
  BY <1>1, ItemHead
<1>4. s.exp = 0 /\ OptBlock(g.init, 1, T) /\ v = s
  BY <1>2, <1>3, MovesAt, AtZero DEF Step
<1>5. n.op = "Decl" /\ n.init = g.init
  OBVIOUS
<1> DEFINE x == Code(n)
<1>6. x.do = "code" /\ x.pc = n
  BY DEF Code
<1> HIDE DEF n
<1> HIDE DEF x
<1>7. CodeStep(n, s, s, T, C)
  BY <1>2, <1>4, <1>5 DEF CodeStep, ExprOps, Made, Moves, State
<1>8. Step(x, s, s, T, C)
  BY <1>6, <1>7 DEF Step, Kinds
<1>9. Of(n, T, "ids") = {} /\ Of(n, T, "labels") = {}
  <2>1. CASE n \in DOMAIN T.about
    <3>1. StatementOK(n, T)
      BY <1>3, <2>1, StmtNode
    <3>2. T.about[n].ids = {} /\ T.about[n].labels = {}
      BY <1>5, <3>1 DEF StatementOK
    <3> QED BY <1>3, <2>1, <3>2, OfStmt
  <2>2. CASE n \notin DOMAIN T.about
    BY <2>2, OfOther
  <2> QED BY <2>1, <2>2
<1>10. Places(x, T, cases) = {} /\ Ids(x, T) = {} /\ Unseen(x, T) = {} /\ ~Firm(x) /\ x.do # "scan"
  BY <1>6, <1>9, NoLabels DEF Places, Ids, Unseen, Firm
<1>11. Part(<<x>>, s, s, {}, {}, {}, {}, T, C, cases)
  BY <1>2, <1>8, <1>10, OneItem
<1>12. Flat(a, s, s, T, C)
  BY <1>2, <1>4, FlatAssert
<1>13. Flat(Adjust(0, 0, 1), s, s, T, C)
  <2> DEFINE o == 0
  <2>1. o \in Int /\ o = o + o
    OBVIOUS
  <2> HIDE DEF o
  <2>2. Flat(Adjust(0, o, 1), At(s, o), At(s, o), T, C)
    BY <1>2, <2>1, FlatAdjust
  <2> QED BY <1>2, <2>2, AtZero DEF o
<1>14. Flat(b, s, s, T, C) /\ Flat(c, s, s, T, C)
  BY <1>2, <1>13, FlatWhen
<1>15. items = a \o b \o <<x>> \o c \o a
  BY DEF x
<1> HIDE DEF items, post, g
<1> HIDE DEF a, b, c
<1>16. Part(items, s, s, {}, {}, {}, {}, T, C, cases)
  <2>1. Flat(a \o b, s, s, T, C)
    BY <1>12, <1>14, FlatJoin
  <2>2. Part(a \o b \o <<x>>, s, s, {}, {}, {}, {}, T, C, cases)
    BY <1>11, <2>1, PreFlat
  <2>3. Part(a \o b \o <<x>> \o c, s, s, {}, {}, {}, {}, T, C, cases)
    BY <1>14, <2>2, AddFlat
  <2>4. Part(a \o b \o <<x>> \o c \o a, s, s, {}, {}, {}, {}, T, C, cases)
    BY <1>12, <2>3, AddFlat
  <2> QED BY <1>15, <2>4
<1>17. ~Firm(Head1) /\ Places(Head1, T, cases) = {}
  BY <1>3, ItemBare
<1> QED BY <1>1, <1>2, <1>4, <1>16, <1>17, PartAdvance

LEMMA KeepCallEntry ==
    ASSUME CodeInv, CodeCallEntry
    PROVE  CodeInv'
<1> DEFINE c == ~prog.isMain
           a1 == Ins("SAVEBP", 0, 0, 0, 0)
           up == Ins("RSADD", 0, 0, 0, 1)
           a2 == When(c, up)
           a3 == Jump("JSR", Fn(prog.entry), 0)
           copy == Ins("CPDOWNSP", depth.bp + 3, 1, 0, 0)
           down == MOVSP(1, 0, -1)
           a4 == When(c, copy \o down)
           a5 == Ins("RESTOREBP", 0, 0, 0, 0)
           a6 == MOVSP(depth.bp, -depth.bp, 0)
           a7 == Ins("RETN", 0, 0, 0, 0)
           items == a1 \o a2 \o a3 \o a4 \o a5 \o a6 \o a7
<1>1. Doing("callentry") /\ TakeApart(0, items) /\ Steady
  BY SteadyAll DEF CodeCallEntry
<1>2. PICK C, s, v, u :
        /\ Here(C, s, v, u) /\ Step(Head1, s, v, T, C) /\ s \in State /\ v \in State
  BY <1>1, ItemHead
<1>3. Head1.do = "callentry" /\ T.prog = prog
  BY <1>1, ItemHead DEF T, Tree
<1>4. Fn(prog.entry) \in C /\ v = s
  BY <1>2, <1>3, MovesAt, AtZero DEF Step
<1> DEFINE m == IF c THEN At(s, 1) ELSE s
<1>5. At(s, 1) \in State /\ At(s, 0) = s /\ m \in State
  BY <1>2, AtState, AtZero
<1>6. Moves(s, s, 0) /\ Moves(m, m, 0)
  <2> HIDE DEF m
  <2> QED BY <1>2, <1>5 DEF Moves, State
<1>7. Flat(a1, s, s, T, C) /\ Flat(a5, s, s, T, C) /\ Flat(a7, s, s, T, C)
  BY <1>2, <1>6, FlatMoves
<1>8. Flat(a3, m, m, T, C)
  BY <1>4, <1>5, <1>6, FlatMoves
<1>9. Flat(a6, s, s, T, C)
  BY <1>2, FlatPop
<1>10. Flat(up, s, At(s, 1), T, C)
  BY <1>2, <1>5, FlatUpDown
<1>11. Flat(a2, s, m, T, C)
  <2> HIDE DEF up
  <2>1. c => Flat(up, s, m, T, C)
    BY <1>10
  <2>2. ~c => s = m
    OBVIOUS
  <2> HIDE DEF m, c
  <2> QED BY <1>2, <1>5, <2>1, <2>2, FlatWhen
<1>12. Flat(copy \o down, At(s, 1), s, T, C)
  <2>1. Moves(At(s, 1), At(s, 1), 0) /\ Moves(At(s, 1), s, -1)
    BY <1>2, AtState DEF Moves, State
  <2>2. Flat(copy, At(s, 1), At(s, 1), T, C)
    BY <1>5, <2>1, FlatMoves
  <2>3. Flat(down, At(s, 1), s, T, C)
    <3>1. down = Ins("MOVSP", 1, 0, 0, -1)
      BY DEF MOVSP
    <3> QED BY <1>2, <1>5, <2>1, <3>1, FlatMoves
  <2> HIDE DEF copy, down
  <2> QED BY <2>2, <2>3, FlatJoin
<1>13. Flat(a4, m, s, T, C)
  <2> DEFINE both == copy \o down
  <2>1. c => Flat(both, m, s, T, C)
    BY <1>12
  <2>2. ~c => m = s
    OBVIOUS
  <2> HIDE DEF m, c, both
  <2>3. Flat(When(c, both), m, s, T, C)
    BY <1>2, <1>5, <2>1, <2>2, FlatWhen
  <2> QED BY <2>3 DEF both
<1> HIDE DEF m, c
<1>14. items = a1 \o a2 \o a3 \o a4 \o a5 \o a6 \o a7
  OBVIOUS
<1> HIDE DEF items
<1> HIDE DEF a1, a2, a3, a4, a5, a6, a7
<1>15. Flat(items, s, v, T, C)
  <2>1. Flat(a1 \o a2, s, m, T, C)
    BY <1>7, <1>11, FlatJoin
  <2>2. Flat(a1 \o a2 \o a3, s, m, T, C)
    BY <1>8, <2>1, FlatJoin
  <2>3. Flat(a1 \o a2 \o a3 \o a4, s, s, T, C)
    BY <1>13, <2>2, FlatJoin
  <2>4. Flat(a1 \o a2 \o a3 \o a4 \o a5, s, s, T, C)
    BY <1>7, <2>3, FlatJoin
  <2>5. Flat(a1 \o a2 \o a3 \o a4 \o a5 \o a6, s, s, T, C)
    BY <1>9, <2>4, FlatJoin
  <2>6. Flat(a1 \o a2 \o a3 \o a4 \o a5 \o a6 \o a7, s, s, T, C)
    BY <1>7, <2>5, FlatJoin
  <2> QED BY <1>4, <1>14, <2>6
<1>16. ~Firm(Head1) /\ Places(Head1, T, cases) = {}
  BY <1>3, ItemBare
<1>17. Regs(s, C)
  BY <1>2 DEF Here
<1>18. Regs(s, C)'
  BY <1>1, <1>17, SameRegs DEF Steady
<1> QED BY <1>1, <1>2, <1>15, <1>16, <1>18, FlatAdvance DEF Steady

LEMMA KeepBegin ==
    ASSUME CodeInv, BeginRoutine
    PROVE  CodeInv'
<1> DEFINE r == Head1.r
           b == r.body
           a == Data(b)
           c == MOVSP(r.args, -r.args, 0)
           e == Ins("RETN", 0, 0, 0, 0)
           items == a \o Resolve(L(1)) \o c \o e
           I == OfBlock(b, T, "ids")
<1>1. /\ Doing("begin") /\ TakeApart(1, items) /\ default' = default /\ cases' = cases
      /\ messages' = messages /\ fn'.ret = r.ret /\ fn'.return = L(1) /\ depth'.exp = 0
  BY DEF BeginRoutine
<1>2. PICK C, s, v, u :
        /\ Here(C, s, v, u) /\ Step(Head1, s, v, T, C) /\ s \in State /\ v \in State
  BY <1>1, ItemHead
<1>3. Head1.do = "begin" /\ PCodeOK(T) /\ nextLabel \in Nat /\ Injective(cases) /\ work # <<>>
  BY <1>1, ItemHead
<1>4. v = Ground /\ IsRoutine(r, T) /\ r.defined
  BY <1>2, <1>3 DEF Step
<1>5. BodyOf(r) = b
  BY <1>4 DEF BodyOf
<1>6. /\ StmtBlock(b, T) /\ OfBlock(b, T, "exits") = {}
      /\ OfBlock(b, T, "returns") \subseteq {r.ret}
  <2>1. PICK i \in 1 .. Len(T.prog.routines) : r = T.prog.routines[i]
    BY <1>4 DEF IsRoutine
  <2>2. RoutinesOK(T)
    BY <1>3 DEF PCodeOK
  <2> QED BY <1>4, <2>1, <2>2 DEF RoutinesOK
<1>7. OfBlock(b, T, "returns") \subseteq Int
  <2>1. T.about \in [DOMAIN T.about -> Facts]
    BY <1>3 DEF PCodeOK
  <2>2. \A i \in 1 .. Len(b) : Of(b[i], T, "returns") \subseteq Int
    BY <1>3, StmtNode, OfStmt, OfOther DEF Facts
  <2> QED BY <2>2 DEF OfBlock
<1>8. PICK s2 \in State : s2.exp = 0 /\ s2.exits = {} /\ s2.rets = OfBlock(b, T, "returns")
  <2> DEFINE z == [exp |-> 0, exits |-> {}, rets |-> OfBlock(b, T, "returns")]
  <2>1. z \in State /\ z.exp = 0 /\ z.exits = {} /\ z.rets = OfBlock(b, T, "returns")
    BY <1>6, <1>7 DEF State
  <2> QED BY <2>1
<1>9. Ids(Head1, T) = I /\ Unseen(Head1, T) = I /\ Places(Head1, T, cases) = {} /\ ~Firm(Head1)
  BY <1>3, <1>5 DEF Ids, Unseen, Places, Firm
<1>10. I \cap DOMAIN cases = {}
  <2>1. LabelsOK(work, linker, cases, nextLabel, T)
    BY DEF CodeInv, LabelsInv
  <2>2. 1 \in 1 .. Len(work)
    BY <1>3, <2>1, SeqTail, SeqLength DEF LabelsOK
  <2>3. Unseen(work[1], T) \cap DOMAIN cases = {}
    BY <2>1, <2>2 DEF LabelsOK
  <2> QED BY <1>9, <2>3 DEF Head1
<1>11. PICK D : D = {L(1)}
  OBVIOUS
<1>12. D \subseteq Fresh(1, nextLabel)
  BY <1>3, <1>11, NewLabels
<1>13. Part(items, s2, v, D, I, I, {}, T, C \cup D, cases)
  <2>1. Part(a, s2, s2, {}, I, I, {}, T, C \cup D, cases)
    <3>1. Hidden(b, T, cases)
      BY <1>6, <1>10 DEF Hidden
    <3> QED BY <1>3, <1>6, <1>8, <3>1, HiddenPart
  <2>2. Part(a \o Resolve(L(1)), s2, s2, {} \cup {L(1)}, I, I, {}, T, C \cup D, cases)
    BY <1>8, <2>1, AddLabel
  <2>3. {} \cup {L(1)} = D
    BY <1>11
  <2>4. Flat(c, s2, s2, T, C \cup D)
    BY <1>8, FlatPop
  <2>5. Flat(e, s2, Ground, T, C \cup D)
    <3> DEFINE i == [do |-> "ins", op |-> "RETN", a |-> 0, b |-> 0, dSP |-> 0, dExp |-> 0]
    <3>1. i.do = "ins" /\ i.op = "RETN" /\ i.dExp = 0 /\ e = <<i>>
      BY DEF Ins
    <3> HIDE DEF i
    <3>2. Step(i, s2, Ground, T, C \cup D) /\ Bare(i, T)
      BY <1>8, <3>1 DEF Step, Kinds, Bare, Ground
    <3>3. Ground \in State
      BY DEF Ground, State
    <3> QED BY <1>8, <3>1, <3>2, <3>3, FlatOne
  <2> HIDE DEF a, c, e, I
  <2>6. Part(a \o Resolve(L(1)), s2, s2, D, I, I, {}, T, C \cup D, cases)
    BY <2>2, <2>3
  <2>7. Part(a \o Resolve(L(1)) \o c, s2, s2, D, I, I, {}, T, C \cup D, cases)
    BY <2>4, <2>6, AddFlat
  <2>8. Part(a \o Resolve(L(1)) \o c \o e, s2, Ground, D, I, I, {}, T, C \cup D, cases)
    BY <2>5, <2>7, AddFlat
  <2> QED BY <1>4, <2>8
<1>14. Regs(s2, C \cup D)'
  <2>1. default = NoLabel \/ default \in C
    BY <1>2 DEF Here, Regs
  <2>2. L(1) \in C \cup D
    BY <1>11
  <2>3. s2.rets \subseteq {fn'.ret}
    BY <1>1, <1>6, <1>8
  <2> HIDE DEF r
  <2> QED BY <1>1, <1>8, <2>1, <2>2, <2>3 DEF Regs
<1> HIDE DEF items
<1>15. Kept(linker, linker', 1, nextLabel) /\ nextLabel' = nextLabel + 1 /\ Then(items) /\ prog' = prog
  BY <1>1, TakenApart
<1>16. Owns(D, I, I, {}, 1)
  BY <1>9, <1>12 DEF Owns
<1>17. NoError' => NoError
  BY <1>1 DEF NoError
<1> QED BY <1>1, <1>2, <1>8, <1>9, <1>12, <1>13, <1>14, <1>15, <1>16, <1>17, AdvanceInv

-----------------------------------------------------------------------------
(***************************************************************************)
(* Items that are done: the rest of the work goes on from there.           *)
(***************************************************************************)

(* The label table after an item: it keeps the places, gives none to a     *)
(* label another item places, and one to those the item places.            *)
Linked(C) ==
    /\ DOMAIN linker \subseteq DOMAIN linker'
    /\ \A l \in DOMAIN linker : linker[l].nOffset # 0 => linker'[l].nOffset # 0
    /\ \A l \in PlacesOf(Tail(work), T, cases) : l \in DOMAIN linker' => linker'[l].nOffset = 0
    /\ \A l \in DOMAIN linker' : l \in DOMAIN linker \/ NoOff(l)
    /\ \A l \in DOMAIN linker' : linker'[l].links # {} => l \in C
    /\ NoError' => \A l \in Places(Head1, T, cases) : l \in DOMAIN linker' /\ linker'[l].nOffset # 0

LEMMA PopInv ==
    ASSUME NEW C, NEW s, NEW v, NEW u, Here(C, s, v, u), Then(<<>>), prog' = prog, cases' = cases,
           nextLabel' = nextLabel, NoError' => NoError, Linked(C), Regs(v, C)'
    PROVE  CodeInv'
<1>1. T' = T
  BY DEF T
<1>2. LabelsOK(work, linker, cases, nextLabel, T) /\ work # <<>> /\ Known(C)
  BY DEF Here, LabelsInv
<1>3. IsSeq(work) /\ IsSeq(Tail(work)) /\ nextLabel \in Nat
  BY <1>2, SeqTail DEF LabelsOK
<1>4. work' = Tail(work)
  BY <1>3, ConcatEmptySeq DEF Then, IsSeq
<1>5. LabelsOK(Tail(work), linker, cases, nextLabel, T)
  BY <1>2, DropHead
<1>6. \A m \in Nat : Off(m) \in DOMAIN linker' => m < nextLabel
  BY <1>2 DEF LabelsOK, Linked, NoOff
<1>7. LabelsOK(Tail(work), linker', cases, nextLabel, T)
  BY <1>3, <1>5, <1>6, GrowLabels DEF Linked
<1>8. LabelsInv'
  BY <1>1, <1>4, <1>7 DEF LabelsInv
<1>9. Known(C)'
  <2>1. \A name \in Names(T) : Fn(name) \in C
    BY <1>2 DEF Known
  <2>2. \A l \in C : l \in DOMAIN linker' \/ NoOff(l)
    BY <1>2 DEF Known, Linked
  <2>3. \A l \in DOMAIN linker' : linker'[l].links # {} => l \in C
    BY DEF Linked
  <2>4. ASSUME ContinuesPlaced, NoError', NEW l \in C
        PROVE  PlacedIn(l, linker') \/ l \in PlacesOf(work', T, cases)
    <3>1. PlacedIn(l, linker) \/ l \in PlacesOf(work, T, cases)
      BY <1>2, <2>4 DEF Known
    <3>2. PlacesOf(work, T, cases) = Places(Head1, T, cases) \cup PlacesOf(work', T, cases)
      BY <1>2, <1>3, <1>4, HeadPlaces DEF Head1
    <3> QED BY <2>4, <3>1, <3>2 DEF Linked, PlacedIn
  <2> QED BY <1>1, <2>1, <2>2, <2>3, <2>4 DEF Known, PlacedIn
<1>10. Way(C)'
  <2>1. v \in State /\ u \in State /\ Leads(Tail(work), v, u, T, C)
    BY DEF Here
  <2> QED BY <1>1, <1>4, <1>9, <2>1 DEF Way
<1>11. prog' \in Programs
  BY DEF Here
<1> QED BY <1>8, <1>10, <1>11 DEF CodeInv

(* Nothing happens to the table. *)
LEMMA SameLinked ==
    ASSUME NEW C, NEW s, NEW v, NEW u, Here(C, s, v, u), linker' = linker,
           Places(Head1, T, cases) = {} \/ ~NoError'
    PROVE  Linked(C)
<1>1. LabelsOK(Tail(work), linker, cases, nextLabel, T)
  BY DropHead DEF Here, LabelsInv
<1>2. \A l \in PlacesOf(Tail(work), T, cases) : l \in DOMAIN linker => linker[l].nOffset = 0
  BY <1>1, SomewherePlaced
<1>3. \A l \in DOMAIN linker : linker[l].links # {} => l \in C
  BY DEF Here, Known
<1> QED BY <1>2, <1>3 DEF Linked

(* The next state on the way, where the registers stay as they are. *)
LEMMA MoveRegs ==
    ASSUME NEW s \in State, NEW v \in State, NEW C, NEW d, Moves(s, v, d), Regs(s, C),
           depth'.exp = depth.exp + d, UNCHANGED <<fn, brk, cont, default>>
    PROVE  Regs(v, C)'
BY DEF Moves, Regs

LEMMA GroundRegs ==
    ASSUME NEW s, NEW C, Regs(s, C), depth'.exp = 0, default' = default
    PROVE  Regs(Ground, C)'
BY DEF Ground, Regs

(* Placing a label. *)
LEMMA PlacedLinked ==
    ASSUME NEW C, NEW s, NEW v, NEW u, Here(C, s, v, u), LinkerInv, NEW l, PlaceLabel(l),
           Places(Head1, T, cases) = {l}
    PROVE  Linked(C)
<1>1. LabelsOK(work, linker, cases, nextLabel, T) /\ work # <<>>
  BY DEF Here, LabelsInv
<1>2. LabelsOK(Tail(work), linker, cases, nextLabel, T) /\ Beyond(work[1], Tail(work), T, cases)
  BY <1>1, DropHead
<1>3. l \notin PlacesOf(Tail(work), T, cases)
  BY <1>2, BeyondAll DEF Head1
<1>4. DOMAIN linker' = DOMAIN linker \cup {l} /\ \A k \in DOMAIN linker : k # l => linker'[k] = linker[k]
  BY DEF PlaceLabel, Store
<1>5. linker'[l].nOffset = out /\ linker'[l].links = EntryOf(l).links /\ l \in DOMAIN linker'
  <2>1. linker'[l] = [EntryOf(l) EXCEPT !.nOffset = out]
    BY DEF PlaceLabel, Store
  <2>2. EntryOf(l) \in Entry
    BY EntryOfType
  <2> QED BY <1>4, <2>1, <2>2 DEF Entry
<1>6. out # 0
  BY LinkerAssumption DEF LinkerInv, LinkerTypeOK
<1>7. \A k \in PlacesOf(Tail(work), T, cases) : k \in DOMAIN linker' => linker'[k].nOffset = 0
  BY <1>2, <1>3, <1>4, SomewherePlaced
<1>8. l \in DOMAIN linker \/ NoOff(l)
  <2>1. 1 \in 1 .. Len(work)
    BY <1>1, SeqTail, SeqLength DEF LabelsOK
  <2>2. Sits(Head1, linker, cases, T)
    BY <1>1, <2>1 DEF LabelsOK, Head1
  <2> QED BY <2>2 DEF Sits
<1>9. \A k \in DOMAIN linker : linker[k].links # {} => k \in C
  BY DEF Here, Known
<1>10. EntryOf(l).links # {} => l \in C
  BY <1>9 DEF EntryOf, Undefined
<1> QED BY <1>4, <1>5, <1>6, <1>7, <1>8, <1>9, <1>10 DEF Linked

(* A jump to a label. *)
LEMMA ReferencedLinked ==
    ASSUME NEW C, NEW s, NEW v, NEW u, Here(C, s, v, u), LinkerInv, NEW l \in C, ReferenceLabel(l),
           Places(Head1, T, cases) = {}
    PROVE  Linked(C)
<1>1. LabelsOK(Tail(work), linker, cases, nextLabel, T)
  BY DropHead DEF Here, LabelsInv
<1>2. \A k \in PlacesOf(Tail(work), T, cases) : k \in DOMAIN linker => linker[k].nOffset = 0
  BY <1>1, SomewherePlaced
<1>3. DOMAIN linker' = DOMAIN linker \cup {l} /\ \A k \in DOMAIN linker : k # l => linker'[k] = linker[k]
  BY DEF ReferenceLabel, Store
<1>4. l \in DOMAIN linker' /\ linker'[l].nOffset = EntryOf(l).nOffset
  <2>1. linker'[l] = IF EntryOf(l).nOffset # 0 THEN EntryOf(l)
                     ELSE [EntryOf(l) EXCEPT !.links = @ \cup {out}]
    BY DEF ReferenceLabel, Store
  <2>2. EntryOf(l) \in Entry
    BY EntryOfType
  <2> QED BY <1>3, <2>1, <2>2 DEF Entry
<1>5. /\ l \in DOMAIN linker => EntryOf(l) = linker[l]
      /\ l \notin DOMAIN linker => EntryOf(l).nOffset = 0
  BY DEF EntryOf, Undefined
<1>6. Known(C)
  BY DEF Here
<1>7. l \in DOMAIN linker \/ NoOff(l)
  BY <1>6 DEF Known
<1>8. \A k \in DOMAIN linker : linker[k].links # {} => k \in C
  BY <1>6 DEF Known
<1>9. \A k \in PlacesOf(Tail(work), T, cases) : k \in DOMAIN linker' => linker'[k].nOffset = 0
  BY <1>2, <1>3, <1>4, <1>5
<1>10. \A k \in DOMAIN linker : linker[k].nOffset # 0 => linker'[k].nOffset # 0
  BY <1>3, <1>4, <1>5
<1> QED BY <1>3, <1>7, <1>8, <1>9, <1>10 DEF Linked

(* An item that is done. *)
LEMMA PopHead ==
    ASSUME CodeInv, NEW kind, Doing(kind)
    PROVE  \E C, s, v, u :
             /\ Here(C, s, v, u) /\ Step(Head1, s, v, T, C) /\ s \in State /\ v \in State
             /\ Regs(s, C) /\ Known(C) /\ depth.exp = s.exp /\ s.exp \in Int /\ Head1.do = kind
<1>1. PICK C, s, v, u :
        /\ Here(C, s, v, u) /\ Step(Head1, s, v, T, C) /\ s \in State /\ v \in State
        /\ s.exp = depth.exp
  BY ItemHead
<1>2. Regs(s, C) /\ Known(C)
  BY <1>1 DEF Here
<1>3. s.exp \in Int /\ Head1.do = kind
  BY <1>1 DEF State, Doing
<1> QED BY <1>1, <1>2, <1>3

LEMMA KeepAdjustDepth ==
    ASSUME CodeInv, AdjustDepth
    PROVE  CodeInv'
<1>1. /\ Doing("adjust") /\ Then(<<>>) /\ depth'.exp = depth.exp + Head1.dExp
      /\ UNCHANGED <<fn, brk, cont, default, cases, messages, linker, prog, nextLabel>>
  BY DEF AdjustDepth, linkerVars, ctxVars
<1>2. PICK C, s, v, u :
        /\ Here(C, s, v, u) /\ Step(Head1, s, v, T, C) /\ s \in State /\ v \in State
        /\ Regs(s, C) /\ Head1.do = "adjust"
  BY <1>1, PopHead
<1>3. Moves(s, v, Head1.dExp)
  BY <1>2 DEF Step
<1>4. Regs(v, C)'
  BY <1>1, <1>2, <1>3, MoveRegs
<1>5. Places(Head1, T, cases) = {}
  BY <1>2 DEF Places
<1>6. Linked(C) /\ (NoError' => NoError)
  BY <1>1, <1>2, <1>5, SameLinked DEF NoError
<1> QED BY <1>1, <1>2, <1>4, <1>6, PopInv

LEMMA KeepAdoptInit ==
    ASSUME CodeInv, AdoptInit
    PROVE  CodeInv'
<1>1. /\ Doing("adopt") /\ Then(<<>>) /\ depth'.exp = Head1.exp
      /\ UNCHANGED <<fn, brk, cont, default, cases, messages, linker, prog, nextLabel>>
  BY DEF AdoptInit, linkerVars, ctxVars
<1>2. PICK C, s, v, u :
        /\ Here(C, s, v, u) /\ Step(Head1, s, v, T, C) /\ s \in State /\ v \in State
        /\ Regs(s, C) /\ Head1.do = "adopt"
  BY <1>1, PopHead
<1>3. Moves(s, v, Head1.exp - s.exp) /\ Head1.exp \in Int
  BY <1>2 DEF Step
<1>4. v.exp = depth'.exp
  <2>1. v.exp = s.exp + (Head1.exp - s.exp) /\ s.exp \in Int
    BY <1>2, <1>3 DEF Moves, State
  <2>2. s.exp + (Head1.exp - s.exp) = Head1.exp
    BY <1>3, <2>1
  <2> QED BY <1>1, <2>1, <2>2
<1>5. Regs(v, C)'
  BY <1>1, <1>2, <1>3, <1>4 DEF Regs, Moves
<1>6. Places(Head1, T, cases) = {}
  BY <1>2 DEF Places
<1>7. Linked(C) /\ (NoError' => NoError)
  BY <1>1, <1>2, <1>6, SameLinked DEF NoError
<1> QED BY <1>1, <1>2, <1>5, <1>7, PopInv

LEMMA KeepRestore ==
    ASSUME CodeInv, Restore
    PROVE  CodeInv'
<1>1. /\ Doing("restore") /\ Then(<<>>) /\ brk' = Head1.brk /\ cont' = Head1.cont
      /\ UNCHANGED <<fn, depth, default, cases, messages, linker, prog, nextLabel>>
  BY DEF Restore, linkerVars
<1>2. PICK C, s, v, u :
        /\ Here(C, s, v, u) /\ Step(Head1, s, v, T, C) /\ s \in State /\ v \in State
        /\ Regs(s, C) /\ Head1.do = "restore"
  BY <1>1, PopHead
<1>3. /\ v.exp = s.exp /\ v.rets = s.rets
      /\ "break" \in v.exits => Head1.brk.label \in C
      /\ "continue" \in v.exits => Head1.cont.label \in C
  BY <1>2 DEF Step
<1>4. Regs(v, C)'
  BY <1>1, <1>2, <1>3 DEF Regs
<1>5. Places(Head1, T, cases) = {}
  BY <1>2 DEF Places
<1>6. Linked(C) /\ (NoError' => NoError)
  BY <1>1, <1>2, <1>5, SameLinked DEF NoError
<1> QED BY <1>1, <1>2, <1>4, <1>6, PopInv

LEMMA KeepPassAssert ==
    ASSUME CodeInv, PassAssert
    PROVE  CodeInv'
<1>1. /\ Doing("assert") /\ Then(<<>>)
      /\ UNCHANGED <<depth, fn, brk, cont, default, cases, messages, linker, prog, nextLabel>>
  BY DEF PassAssert, linkerVars, ctxVars
<1>2. PICK C, s, v, u :
        /\ Here(C, s, v, u) /\ Step(Head1, s, v, T, C) /\ s \in State /\ v \in State
        /\ Regs(s, C) /\ Head1.do = "assert" /\ depth.exp = s.exp /\ s.exp \in Int
  BY <1>1, PopHead
<1>3. Moves(s, v, 0) /\ depth'.exp = depth.exp + 0
  BY <1>1, <1>2 DEF Step
<1>4. Regs(v, C)'
  BY <1>1, <1>2, <1>3, MoveRegs
<1>5. Places(Head1, T, cases) = {}
  BY <1>2 DEF Places
<1>6. Linked(C) /\ (NoError' => NoError)
  BY <1>1, <1>2, <1>5, SameLinked DEF NoError
<1> QED BY <1>1, <1>2, <1>4, <1>6, PopInv

LEMMA KeepEmitIns ==
    ASSUME CodeInv, EmitIns
    PROVE  CodeInv'
<1>1. /\ Doing("ins") /\ Then(<<>>) /\ depth'.exp = depth.exp + Head1.dExp
      /\ UNCHANGED <<fn, brk, cont, default, cases, messages, linker, prog, nextLabel>>
  BY DEF EmitIns, Emit, ctxVars
<1>2. PICK C, s, v, u :
        /\ Here(C, s, v, u) /\ Step(Head1, s, v, T, C) /\ s \in State /\ v \in State
        /\ Regs(s, C) /\ Head1.do = "ins" /\ depth.exp = s.exp
  BY <1>1, PopHead
<1>3. Regs(v, C)'
  <2>1. CASE Moves(s, v, Head1.dExp)
    BY <1>1, <1>2, <2>1, MoveRegs
  <2>2. CASE v = Ground /\ v.exp = s.exp + Head1.dExp
    <3>1. depth'.exp = 0
      BY <1>1, <1>2, <2>2 DEF Ground
    <3> QED BY <1>1, <1>2, <2>2, <3>1, GroundRegs
  <2> QED BY <1>2, <2>1, <2>2 DEF Step
<1>4. Places(Head1, T, cases) = {}
  BY <1>2 DEF Places
<1>5. Linked(C) /\ (NoError' => NoError)
  BY <1>1, <1>2, <1>4, SameLinked DEF NoError
<1> QED BY <1>1, <1>2, <1>3, <1>5, PopInv

LEMMA KeepEmitJump ==
    ASSUME CodeInv, LinkerInv, EmitJump
    PROVE  CodeInv'
<1>1. /\ Doing("jump") /\ Then(<<>>) /\ depth'.exp = depth.exp + Head1.dExp
      /\ ReferenceLabel(Head1.label)
      /\ UNCHANGED <<fn, brk, cont, default, cases, messages, prog, nextLabel>>
  BY DEF EmitJump, ctxVars
<1>2. PICK C, s, v, u :
        /\ Here(C, s, v, u) /\ Step(Head1, s, v, T, C) /\ s \in State /\ v \in State
        /\ Regs(s, C) /\ Head1.do = "jump"
  BY <1>1, PopHead
<1>3. Moves(s, v, Head1.dExp) /\ Head1.label \in C
  BY <1>2 DEF Step
<1>4. Regs(v, C)'
  BY <1>1, <1>2, <1>3, MoveRegs
<1>5. Places(Head1, T, cases) = {}
  BY <1>2 DEF Places
<1>6. Linked(C) /\ (NoError' => NoError)
  BY <1>1, <1>2, <1>3, <1>5, ReferencedLinked DEF NoError
<1> QED BY <1>1, <1>2, <1>4, <1>6, PopInv

LEMMA KeepResolveLabel ==
    ASSUME CodeInv, LinkerInv, ResolveLabel
    PROVE  CodeInv'
<1>1. /\ Doing("resolve") /\ Then(<<>>) /\ PlaceLabel(Head1.label)
      /\ UNCHANGED <<depth, fn, brk, cont, default, cases, messages, prog, nextLabel>>
  BY DEF ResolveLabel, ForwardResolve, ctxVars
<1>2. PICK C, s, v, u :
        /\ Here(C, s, v, u) /\ Step(Head1, s, v, T, C) /\ s \in State /\ v \in State
        /\ Regs(s, C) /\ Head1.do = "resolve" /\ depth.exp = s.exp /\ s.exp \in Int
  BY <1>1, PopHead
<1>3. Moves(s, v, 0) /\ depth'.exp = depth.exp + 0
  BY <1>1, <1>2 DEF Step
<1>4. Regs(v, C)'
  BY <1>1, <1>2, <1>3, MoveRegs
<1>5. Places(Head1, T, cases) = {Head1.label}
  BY <1>2 DEF Places
<1>6. Linked(C) /\ (NoError' => NoError)
  BY <1>1, <1>2, <1>5, PlacedLinked DEF NoError
<1> QED BY <1>1, <1>2, <1>4, <1>6, PopInv

LEMMA KeepDefine ==
    ASSUME CodeInv, LinkerInv, DefineRoutineLabel
    PROVE  CodeInv'
<1>1. /\ Doing("define") /\ Then(<<>>) /\ PlaceLabel(Head1.label)
      /\ UNCHANGED <<depth, brk, cont, default, cases, messages, prog, nextLabel>>
  BY DEF DefineRoutineLabel, DefineLabel
<1>2. PICK C, s, v, u :
        /\ Here(C, s, v, u) /\ Step(Head1, s, v, T, C) /\ s \in State /\ v \in State
        /\ Regs(s, C) /\ Head1.do = "define" /\ depth.exp = s.exp
  BY <1>1, PopHead
<1>3. s.exp = 0 /\ v = Ground
  BY <1>2 DEF Step
<1>4. Regs(v, C)'
  <2>1. depth'.exp = 0
    BY <1>1, <1>2, <1>3
  <2> QED BY <1>1, <1>2, <1>3, <2>1, GroundRegs
<1>5. Places(Head1, T, cases) = {Head1.label}
  BY <1>2 DEF Places
<1>6. Linked(C) /\ (NoError' => NoError)
  BY <1>1, <1>2, <1>5, PlacedLinked DEF NoError
<1> QED BY <1>1, <1>2, <1>4, <1>6, PopInv

(* A function without a body ends it: no script is written out then. *)
LEMMA KeepMissingBody ==
    ASSUME CodeInv, CodeRoutine, ~Head1.r.defined
    PROVE  CodeInv'
<1>1. /\ Doing("routine") /\ Then(<<>>)
      /\ <<"ErrorFunctionBodyMissing", Fn(Head1.r.name)>> \in messages'
      /\ UNCHANGED <<depth, fn, brk, cont, default, cases, linker, prog, nextLabel>>
  BY DEF CodeRoutine, Report, linkerVars
<1>2. ~NoError'
  <2>1. <<"ErrorFunctionBodyMissing", Fn(Head1.r.name)>>[1] = "ErrorFunctionBodyMissing"
    OBVIOUS
  <2> QED BY <1>1, <2>1 DEF NoError
<1>3. PICK C, s, v, u :
        /\ Here(C, s, v, u) /\ Step(Head1, s, v, T, C) /\ s \in State /\ v \in State
        /\ Regs(s, C) /\ Head1.do = "routine" /\ depth.exp = s.exp
  BY <1>1, PopHead
<1>4. s.exp = 0 /\ v = Ground
  BY <1>3 DEF Step
<1>5. Regs(v, C)'
  <2>1. depth'.exp = 0
    BY <1>1, <1>3, <1>4
  <2> QED BY <1>1, <1>3, <1>4, <2>1, GroundRegs
<1>6. Linked(C) /\ (NoError' => NoError)
  BY <1>1, <1>2, <1>3, SameLinked
<1> QED BY <1>1, <1>3, <1>5, <1>6, PopInv

-----------------------------------------------------------------------------
(***************************************************************************)
(* CodeScanCase: a case label gets its label, which the statement places   *)
(* that is coded later.                                                    *)
(***************************************************************************)
Extended(cs, cs2, id, l) ==
    /\ id \notin DOMAIN cs /\ DOMAIN cs2 = DOMAIN cs \cup {id}
    /\ \A c \in DOMAIN cs2 : cs2[c] = IF c = id THEN l ELSE cs[c]

LEMMA PlacesExtended ==
    ASSUME NEW x, NEW t, NEW cs, NEW cs2, NEW id, NEW l, Extended(cs, cs2, id, l)
    PROVE  Places(x, t, cs2) = Places(x, t, cs) \cup IF Holds(x, id, t) THEN {l} ELSE {}
<1>1. ASSUME NEW X
      PROVE  LabelsAt(X, cs2) = LabelsAt(X, cs) \cup IF id \in X THEN {l} ELSE {}
  <2>1. \A k : k \in LabelsAt(X, cs2) <=> k \in LabelsAt(X, cs) \/ (id \in X /\ k = l)
    BY LabelsAtMember DEF Extended
  <2> QED BY <2>1
<1>2. CASE x.do = "code"
  <2>1. Places(x, t, cs) = LabelsAt(Of(x.pc, t, "labels"), cs)
        /\ Places(x, t, cs2) = LabelsAt(Of(x.pc, t, "labels"), cs2)
    BY <1>2 DEF Places
  <2>2. Holds(x, id, t) <=> id \in Of(x.pc, t, "labels")
    BY <1>2 DEF Holds
  <2> QED BY <1>1, <2>1, <2>2
<1>3. CASE x.do # "code"
  <2>1. Places(x, t, cs) = Places(x, t, cs2) /\ ~Holds(x, id, t)
    BY <1>3 DEF Places, Holds
  <2> QED BY <2>1
<1> QED BY <1>2, <1>3

LEMMA FreshOne ==
    ASSUME NEW nx \in Nat
    PROVE  Fresh(1, nx) = {Off(nx)} /\ nx + 1 \in Nat
<1>1. \A i \in 1 .. 1 : nx + i - 1 = nx
  OBVIOUS
<1> QED BY <1>1 DEF Fresh

LEMMA ExtendLabels ==
    ASSUME NEW w, NEW lk, NEW cs, NEW nx, NEW t, LabelsOK(w, lk, cs, nx, t), PCodeOK(t),
           NEW id, \A i \in 1 .. Len(w) : id \notin Unseen(w[i], t),
           NEW lk2, Kept(lk, lk2, 1, nx), NEW cs2, Extended(cs, cs2, id, Off(nx))
    PROVE  LabelsOK(w, lk2, cs2, nx + 1, t)
<1> DEFINE l == Off(nx)
<1>1. nx \in Nat /\ nx + 1 \in Nat /\ Fresh(1, nx) = {l}
  BY FreshOne DEF LabelsOK
<1>2. /\ DOMAIN lk2 = DOMAIN lk \cup {l} /\ lk2[l].nOffset = 0
      /\ \A k \in DOMAIN lk : k # l => lk2[k] = lk[k]
  BY <1>1 DEF Kept, Undefined
<1>3. l \notin DOMAIN lk
  BY <1>1 DEF LabelsOK
<1>4. \A m \in Nat : Off(m) \in DOMAIN lk2 => m < nx + 1
  <2> SUFFICES ASSUME NEW m \in Nat, Off(m) \in DOMAIN lk2 PROVE m < nx + 1
    OBVIOUS
  <2>1. CASE Off(m) \in DOMAIN lk
    <3>1. m < nx
      BY <2>1 DEF LabelsOK
    <3> QED BY <1>1, <3>1
  <2>2. CASE Off(m) = l
    BY <1>1, <2>2, OffInjective
  <2> QED BY <1>2, <2>1, <2>2
<1>5. Injective(cs2) /\ \A c \in DOMAIN cs2 : cs2[c] \in DOMAIN lk2
  BY <1>2, <1>3 DEF Extended, Injective, LabelsOK
<1>6. \A x : Places(x, t, cs2) = Places(x, t, cs) \cup IF Holds(x, id, t) THEN {l} ELSE {}
  BY PlacesExtended
<1>7. \A i \in 1 .. Len(w) : l \notin Places(w[i], t, cs)
  <2>1. \A k \in PlacesOf(w, t, cs) : k # l
    BY <1>1, SomewherePlaced
  <2> QED BY <2>1, PlacesMember
<1> HIDE DEF l
<1>8. ASSUME NEW i \in 1 .. Len(w) PROVE Sits(w[i], lk2, cs2, t) /\ Unseen(w[i], t) \cap DOMAIN cs2 = {}
  <2>1. Sits(w[i], lk, cs, t) /\ Unseen(w[i], t) \cap DOMAIN cs = {}
    BY DEF LabelsOK
  <2>2. Unseen(w[i], t) \cap DOMAIN cs2 = {}
    BY <2>1 DEF Extended
  <2>3. Holds(w[i], id, t) => ~Firm(w[i])
    BY DEF Holds, Firm
  <2>4. Sits(w[i], lk2, cs2, t)
    <3> SUFFICES ASSUME NEW k \in Places(w[i], t, cs2)
                 PROVE  /\ k \in DOMAIN lk2 => lk2[k].nOffset = 0
                        /\ IF Firm(w[i]) THEN NoOff(k) ELSE k \in DOMAIN lk2
      BY DEF Sits
    <3>1. CASE k \in Places(w[i], t, cs)
      BY <1>2, <1>7, <2>1, <3>1 DEF Sits
    <3>2. CASE k \notin Places(w[i], t, cs)
      BY <1>2, <1>6, <2>3, <3>2
    <3> QED BY <3>1, <3>2
  <2> QED BY <2>2, <2>4
<1>9. Apart(w, t, cs2)
  <2> SUFFICES ASSUME NEW i \in 1 .. Len(w), NEW j \in 1 .. Len(w), i # j
               PROVE  Clear(w[i], w[j], t, cs2)
    BY DEF Apart
  <2>1. Clear(w[i], w[j], t, cs)
    BY DEF LabelsOK, Apart
  <2>2. \A x : Holds(x, id, t) => id \in Ids(x, t)
    BY LabelsAmongIds DEF Holds, Ids
  <2>3. ~(Holds(w[i], id, t) /\ Holds(w[j], id, t))
    BY <2>1, <2>2 DEF Clear
  <2>4. Places(w[i], t, cs2) \cap Places(w[j], t, cs2) = {}
    BY <1>6, <1>7, <2>1, <2>3 DEF Clear
  <2> QED BY <2>1, <2>4 DEF Clear
<1> QED BY <1>1, <1>4, <1>5, <1>8, <1>9 DEF LabelsOK

(* The comparisons with a case label, or none for default. *)
LEMMA ScanInv ==
    ASSUME CodeInv, Doing("scan"), Node.op \in {"Case", "Default"}, NEW items, TakeApart(1, items),
           SetCase(Node.id, L(1)), UNCHANGED <<depth, fn, brk, cont, messages>>,
           default' \in {default, L(1)},
           \A s \in State : \A C : L(1) \in C => Flat(items, s, s, T, C)
    PROVE  CodeInv'
<1> DEFINE id == Node.id
           w == Tail(work)
<1>1. /\ T' = T /\ Kept(linker, linker', 1, nextLabel) /\ nextLabel' = nextLabel + 1
      /\ Then(items) /\ prog' = prog
  BY TakenApart DEF T
<1>2. PICK C, s, v, u :
        /\ Here(C, s, v, u) /\ Step(Head1, s, v, T, C) /\ s \in State /\ v \in State
        /\ Regs(s, C) /\ Known(C) /\ Head1.do = "scan"
  BY PopHead
<1>3. v = s
  BY <1>2, MovesAt, AtZero DEF Step
<1>4. /\ T.about[Node].labels = {id} /\ Unseen(Head1, T) = {id} /\ ScanLabels(Head1, T) = {id}
      /\ id \notin DOMAIN cases
      /\ Places(Head1, T, cases) = {}
  <2>1. /\ Statement(Node, T.about[Node], T)
        /\ Unseen(Head1, T) = T.about[Node].labels /\ ScanLabels(Head1, T) = T.about[Node].labels
        /\ Places(Head1, T, cases) = {} /\ Unseen(Head1, T) \cap DOMAIN cases = {}
    BY ScanHead
  <2>2. T.about[Node].labels = {id}
    <3>1. CASE Node.op = "Case"
      BY <2>1, <3>1 DEF Statement
    <3>2. CASE Node.op = "Default"
      BY <2>1, <3>2 DEF Statement
    <3> QED BY <3>1, <3>2
  <2> QED BY <2>1, <2>2
<1>5. LabelsOK(work, linker, cases, nextLabel, T) /\ work # <<>> /\ PCodeOK(T)
  BY <1>2, TreeHolds DEF Here, LabelsInv
<1>6. /\ LabelsOK(w, linker, cases, nextLabel, T) /\ nextLabel \in Nat
      /\ Beyond(Head1, w, T, cases)
  BY <1>5, DropHead DEF Head1, LabelsOK
<1>7. L(1) = Off(nextLabel)
  <2>1. nextLabel + 1 - 1 = nextLabel
    BY <1>6
  <2> QED BY <2>1 DEF L
<1>8. Extended(cases, cases', id, Off(nextLabel))
  BY <1>4, <1>7 DEF SetCase, Extended
<1> HIDE DEF id, w
<1>9. \A i \in 1 .. Len(w) : id \notin Unseen(w[i], T)
  BY <1>4, <1>6 DEF Beyond, Clear
<1>10. LabelsOK(w, linker', cases', nextLabel + 1, T)
  BY <1>1, <1>5, <1>6, <1>8, <1>9, ExtendLabels
<1>11. PICK D : D = {L(1)}
  OBVIOUS
<1>12. Flat(items, s, s, T, C \cup D)
  BY <1>2, <1>11
<1>13. /\ LabelsOK(items \o w, linker', cases', nextLabel + 1, T)
       /\ IsSeq(items)
  <2>1. ASSUME NEW cs PROVE Part(items, s, s, {}, {}, {}, {}, T, C \cup D, cs)
    BY <1>12, FlatPart
  <2>2. Shape(items, {}, {}, {}, {}, T, cases') /\ IsSeq(items)
    BY <2>1 DEF Part, Shape
  <2>3. \A i \in 1 .. Len(items) : Places(items[i], T, cases') = {}
    BY <2>2, PlacesMember DEF Shape
  <2>4. \A i \in 1 .. Len(items) : Sits(items[i], linker', cases', T)
    BY <2>3 DEF Sits
  <2> QED BY <1>10, <2>2, <2>4, PrependLabels
<1>14. work' = items \o w
  BY <1>1 DEF Then, w
<1>15. LabelsInv'
  BY <1>1, <1>13, <1>14 DEF LabelsInv
<1>16. IsSeq(w)
  BY <1>6 DEF LabelsOK
<1>17. Leads(work', s, u, T, C \cup D)
  <2>1. Leads(items, s, s, T, C \cup D)
    BY <1>12 DEF Flat
  <2>2. Leads(w, s, u, T, C \cup D)
    BY <1>2, <1>3, LeadsMore DEF Here, w
  <2> QED BY <1>13, <1>14, <1>16, <2>1, <2>2, LeadsJoin
<1>18. \A x : Places(x, T, cases') = Places(x, T, cases) \cup IF Holds(x, id, T) THEN {L(1)} ELSE {}
  BY <1>7, <1>8, PlacesExtended
<1>19. /\ PlacesOf(w, T, cases) \subseteq PlacesOf(work', T, cases')
       /\ L(1) \in PlacesOf(work', T, cases')
  <2>1. PlacesOf(w, T, cases') \subseteq PlacesOf(work', T, cases')
    BY <1>13, <1>14, <1>16, JoinItems
  <2>2. PlacesOf(w, T, cases) \subseteq PlacesOf(w, T, cases')
    BY <1>18 DEF PlacesOf
  <2>3. Found(w, id, T)
    BY <1>4, <1>6 DEF Beyond
  <2>4. L(1) \in PlacesOf(w, T, cases')
    BY <1>18, <2>3 DEF Found, PlacesOf
  <2> QED BY <2>1, <2>2, <2>4
<1>20. PlacesOf(work, T, cases) = PlacesOf(w, T, cases)
  <2>1. IsSeq(work)
    BY <1>5 DEF LabelsOK
  <2>2. PlacesOf(work, T, cases) = Places(work[1], T, cases) \cup PlacesOf(Tail(work), T, cases)
    BY <1>5, <2>1, HeadPlaces
  <2> QED BY <1>4, <2>2 DEF Head1, w
<1>21. /\ DOMAIN linker' = DOMAIN linker \cup {L(1)} /\ L(1) \notin DOMAIN linker
       /\ linker'[L(1)].links = {}
       /\ \A k \in DOMAIN linker : linker'[k] = linker[k]
  <2>1. Fresh(1, nextLabel) = {L(1)}
    BY <1>6, <1>7, FreshOne
  <2>2. L(1) \notin DOMAIN linker
    BY <1>5, <1>6, <1>7 DEF LabelsOK
  <2> QED BY <1>1, <2>1, <2>2 DEF Kept, Undefined
<1>22. Known(C \cup D)'
  <2>1. \A name \in Names(T) : Fn(name) \in C \cup D
    BY <1>2 DEF Known
  <2>2. \A l \in C \cup D : l \in DOMAIN linker' \/ NoOff(l)
    BY <1>2, <1>11, <1>21 DEF Known
  <2>3. \A l \in DOMAIN linker' : linker'[l].links # {} => l \in C \cup D
    BY <1>2, <1>21 DEF Known
  <2>4. ASSUME ContinuesPlaced, NoError', NEW l \in C \cup D
        PROVE  PlacedIn(l, linker') \/ l \in PlacesOf(work', T, cases')
    <3>1. CASE l \in C
      <4>1. NoError
        BY <2>4 DEF NoError
      <4>2. PlacedIn(l, linker) \/ l \in PlacesOf(work, T, cases)
        BY <1>2, <2>4, <3>1, <4>1 DEF Known
      <4> QED BY <1>19, <1>20, <1>21, <4>2 DEF PlacedIn
    <3>2. CASE l \in D
      BY <1>11, <1>19, <3>2
    <3> QED BY <3>1, <3>2
  <2> QED BY <1>1, <2>1, <2>2, <2>3, <2>4 DEF Known, PlacedIn
<1>23. Regs(s, C \cup D)'
  BY <1>2, <1>11 DEF Regs
<1>24. Way(C \cup D)'
  <2>1. u \in State
    BY <1>2 DEF Here
  <2> QED BY <1>1, <1>2, <1>17, <1>22, <1>23, <2>1 DEF Way
<1>25. prog' \in Programs
  BY <1>1, <1>2 DEF Here
<1> QED BY <1>15, <1>24, <1>25 DEF CodeInv

LEMMA KeepScanCase ==
    ASSUME CodeInv, ScanCase
    PROVE  CodeInv'
<1> DEFINE a == Ins("CPTOPSP", 1, 1, 0, 1)
           b == Data(Node.value)
           c == Ins("EQUAL", 0, 0, 0, -1)
           d == JNZ(L(1))
           items == a \o b \o c \o d
<1>1. /\ Doing("scan") /\ Node.op = "Case" /\ TakeApart(1, items) /\ SetCase(Node.id, L(1))
      /\ UNCHANGED <<depth, fn, brk, cont, messages>> /\ default' = default
  BY DEF ScanCase, Node
<1>2. PCodeOK(T) /\ Node \in DOMAIN T.about /\ Statement(Node, T.about[Node], T)
  BY <1>1, ScanHead, TreeHolds
<1>3. ExprBlock(Node.value, 1, T)
  BY <1>1, <1>2 DEF Statement
<1>4. ASSUME NEW s \in State, NEW C, L(1) \in C
      PROVE  Flat(items, s, s, T, C)
  <2>1. Flat(a, At(s, 0), At(s, 1), T, C)
    BY FlatUpDown
  <2>2. Flat(b, At(s, 1), At(s, 2), T, C)
    <3> DEFINE o == 1
               p == 2
    <3>1. o \in Int /\ p \in Int /\ p = o + o
      OBVIOUS
    <3> HIDE DEF o, p
    <3>2. ExprBlock(Node.value, o, T)
      BY <1>3 DEF o
    <3>3. Flat(b, At(s, o), At(s, p), T, C)
      BY <1>2, <3>1, <3>2, FlatData
    <3> QED BY <3>3 DEF o, p
  <2>3. Flat(c, At(s, 2), At(s, 1), T, C)
    BY FlatUpDown
  <2>4. Flat(d, At(s, 1), At(s, 0), T, C)
    BY <1>4, FlatUpDown DEF JNZ
  <2> HIDE DEF a, b, c, d
  <2>5. Flat(a \o b, At(s, 0), At(s, 2), T, C)
    BY <2>1, <2>2, FlatJoin
  <2>6. Flat(a \o b \o c, At(s, 0), At(s, 1), T, C)
    BY <2>3, <2>5, FlatJoin
  <2>7. Flat(a \o b \o c \o d, At(s, 0), At(s, 0), T, C)
    BY <2>4, <2>6, FlatJoin
  <2> QED BY <2>7, AtZero
<1> HIDE DEF items
<1> QED BY <1>1, <1>4, ScanInv

LEMMA KeepScanDefault ==
    ASSUME CodeInv, ScanDefault
    PROVE  CodeInv'
<1>1. /\ Doing("scan") /\ Node.op = "Default" /\ TakeApart(1, <<>>) /\ SetCase(Node.id, L(1))
      /\ UNCHANGED <<depth, fn, brk, cont, messages>> /\ default' = L(1)
  BY DEF ScanDefault, Node
<1>2. \A s \in State : \A C : L(1) \in C => Flat(<<>>, s, s, T, C)
  BY FlatNone
<1> QED BY <1>1, <1>2, ScanInv

(* A routine with a body: its label is placed, then it begins. *)
LEMMA KeepRoutine ==
    ASSUME CodeInv, CodeRoutine, Head1.r.defined
    PROVE  CodeInv'
<1> DEFINE r == Head1.r
           x == [do |-> "define", label |-> Fn(r.name)]
           y == [do |-> "begin", r |-> r]
           items == <<x>> \o <<y>>
           w == Tail(work)
           I == OfBlock(BodyOf(r), T, "ids")
<1>1. /\ Doing("routine") /\ Then(items)
      /\ UNCHANGED <<messages, depth, fn, brk, cont, default, cases, linker, prog, nextLabel>>
      /\ T' = T
  BY DEF CodeRoutine, linkerVars, Define, T
<1>2. PICK C, s, v, u :
        /\ Here(C, s, v, u) /\ Step(Head1, s, v, T, C) /\ s \in State /\ v \in State
        /\ Regs(s, C) /\ Known(C) /\ Head1.do = "routine" /\ depth.exp = s.exp
  BY <1>1, PopHead
<1>3. s.exp = 0 /\ v = Ground /\ IsRoutine(r, T) /\ r.defined
  BY <1>2 DEF Step
<1>4. /\ x.do = "define" /\ x.label = Fn(r.name) /\ y.do = "begin" /\ y.r = r
  OBVIOUS
<1>5. work' = items \o w
  BY <1>1 DEF Then
<1> HIDE DEF x, y
<1> HIDE DEF r
<1>6. Step(x, s, Ground, T, C) /\ Step(y, Ground, Ground, T, C)
  BY <1>3, <1>4 DEF Step, Kinds
<1>7. LabelsOK(work, linker, cases, nextLabel, T) /\ work # <<>>
  BY <1>2 DEF Here, LabelsInv
<1>8. LabelsOK(w, linker, cases, nextLabel, T) /\ Beyond(Head1, w, T, cases) /\ IsSeq(w)
  <2>1. LabelsOK(w, linker, cases, nextLabel, T) /\ Beyond(Head1, w, T, cases)
    BY <1>7, DropHead DEF Head1
  <2> QED BY <2>1 DEF LabelsOK
<1>9. Sits(Head1, linker, cases, T) /\ Unseen(Head1, T) \cap DOMAIN cases = {}
  <2>1. 1 \in 1 .. Len(work)
    BY <1>7, SeqTail, SeqLength DEF LabelsOK
  <2> QED BY <1>7, <2>1 DEF LabelsOK, Head1
<1>10. /\ Places(Head1, T, cases) = {Fn(r.name)} /\ Ids(Head1, T) = I /\ Unseen(Head1, T) = I
       /\ Firm(Head1)
  BY <1>2 DEF Places, Ids, Unseen, Firm, r
<1>11. /\ Places(x, T, cases) = {Fn(r.name)} /\ Ids(x, T) = {} /\ Unseen(x, T) = {} /\ Firm(x)
       /\ Places(y, T, cases) = {} /\ Ids(y, T) = I /\ Unseen(y, T) = I
       /\ x.do # "scan" /\ y.do # "scan"
  BY <1>4 DEF Places, Ids, Unseen, Firm
<1> HIDE DEF I
<1>12. /\ IsSeq(<<x>>) /\ Len(<<x>>) = 1 /\ <<x>>[1] = x
       /\ IsSeq(<<y>>) /\ Len(<<y>>) = 1 /\ <<y>>[1] = y
  BY SeqOne
<1>13. IsSeq(items) /\ \A i \in 1 .. Len(items) : items[i] \in {x, y}
  <2>1. \A i \in 1 .. Len(items) :
          IF i <= Len(<<x>>) THEN i \in 1 .. Len(<<x>>) /\ items[i] = <<x>>[i]
          ELSE i - Len(<<x>>) \in 1 .. Len(<<y>>) /\ items[i] = <<y>>[i - Len(<<x>>)]
    BY <1>12, SeqConcat
  <2>2. IsSeq(items)
    BY <1>12, SeqConcat
  <2>3. \A i \in 1 .. Len(<<x>>) : <<x>>[i] = x
    <3>1. \A i \in 1 .. Len(<<x>>) : i = 1
      BY <1>12
    <3> QED BY <1>12, <3>1
  <2>4. \A i \in 1 .. Len(<<y>>) : <<y>>[i] = y
    <3>1. \A i \in 1 .. Len(<<y>>) : i = 1
      BY <1>12
    <3> QED BY <1>12, <3>1
  <2> HIDE DEF items
  <2> QED BY <2>1, <2>2, <2>3, <2>4
<1>14. Shape(<<x>>, {Fn(r.name)}, {}, {}, {}, T, cases) /\ Shape(<<y>>, {}, I, I, {}, T, cases)
  <2>1. ASSUME NEW z, z.do # "scan"
        PROVE  Shape(<<z>>, Places(z, T, cases), Ids(z, T), Unseen(z, T), {}, T, cases)
    <3>1. IsSeq(<<z>>) /\ Len(<<z>>) = 1 /\ <<z>>[1] = z
      BY SeqOne
    <3>2. \A i \in 1 .. Len(<<z>>) : i = 1
      BY <3>1
    <3>3. 1 \in 1 .. Len(<<z>>)
      BY <3>1
    <3>4. /\ PlacesOf(<<z>>, T, cases) = Places(z, T, cases)
          /\ IdsOf(<<z>>, T) = Ids(z, T) /\ UnseenOf(<<z>>, T) = Unseen(z, T)
      BY <3>1, <3>2, <3>3 DEF PlacesOf, IdsOf, UnseenOf
    <3>5. Apart(<<z>>, T, cases) /\ Pending(<<z>>, {}, T)
      BY <2>1, <3>1, <3>2 DEF Apart, Pending
    <3> QED BY <3>1, <3>4, <3>5 DEF Shape
  <2> QED BY <1>11, <2>1
<1>15. Shape(items, {Fn(r.name)}, I, I, {}, T, cases)
  <2>1. Shape(<<x>> \o <<y>>, {Fn(r.name)} \cup {}, {} \cup I, {} \cup I, {}, T, cases)
    BY <1>14, ShapeJoin
  <2>2. {Fn(r.name)} \cup {} = {Fn(r.name)} /\ {} \cup I = I
    OBVIOUS
  <2> QED BY <2>1, <2>2
<1> HIDE DEF items
<1>16. \A i \in 1 .. Len(items) : Sits(items[i], linker, cases, T)
  <2>1. Sits(x, linker, cases, T) /\ Sits(y, linker, cases, T)
    BY <1>9, <1>10, <1>11 DEF Sits
  <2> QED BY <1>13, <2>1
<1>17. /\ {Fn(r.name)} \cap PlacesOf(w, T, cases) = {} /\ I \cap IdsOf(w, T) = {}
       /\ I \cap UnseenOf(w, T) = {} /\ I \cap DOMAIN cases = {}
  BY <1>8, <1>9, <1>10, BeyondAll
<1>18. LabelsOK(items \o w, linker, cases, nextLabel, T)
  BY <1>8, <1>15, <1>16, <1>17, PrependLabels
<1>19. LabelsInv'
  BY <1>1, <1>5, <1>18 DEF LabelsInv
<1>20. Leads(work', s, u, T, C)
  <2>1. Ground \in State
    BY DEF Ground, State
  <2>2. Leads(<<x>>, s, Ground, T, C) /\ Leads(<<y>>, Ground, Ground, T, C)
    BY <1>2, <1>6, <2>1, LeadsOne
  <2>3. Leads(items, s, Ground, T, C)
    BY <1>12, <2>2, LeadsJoin DEF items
  <2>4. Leads(w, Ground, u, T, C)
    BY <1>2, <1>3 DEF Here
  <2> QED BY <1>5, <1>8, <1>13, <2>3, <2>4, LeadsJoin
<1>21. PlacesOf(work', T, cases) = PlacesOf(work, T, cases)
  <2>1. PlacesOf(work', T, cases) = {Fn(r.name)} \cup PlacesOf(w, T, cases)
    BY <1>5, <1>8, <1>13, <1>15, JoinItems DEF Shape
  <2>2. IsSeq(work)
    BY <1>7 DEF LabelsOK
  <2>3. PlacesOf(work, T, cases) = Places(work[1], T, cases) \cup PlacesOf(Tail(work), T, cases)
    BY <1>7, <2>2, HeadPlaces
  <2> QED BY <1>10, <2>1, <2>3 DEF Head1
<1>22. Known(C)'
  BY <1>1, <1>2, <1>21 DEF Known, NoError
<1>23. Regs(s, C)'
  BY <1>1, <1>2, SameRegs
<1>24. Way(C)'
  <2>1. u \in State
    BY <1>2 DEF Here
  <2> QED BY <1>1, <1>2, <1>20, <1>22, <1>23, <2>1 DEF Way
<1>25. prog' \in Programs
  BY <1>1, <1>2 DEF Here
<1> QED BY <1>19, <1>24, <1>25 DEF CodeInv

-----------------------------------------------------------------------------
(***************************************************************************)
(* The first state: the loader, #globals and the routines, each of them    *)
(* between two points where the expression stack is empty.                 *)
(***************************************************************************)
Opening(x) ==
    \/ x.do \in {"ins", "jump", "global", "callentry", "routine"}
    \/ x.do = "define" /\ x.label = Fn("#globals")

Starts(items, P, I, t, C) ==
    /\ Shape(items, P, I, I, {}, t, <<>>)
    /\ Leads(items, Ground, Ground, t, C)
    /\ \A i \in 1 .. Len(items) : Opening(items[i])

LEMMA GroundState == Ground \in State /\ Ground.exp = 0 /\ Moves(Ground, Ground, 0)
BY DEF Ground, State, Moves

LEMMA StartsJoin ==
    ASSUME NEW a, NEW b, NEW P, NEW R, NEW I, NEW J, NEW t, NEW C,
           Starts(a, P, I, t, C), Starts(b, R, J, t, C), P \cap R = {}, I \cap J = {}
    PROVE  Starts(a \o b, P \cup R, I \cup J, t, C)
<1>1. Shape(a, P, I, I, {}, t, <<>>) /\ Shape(b, R, J, J, {}, t, <<>>)
  BY DEF Starts
<1>2. IsSeq(a) /\ IsSeq(b)
  BY <1>1 DEF Shape
<1>3. Shape(a \o b, P \cup R, I \cup J, I \cup J, {}, t, <<>>)
  BY <1>1, ShapeJoin
<1>4. Leads(a \o b, Ground, Ground, t, C)
  BY <1>2, LeadsJoin DEF Starts
<1>5. \A i \in 1 .. Len(a \o b) : Opening((a \o b)[i])
  BY <1>2, SeqConcat DEF Starts
<1> QED BY <1>3, <1>4, <1>5 DEF Starts

LEMMA StartsOne ==
    ASSUME NEW x, NEW I, NEW t, NEW C, Opening(x), Step(x, Ground, Ground, t, C),
           Ids(x, t) \subseteq I, Unseen(x, t) \subseteq I
    PROVE  Starts(<<x>>, Places(x, t, <<>>), I, t, C)
<1>1. IsSeq(<<x>>) /\ Len(<<x>>) = 1 /\ <<x>>[1] = x
  BY SeqOne
<1>2. \A i \in 1 .. Len(<<x>>) : i = 1 /\ <<x>>[i] = x
  <2>1. \A i \in 1 .. Len(<<x>>) : i = 1
    BY <1>1
  <2> QED BY <1>1, <2>1
<1>3. 1 \in 1 .. Len(<<x>>)
  BY <1>1
<1>4. x.do # "scan"
  BY DEF Opening
<1>5. /\ PlacesOf(<<x>>, t, <<>>) = Places(x, t, <<>>)
      /\ IdsOf(<<x>>, t) \subseteq I /\ UnseenOf(<<x>>, t) \subseteq I
  BY <1>2, <1>3 DEF PlacesOf, IdsOf, UnseenOf
<1>6. Apart(<<x>>, t, <<>>) /\ Pending(<<x>>, {}, t)
  BY <1>2, <1>4 DEF Apart, Pending
<1>7. Leads(<<x>>, Ground, Ground, t, C)
  BY GroundState, LeadsOne
<1> QED BY <1>1, <1>2, <1>5, <1>6, <1>7 DEF Starts, Shape

LEMMA StartsPlain ==
    ASSUME NEW x, NEW t, NEW C, Step(x, Ground, Ground, t, C),
           x.do \in {"ins", "jump", "global", "callentry"}
    PROVE  Starts(<<x>>, {}, {}, t, C)
<1>1. Opening(x)
  BY DEF Opening
<1>2. Places(x, t, <<>>) = {} /\ Ids(x, t) = {} /\ Unseen(x, t) = {}
  BY DEF Places, Ids, Unseen
<1>3. Starts(<<x>>, Places(x, t, <<>>), {}, t, C)
  BY <1>1, <1>2, StartsOne
<1> QED BY <1>2, <1>3

LEMMA StartsNone ==
    ASSUME NEW t, NEW C
    PROVE  Starts(<<>>, {}, {}, t, C)
<1>1. IsSeq(<<>>) /\ 1 .. Len(<<>>) = {}
  BY SeqNone
<1>2. Leads(<<>>, Ground, Ground, t, C)
  BY GroundState, LeadsNone
<1>3. PlacesOf(<<>>, t, <<>>) = {} /\ IdsOf(<<>>, t) = {} /\ UnseenOf(<<>>, t) = {}
  BY <1>1 DEF PlacesOf, IdsOf, UnseenOf
<1>4. Apart(<<>>, t, <<>>) /\ Pending(<<>>, {}, t)
  BY <1>1 DEF Apart, Pending
<1> QED BY <1>1, <1>2, <1>3, <1>4 DEF Starts, Shape

(* Items that all lead from the ground to the ground, made one by one. *)
LEMMA StartsMap ==
    ASSUME NEW n \in Nat, NEW f, f = [i \in 1 .. n |-> f[i]], NEW t, NEW C, NEW P, NEW I,
           \A i \in 1 .. n : f[i].do \in {"global", "routine"} /\ Step(f[i], Ground, Ground, t, C),
           \A i \in 1 .. n : Ids(f[i], t) \subseteq I /\ Unseen(f[i], t) \subseteq I,
           PlacesOf(f, t, <<>>) = P, Apart(f, t, <<>>)
    PROVE  Starts(f, P, I, t, C)
<1>1. IsSeq(f) /\ Len(f) = n
  BY SeqMap
<1>2. \A i \in 1 .. Len(f) : Opening(f[i]) /\ f[i].do # "scan"
  BY <1>1 DEF Opening
<1>3. Pending(f, {}, t)
  BY <1>2 DEF Pending
<1>4. IdsOf(f, t) \subseteq I /\ UnseenOf(f, t) \subseteq I
  BY <1>1 DEF IdsOf, UnseenOf
<1>5. Leads(f, Ground, Ground, t, C)
  <2> DEFINE g == [i \in 1 .. n + 1 |-> Ground]
  <2>1. g \in [1 .. n + 1 -> State] /\ \A i \in 1 .. n + 1 : g[i] = Ground
    BY GroundState
  <2>2. \A i \in 1 .. n : i \in 1 .. n + 1 /\ i + 1 \in 1 .. n + 1
    OBVIOUS
  <2>3. 1 \in 1 .. n + 1 /\ n + 1 \in 1 .. n + 1
    OBVIOUS
  <2> HIDE DEF g
  <2>4. \A i \in 1 .. n : Step(f[i], g[i], g[i + 1], t, C)
    BY <2>1, <2>2
  <2> QED BY <1>1, <2>1, <2>3, <2>4 DEF Leads
<1> QED BY <1>1, <1>2, <1>3, <1>4, <1>5 DEF Starts, Shape

RoutineLabels(t) == {Fn(name) : name \in Names(t)}
Entries(t) == RoutineLabels(t) \cup IF t.prog.create THEN {Fn("#globals")} ELSE {}

LEMMA LoaderStarts ==
    ASSUME NEW t, PCodeOK(t)
    PROVE  Starts(Loader(t.prog), {}, {}, t, Entries(t))
<1> DEFINE p == t.prog
           l == Fn(IF p.create THEN "#globals" ELSE p.entry)
           x == [do |-> "ins", op |-> "RSADD", a |-> 0, b |-> 0, dSP |-> 0, dExp |-> 0]
           y == [do |-> "jump", op |-> "JSR", label |-> l, dExp |-> 0]
           z == [do |-> "ins", op |-> "RETN", a |-> 0, b |-> 0, dSP |-> 0, dExp |-> 0]
           a == When(~p.isMain, <<x>>)
<1>1. Loader(p) = a \o <<y>> \o <<z>>
  BY DEF Loader, Ins, Jump
<1>2. l \in Entries(t)
  <2>1. p.entry \in Names(t)
    BY DEF PCodeOK, RoutinesOK
  <2> QED BY <2>1 DEF Entries, RoutineLabels
<1>3. /\ x.do = "ins" /\ x.dExp = 0 /\ y.do = "jump" /\ y.dExp = 0 /\ y.label = l
      /\ z.do = "ins" /\ z.dExp = 0
  OBVIOUS
<1> HIDE DEF l, p
<1> HIDE DEF x, y, z
<1>4. /\ Step(x, Ground, Ground, t, Entries(t)) /\ Step(y, Ground, Ground, t, Entries(t))
      /\ Step(z, Ground, Ground, t, Entries(t))
  BY <1>2, <1>3, GroundState DEF Step, Kinds
<1>5. /\ Starts(<<x>>, {}, {}, t, Entries(t)) /\ Starts(<<y>>, {}, {}, t, Entries(t))
      /\ Starts(<<z>>, {}, {}, t, Entries(t))
  BY <1>3, <1>4, StartsPlain
<1>6. Starts(a, {}, {}, t, Entries(t))
  BY <1>5, StartsNone DEF When
<1> HIDE DEF a
<1>7. Starts(a \o <<y>>, {} \cup {}, {} \cup {}, t, Entries(t))
  BY <1>5, <1>6, StartsJoin
<1>8. {} \cup {} = {}
  OBVIOUS
<1>9. Starts(a \o <<y>>, {}, {}, t, Entries(t))
  BY <1>7, <1>8
<1>10. Starts(a \o <<y>> \o <<z>>, {} \cup {}, {} \cup {}, t, Entries(t))
  BY <1>5, <1>9, StartsJoin
<1> QED BY <1>1, <1>8, <1>10 DEF p

LEMMA GlobalsStart ==
    ASSUME NEW t, PCodeOK(t)
    PROVE  Starts(Globals(t.prog), IF t.prog.create THEN {Fn("#globals")} ELSE {}, {}, t, Entries(t))
<1> DEFINE p == t.prog
           x == [do |-> "define", label |-> Fn("#globals")]
           g == [i \in 1 .. Len(p.globals) |-> [do |-> "global", pc |-> p.globals[i]]]
           y == [do |-> "callentry"]
           C == Entries(t)
<1>1. Globals(p) = When(p.create, <<x>> \o g \o <<y>>)
  BY DEF Globals, Define
<1>2. Len(p.globals) \in Nat /\ \A i \in 1 .. Len(p.globals) : OptBlock(p.globals[i].init, 1, t)
  BY DEF PCodeOK, RoutinesOK
<1>3. x.do = "define" /\ x.label = Fn("#globals") /\ y.do = "callentry"
  OBVIOUS
<1> HIDE DEF x, y
<1>4. Step(x, Ground, Ground, t, C)
  BY <1>3, GroundState DEF Step, Kinds
<1>5. Starts(<<x>>, {Fn("#globals")}, {}, t, C)
  <2>1. Opening(x)
    BY <1>3 DEF Opening
  <2>2. Places(x, t, <<>>) = {Fn("#globals")} /\ Ids(x, t) = {} /\ Unseen(x, t) = {}
    BY <1>3 DEF Places, Ids, Unseen
  <2>3. Starts(<<x>>, Places(x, t, <<>>), {}, t, C)
    BY <1>4, <2>1, <2>2, StartsOne
  <2> QED BY <2>2, <2>3
<1>6. Starts(<<y>>, {}, {}, t, C)
  <2>1. Fn(p.entry) \in C
    BY DEF PCodeOK, RoutinesOK, Entries, RoutineLabels
  <2>2. Step(y, Ground, Ground, t, C)
    BY <1>3, <2>1, GroundState DEF Step, Kinds
  <2> QED BY <1>3, <2>2, StartsPlain
<1>7. Starts(g, {}, {}, t, C)
  <2>1. g = [i \in 1 .. Len(p.globals) |-> g[i]]
    OBVIOUS
  <2>2. \A i \in 1 .. Len(p.globals) : g[i].do = "global" /\ g[i].pc = p.globals[i]
    OBVIOUS
  <2>3. IsSeq(g) /\ Len(g) = Len(p.globals)
    <3> HIDE DEF g
    <3> QED BY <1>2, <2>1, SeqMap
  <2> HIDE DEF g
  <2>4. \A i \in 1 .. Len(p.globals) : Step(g[i], Ground, Ground, t, C)
    <3> SUFFICES ASSUME NEW i \in 1 .. Len(p.globals) PROVE Step(g[i], Ground, Ground, t, C)
      OBVIOUS
    <3>1. g[i].do = "global" /\ OptBlock(g[i].pc.init, 1, t)
      BY <1>2, <2>2
    <3> QED BY <3>1, GroundState DEF Step, Kinds
  <2>5. \A i \in 1 .. Len(p.globals) :
          Places(g[i], t, <<>>) = {} /\ Ids(g[i], t) = {} /\ Unseen(g[i], t) = {}
    BY <2>2 DEF Places, Ids, Unseen
  <2>6. PlacesOf(g, t, <<>>) = {} /\ Apart(g, t, <<>>)
    BY <2>3, <2>5 DEF PlacesOf, Apart, Clear
  <2>7. \A i \in 1 .. Len(p.globals) : g[i].do \in {"global", "routine"}
    BY <2>2
  <2>8. \A i \in 1 .. Len(p.globals) : Ids(g[i], t) \subseteq {} /\ Unseen(g[i], t) \subseteq {}
    BY <2>5
  <2>9. \A i \in 1 .. Len(p.globals) :
          g[i].do \in {"global", "routine"} /\ Step(g[i], Ground, Ground, t, C)
    BY <2>4, <2>7
  <2> QED BY <1>2, <2>1, <2>6, <2>8, <2>9, StartsMap
<1> HIDE DEF g, C
<1>8. Starts(<<x>> \o g, {Fn("#globals")} \cup {}, {} \cup {}, t, C)
  BY <1>5, <1>7, StartsJoin
<1>9. {} \cup {} = {} /\ {Fn("#globals")} \cup {} = {Fn("#globals")}
  OBVIOUS
<1>10. Starts(<<x>> \o g, {Fn("#globals")}, {}, t, C)
  BY <1>8, <1>9
<1>11. Starts(<<x>> \o g \o <<y>>, {Fn("#globals")} \cup {}, {} \cup {}, t, C)
  BY <1>6, <1>10, StartsJoin
<1>12. Starts(<<x>> \o g \o <<y>>, {Fn("#globals")}, {}, t, C)
  BY <1>9, <1>11
<1>13. CASE p.create
  BY <1>1, <1>12, <1>13 DEF When, C
<1>14. CASE ~p.create
  BY <1>1, <1>14, StartsNone DEF When
<1> QED BY <1>13, <1>14

LEMMA RoutinesStart ==
    ASSUME NEW t, PCodeOK(t)
    PROVE  /\ \E I : Starts(Routines(t.prog), RoutineLabels(t), I, t, Entries(t))
           /\ Fn("#globals") \notin RoutineLabels(t)
<1> DEFINE rs == t.prog.routines
           n == Len(rs)
           f == [i \in 1 .. n |-> [do |-> "routine", r |-> rs[i]]]
           body(i) == IF rs[i].defined THEN rs[i].body ELSE <<>>
           I == IdsOf(f, t)
<1>1. /\ n \in Nat
      /\ \A i \in 1 .. n : rs[i].name # "#globals"
      /\ \A i, j \in 1 .. n : i # j =>
           /\ rs[i].name # rs[j].name
           /\ OfBlock(body(i), t, "ids") \cap OfBlock(body(j), t, "ids") = {}
  BY DEF PCodeOK, RoutinesOK
<1>2. f = [i \in 1 .. n |-> f[i]] /\ \A i \in 1 .. n : f[i].do = "routine" /\ f[i].r = rs[i]
  OBVIOUS
<1>3. Routines(t.prog) = f
  BY DEF Routines
<1> HIDE DEF f
<1>4. IsSeq(f) /\ Len(f) = n
  BY <1>1, <1>2, SeqMap
<1>5. \A i \in 1 .. n : BodyOf(rs[i]) = body(i)
  BY DEF BodyOf
<1> HIDE DEF body
<1>6. \A i \in 1 .. n :
        /\ Places(f[i], t, <<>>) = {Fn(rs[i].name)}
        /\ Ids(f[i], t) = OfBlock(body(i), t, "ids") /\ Unseen(f[i], t) = OfBlock(body(i), t, "ids")
  BY <1>2, <1>5 DEF Places, Ids, Unseen
<1>7. \A x, y : Fn(x) = Fn(y) => x = y
  BY DEF Fn
<1>8. Apart(f, t, <<>>)
  <2> SUFFICES ASSUME NEW i \in 1 .. n, NEW j \in 1 .. n, i # j
               PROVE  Clear(f[i], f[j], t, <<>>)
    BY <1>4 DEF Apart
  <2>1. Fn(rs[i].name) # Fn(rs[j].name)
    BY <1>1, <1>7
  <2>2. OfBlock(body(i), t, "ids") \cap OfBlock(body(j), t, "ids") = {}
    BY <1>1
  <2> QED BY <1>6, <2>1, <2>2 DEF Clear
<1>9. PlacesOf(f, t, <<>>) = RoutineLabels(t)
  <2>1. \A l : l \in PlacesOf(f, t, <<>>) <=> \E i \in 1 .. n : l = Fn(rs[i].name)
    BY <1>4, <1>6 DEF PlacesOf
  <2>2. \A l : l \in RoutineLabels(t) <=> \E i \in 1 .. n : l = Fn(rs[i].name)
    BY DEF RoutineLabels, Names
  <2> QED BY <2>1, <2>2
<1>10. \A i \in 1 .. n : Ids(f[i], t) \subseteq I /\ Unseen(f[i], t) \subseteq I
  BY <1>4, <1>6 DEF IdsOf
<1>11. \A i \in 1 .. n : f[i].do \in {"global", "routine"} /\ Step(f[i], Ground, Ground, t, Entries(t))
  <2> SUFFICES ASSUME NEW i \in 1 .. n PROVE Step(f[i], Ground, Ground, t, Entries(t))
    BY <1>2
  <2>1. IsRoutine(f[i].r, t)
    BY <1>2 DEF IsRoutine
  <2> QED BY <1>2, <2>1, GroundState DEF Step, Kinds
<1> HIDE DEF I
<1>12. Starts(f, RoutineLabels(t), I, t, Entries(t))
  BY <1>1, <1>2, <1>8, <1>9, <1>10, <1>11, StartsMap
<1>13. Fn("#globals") \notin RoutineLabels(t)
  BY <1>1, <1>7 DEF RoutineLabels, Names
<1> QED BY <1>3, <1>12, <1>13

LEMMA GenInitInv ==
    ASSUME GenInit
    PROVE  CodeInv
<1> DEFINE C == Entries(T)
           G == IF prog.create THEN {Fn("#globals")} ELSE {}
<1>1. /\ prog \in Programs /\ work = Loader(prog) \o Globals(prog) \o Routines(prog)
      /\ linker = <<>> /\ cases = <<>> /\ nextLabel = 1 /\ depth.exp = 0 /\ default = NoLabel
  BY DEF GenInit, LinkerInit
<1>2. PCodeOK(T) /\ T.prog = prog
  BY <1>1, TreeOK DEF T, Tree
<1>3. PICK I : Starts(Routines(prog), RoutineLabels(T), I, T, C)
  BY <1>2, RoutinesStart
<1>4. Fn("#globals") \notin RoutineLabels(T)
  BY <1>2, RoutinesStart
<1>5. Starts(work, C, I, T, C)
  <2>1. Starts(Loader(prog), {}, {}, T, C) /\ Starts(Globals(prog), G, {}, T, C)
    BY <1>2, LoaderStarts, GlobalsStart
  <2>2. C = {} \cup G \cup RoutineLabels(T)
    BY <1>2 DEF Entries
  <2>3. G \cap RoutineLabels(T) = {}
    BY <1>4
  <2> HIDE DEF G, C
  <2>4. Starts(Loader(prog) \o Globals(prog), {} \cup G, {} \cup {}, T, C)
    BY <2>1, StartsJoin
  <2>5. {} \cup G = G /\ {} \cup {} = {} /\ {} \cup I = I /\ {} \cap I = {}
    OBVIOUS
  <2>6. Starts(Loader(prog) \o Globals(prog), G, {}, T, C)
    BY <2>4, <2>5
  <2>7. Starts(work, G \cup RoutineLabels(T), {} \cup I, T, C)
    BY <1>1, <1>3, <2>3, <2>5, <2>6, StartsJoin
  <2> QED BY <2>2, <2>5, <2>7
<1>6. DOMAIN linker = {} /\ DOMAIN cases = {}
  BY <1>1
<1>7. LabelsInv
  <2>1. Shape(work, C, I, I, {}, T, cases)
    BY <1>1, <1>5 DEF Starts
  <2>2. Injective(cases) /\ \A id \in DOMAIN cases : cases[id] \in DOMAIN linker
    BY <1>6 DEF Injective
  <2>3. ASSUME NEW i \in 1 .. Len(work) PROVE Sits(work[i], linker, cases, T)
    <3>1. Opening(work[i])
      BY <1>5 DEF Starts
    <3>2. CASE Firm(work[i])
      <4>1. \A l \in Places(work[i], T, cases) : \E name : l = Fn(name)
        BY <3>1, <3>2 DEF Places, Opening, Firm
      <4> QED BY <1>6, <3>2, <4>1, FnNoOff DEF Sits
    <3>3. CASE ~Firm(work[i])
      <4>1. Places(work[i], T, cases) = {}
        BY <3>1, <3>3 DEF Places, Opening, Firm
      <4> QED BY <4>1 DEF Sits
    <3> QED BY <3>2, <3>3
  <2>4. nextLabel \in Nat
    BY <1>1
  <2> QED BY <1>6, <2>1, <2>2, <2>3, <2>4 DEF LabelsInv, LabelsOK, Shape
<1>8. Way(C)
  <2>1. Regs(Ground, C)
    BY <1>1 DEF Regs, Ground
  <2>2. \A name \in Names(T) : Fn(name) \in C
    BY DEF Entries, RoutineLabels
  <2>3. \A l \in C : NoOff(l)
    BY FnNoOff DEF Entries, RoutineLabels
  <2>4. PlacesOf(work, T, cases) = C
    BY <1>1, <1>5 DEF Starts, Shape
  <2>5. Known(C)
    BY <1>6, <2>2, <2>3, <2>4 DEF Known
  <2> QED BY <1>5, <2>1, <2>5, GroundState DEF Way, Starts
<1> QED BY <1>1, <1>7, <1>8 DEF CodeInv

-----------------------------------------------------------------------------
(***************************************************************************)
(* The invariant of the generator, and what follows from it.               *)
(***************************************************************************)
LEMMA KeepStill ==
    ASSUME CodeInv, UNCHANGED genVars
    PROVE  CodeInv'
<1>1. UNCHANGED <<linker, prog, work, nextLabel, depth, fn, brk, cont, default, cases, messages>>
  BY DEF genVars, ctxVars, linkerVars
<1>2. T' = T /\ (NoError' <=> NoError)
  BY <1>1 DEF T, NoError
<1>3. PICK C : Way(C)
  BY DEF CodeInv
<1>4. PICK s \in State, u \in State : Regs(s, C) /\ Known(C) /\ Leads(work, s, u, T, C)
  BY <1>3 DEF Way
<1>5. Regs(s, C)'
  BY <1>1, <1>4 DEF Regs
<1>6. Known(C)'
  BY <1>1, <1>2, <1>4 DEF Known
<1>7. Way(C)'
  BY <1>1, <1>2, <1>4, <1>5, <1>6 DEF Way
<1>8. LabelsInv'
  BY <1>1, <1>2 DEF LabelsInv, CodeInv
<1> QED BY <1>1, <1>7, <1>8 DEF CodeInv

LEMMA KeepItems ==
    ASSUME CodeInv, LinkerInv,
           \/ EmitIns \/ EmitJump \/ ResolveLabel \/ DefineRoutineLabel
           \/ AdjustDepth \/ AdoptInit \/ Restore \/ PassAssert \/ DropExpression
    PROVE  CodeInv'
BY KeepEmitIns, KeepEmitJump, KeepResolveLabel, KeepDefine, KeepAdjustDepth, KeepAdoptInit,
   KeepRestore, KeepPassAssert, KeepDropExpression

LEMMA KeepExpressions ==
    ASSUME CodeInv,
           \/ CodeConst \/ CodeConstantVariable \/ CodeVariable \/ CodeAssignment
           \/ CodeStore \/ CodeOperator \/ CodeLogicalAND \/ CodeLogicalOR
           \/ CodeConditional \/ CodeCall \/ CodeArguments \/ CodeJsr \/ CodeACTION
           \/ CodeSituation \/ CodeExpressionEnd
    PROVE  CodeInv'
BY KeepConst, KeepConstantVariable, KeepVariable, KeepAssignment, KeepStore, KeepOperator,
   KeepLogicalAND, KeepLogicalOR, KeepConditional, KeepCall, KeepArguments, KeepJsr, KeepACTION,
   KeepSituation, KeepExpressionEnd

LEMMA KeepStatements ==
    ASSUME CodeInv,
           \/ CodeDeclaration \/ CodeStatement \/ CodeBreak \/ CodeContinue
           \/ CodeReturn \/ CodeSetReturn \/ CodeLeave
           \/ CodeIf \/ CodeDo \/ CodeWhile \/ CodeFor \/ CodeSwitch \/ JumpToDefault
           \/ ScanStatement \/ ScanCase \/ ScanDefault \/ ScanOther \/ CodeCase
    PROVE  CodeInv'
BY KeepDeclaration, KeepStatement, KeepBreak, KeepReturn, KeepSetReturn, KeepLeave, KeepIf, KeepDo,
   KeepWhile, KeepFor, KeepSwitch, KeepJumpToDefault, KeepScanStatement, KeepScanCase,
   KeepScanDefault, KeepScanOther, KeepCase

LEMMA KeepRoutines ==
    ASSUME CodeInv, CodeRoutine \/ BeginRoutine \/ CodeGlobal \/ CodeCallEntry
    PROVE  CodeInv'
BY KeepRoutine, KeepMissingBody, KeepBegin, KeepGlobal, KeepCallEntry

(* For every program the parser can hand over, the work that is left leads *)
(* from the depth of the expression stack to the end of the script, the    *)
(* labels it places have no place yet and are placed once, and every jump  *)
(* that waits has a label the work still places.                           *)
THEOREM CodeInvariant == GenSpec => []CodeInv
<1>1. GenInit => CodeInv
  BY GenInitInv
<1>2. CodeInv /\ LinkerInv /\ [GenNext]_genVars => CodeInv'
  <2> SUFFICES ASSUME CodeInv, LinkerInv, [GenNext]_genVars
               PROVE  CodeInv'
    OBVIOUS
  <2>1. CASE UNCHANGED genVars
    BY <2>1, KeepStill
  <2>2. CASE GenNext
    BY <2>2, KeepItems, KeepExpressions, KeepStatements, KeepRoutines DEF GenNext
  <2> QED BY <2>1, <2>2
<1>3. GenSpec => []LinkerInv
  BY GeneratorLinks, LinkerInvariant, PTL
<1> QED BY <1>1, <1>2, <1>3, PTL DEF GenSpec

(* Where an assertion of the generator is next, it holds. *)
LEMMA NextAsserts ==
    ASSUME CodeInv
    PROVE  AssertsHold
<1>1. ASSUME Doing("assert") PROVE depth.exp = 0
  <2>1. PICK C, s, v, u :
          /\ Here(C, s, v, u) /\ Step(Head1, s, v, T, C) /\ s \in State /\ v \in State
          /\ Regs(s, C) /\ Head1.do = "assert"
    BY <1>1, PopHead
  <2>2. s.exp = 0
    BY <2>1 DEF Step
  <2> QED BY <2>1, <2>2 DEF Regs
<1>2. ASSUME Doing("resolve") \/ Doing("define")
      PROVE  /\ Doing("resolve") => Head1.label \in DOMAIN linker
             /\ EntryOf(Head1.label).nOffset = 0
  <2>1. work # <<>> /\ Head1.do \in {"resolve", "define"}
    BY <1>2 DEF Doing
  <2>2. LabelsOK(work, linker, cases, nextLabel, T)
    BY DEF CodeInv, LabelsInv
  <2>3. 1 \in 1 .. Len(work)
    <3>1. IsSeq(work)
      BY <2>2 DEF LabelsOK
    <3>2. Len(work) >= 1 /\ Len(work) \in Nat
      BY <2>1, <3>1, SeqTail, SeqLength
    <3> QED BY <3>2
  <2>4. Sits(Head1, linker, cases, T)
    BY <2>2, <2>3 DEF LabelsOK, Head1
  <2>5. Places(Head1, T, cases) = {Head1.label}
    BY <2>1 DEF Places
  <2>6. /\ Head1.label \in DOMAIN linker => linker[Head1.label].nOffset = 0
        /\ ~Firm(Head1) => Head1.label \in DOMAIN linker
    BY <2>4, <2>5 DEF Sits
  <2>7. Doing("resolve") => ~Firm(Head1)
    BY DEF Doing, Firm
  <2> QED BY <2>6, <2>7 DEF EntryOf, Undefined
<1> QED BY <1>1, <1>2 DEF AssertsHold

(* The assertions of the generator hold for every program the parser can   *)
(* hand over: m_nExpDepth is 0 between statements and around globals, and  *)
(* ForwardResolve and DefineLabel get labels without a place.              *)
THEOREM AssertsAlwaysHold == GenSpec => []AssertsHold
<1>1. CodeInv => AssertsHold
  BY NextAsserts
<1> QED BY <1>1, CodeInvariant, PTL

(* Once nothing is left to code, no jump waits. *)
LEMMA EndPatched ==
    ASSUME CodeInv, LinkerInv, ContinuesPlaced
    PROVE  JumpsPatched
<1> SUFFICES ASSUME work = <<>>, NoError, NEW s \in DOMAIN jumps, disp[s] = Unwritten
             PROVE  FALSE
  BY DEF JumpsPatched, Generated, Failed, Dangling, NoError
<1>1. PICK C : Way(C)
  BY DEF CodeInv
<1>2. Known(C)
  BY <1>1 DEF Way
<1> DEFINE l == jumps[s]
<1>3. /\ l \in DOMAIN linker /\ linker[l] \in Entry /\ s \in Nat
      /\ IF linker[l].nOffset = 0 THEN s \in linker[l].links /\ disp[s] = Unwritten
         ELSE disp[s] = linker[l].nOffset - s
  BY DEF LinkerInv, LinkerTypeOK, JumpsLinked
<1> HIDE DEF l
<1>4. linker[l].nOffset = 0
  <2> SUFFICES ASSUME linker[l].nOffset # 0 PROVE FALSE
    OBVIOUS
  <2>1. disp[s] \in Int
    BY <1>3 DEF Entry
  <2> QED BY <2>1, LinkerAssumption
<1>5. l \in C
  BY <1>2, <1>3, <1>4 DEF Known
<1>6. PlacesOf(work, T, cases) = {}
  <2>1. 1 .. Len(work) = {}
    OBVIOUS
  <2> QED BY <2>1 DEF PlacesOf
<1>7. PlacedIn(l, linker)
  BY <1>2, <1>5, <1>6 DEF Known
<1> QED BY <1>4, <1>7 DEF PlacedIn

(* Every jump of a script that is written out has its operand, for every   *)
(* program without a continue in a do loop whose condition is a constant   *)
(* that the optimiser removes: with one, no label is placed for it.        *)
THEOREM JumpsAlwaysPatched ==
    ASSUME ContinuesPlaced
    PROVE  GenSpec => []JumpsPatched
<1>1. CodeInv /\ LinkerInv => JumpsPatched
  BY EndPatched
<1>2. GenSpec => []LinkerInv
  BY GeneratorLinks, LinkerInvariant, PTL
<1> QED BY <1>1, <1>2, CodeInvariant, PTL
=============================================================================
