----------------------------- MODULE NscEncoding -----------------------------
(***************************************************************************)
(* How CNscCodeGenerator writes instructions into a buffer that grows, and *)
(* how NscScriptDecompile finds them again: each knows by itself how long  *)
(* an instruction is.  Operands are cells; what they are does not matter   *)
(* here, but for the length of a string.                                   *)
(***************************************************************************)
EXTENDS Integers, Sequences, FiniteSets, SequencesExt

CONSTANTS Capacities,    \* what NscInitialScript may be, in bytes
          NscMaxScript,
          Lengths,       \* of the strings
          Files, Lines,  \* of the source
          Depths,        \* of the stack where an intrinsic is used
          Limit          \* how many operations a script has

ASSUME EncodingAssumption == /\ Capacities \subseteq Nat /\ \A c \in Capacities : c > 13
                             /\ NscMaxScript \in Nat /\ Lengths \subseteq Nat /\ Depths \subseteq Nat
                             /\ IsFiniteSet(Files) /\ Files = 0 .. Cardinality(Files) - 1

VARIABLES output,    \* the instructions written: [op, type, at, length, operand]
          buffer,    \* m_pauchOut and m_pauchCodeEnd - m_pauchCode, and what went wrong
          lineStart, \* m_pauchLineStart - m_pauchCode
          asLines,   \* m_asLines, each with the file it is of
          asFiles,   \* per file, nOutputIndex and nFileIndex
          usedFiles, \* m_nUsedFiles
          invoked,   \* the intrinsic coded last
          stage,     \* "code", "refused", "written" or "listed"
          listing    \* what the disassembler has found, and where it is

encodingVars == <<output, buffer, lineStart, asLines, asFiles, usedFiles, invoked, stage, listing>>

HeaderSize == 13   \* "NCS V1.0" and the size

-----------------------------------------------------------------------------
(* An instruction is written in pieces: each asks for room, and then       *)
(* writes; the buffer grows by ExpandOutputBuffer (expand).                *)
Piece(room, bytes, expand) == [room |-> room, bytes |-> bytes, expand |-> expand]
Default == 32
Exactly(bytes) == <<Piece(bytes, bytes, Default)>>

ExpandOutputBuffer(b, expand) ==
    LET nNewSize == b.capacity * 2 + expand
    IN IF nNewSize >= NscMaxScript THEN [b EXCEPT !.tooLarge = TRUE]
       ELSE [b EXCEPT !.capacity = nNewSize]

(* beyond: how many bytes were ever written behind the end. *)
Put(b, piece) ==
    LET room == IF b.out + piece.room > b.capacity THEN ExpandOutputBuffer(b, piece.expand) ELSE b
        end == room.out + piece.bytes
    IN IF room.tooLarge THEN room
       ELSE [room EXCEPT !.out = end, !.beyond = IF end - room.capacity > @ THEN end - room.capacity ELSE @]

Instruction(op, type, pieces, operand) ==
    [op |-> op, type |-> type, pieces |-> pieces, operand |-> operand]

CodeUnaryOp(op, type) == Instruction(op, type, Exactly(2), <<>>)

(* Faulty: a comparison of structures has no size behind it. *)
CodeBinaryOpShort(op, type) == Instruction(op, type, Exactly(2), <<>>)

CodeBinaryOp(op, type) ==
    LET bytes == IF type = "TT" THEN 4 ELSE 2
    IN Instruction(op, type, <<Piece(bytes, bytes, bytes)>>, <<>>)

CodeMOVSP(n) == Instruction("MOVSP", "none", Exactly(6), <<n>>)
CodeJump(op) == Instruction(op, "none", Exactly(6), <<>>)
CodeCP(op, nStackSize) == Instruction(op, "copy", Exactly(8), <<nStackSize>>)
CodeDESTRUCT == Instruction("DESTRUCT", "copy", Exactly(8), <<>>)

(* Faulty: asks for as much room as a jump takes. *)
CodeSTORE_STATEShort == Instruction("STORE_STATE", "state", <<Piece(6, 10, Default)>>, <<>>)

CodeSTORE_STATE == Instruction("STORE_STATE", "state", Exactly(10), <<>>)
CodeINC(op) == Instruction(op, "I", Exactly(6), <<>>)
CodeNOP == CodeUnaryOp("NOP", "none")
CodeRSADD(type) == CodeUnaryOp("RSADD", type)
CodeACTION == Instruction("ACTION", "none", <<Piece(4, 5, Default)>>, <<>>)

(* The opcode and its type, then the value; strings and JSON have a length. *)
CodeCONST(type, value) ==
    Instruction("CONST", type,
                Append(Exactly(2), IF type \in {"S", "JSON"}
                                   THEN Piece(value + 2, value + 2, value + 2)
                                   ELSE Piece(4, 4, Default)), <<value>>)

Vector(instruction) == <<instruction, instruction, instruction>>

-----------------------------------------------------------------------------
(* The intrinsics: instead of a call, a few instructions that put their    *)
(* answer where the return value is and drop the argument.                 *)
Returned == CodeCP("CPDOWNSP", 2)
Simple(n) == <<CodeCONST("I", n), Returned, CodeMOVSP(1)>>
SAVEBP == CodeUnaryOp("SAVEBP", "none")
RESTOREBP == CodeUnaryOp("RESTOREBP", "none")

CodeIntrinsicReadBP == <<SAVEBP, Returned, RESTOREBP>>
CodeIntrinsicWriteBP ==
    <<SAVEBP, CodeCP("CPTOPSP", 2), Returned, CodeMOVSP(1), RESTOREBP, CodeMOVSP(1)>>
CodeIntrinsicReadRelativeSP(nSPDepth) == Simple(nSPDepth)
CodeIntrinsicReadPC == Simple(buffer.out - HeaderSize)

(* Faulty: takes off the depth at the second SAVEBP. *)
CodeIntrinsicReadSPDeep(nExpDepth) ==
    <<CodeRSADD("I"), CodeCONST("I", nExpDepth + 3), SAVEBP, SAVEBP, CodeCP("CPDOWNSP", 4),
      RESTOREBP, RESTOREBP, CodeBinaryOp("SUB", "II"), Returned, CodeMOVSP(1)>>

CodeIntrinsicReadSP(nExpDepth) ==
    <<CodeRSADD("I"), CodeCONST("I", nExpDepth + 2), SAVEBP, SAVEBP, CodeCP("CPDOWNSP", 4),
      RESTOREBP, RESTOREBP, CodeBinaryOp("SUB", "II"), Returned, CodeMOVSP(1)>>

CodeInvokeIntrinsic(name, nSPDepth, nExpDepth) ==
    CASE name = "ReadBP" -> CodeIntrinsicReadBP
      [] name = "WriteBP" -> CodeIntrinsicWriteBP
      [] name = "ReadRelativeSP" -> CodeIntrinsicReadRelativeSP(nSPDepth)
      [] name = "ReadSP" -> CodeIntrinsicReadSP(nExpDepth)
      [] name = "ReadPC" -> CodeIntrinsicReadPC

(* The room they ask for before they start, and by how much they grow. *)
IntrinsicRoom(name) == CASE name = "ReadBP" -> Piece(12, 0, Default)
                         [] name = "WriteBP" -> Piece(32, 0, Default)
                         [] name = "ReadSP" -> Piece(40, 0, 40)
                         [] OTHER -> Piece(18, 0, Default)

-----------------------------------------------------------------------------
Single ==
    {CodeUnaryOp(op, "I") : op \in {"NEG", "COMP", "NOT"}}
    \cup {CodeBinaryOp("ADD", type) : type \in {"II", "FV", "EFFEFF"}}
    \cup {CodeBinaryOp("EQUAL", "TT"), CodeBinaryOp("LOGAND", "II")}
    \cup {CodeMOVSP(1), CodeJump("JSR"), CodeJump("JZ"), CodeUnaryOp("RETN", "none")}
    \cup {CodeCP("CPTOPBP", 1), CodeCP("CPDOWNSP", 1)}
    \cup {CodeDESTRUCT, CodeSTORE_STATE, CodeINC("INCISP"), CodeNOP, CodeRSADD("EFF"), CodeACTION}
    \cup {CodeCONST(type, 0) : type \in {"I", "F", "O", "LOC"}}
    \cup {CodeCONST(type, n) : type \in {"S", "JSON"}, n \in Lengths}

Nothing == [name |-> "none", code |-> <<>>, sp |-> 0, exp |-> 0, pc |-> 0]

EncodingInit ==
    /\ output = <<>>
    /\ \E c \in Capacities :
         buffer = [out |-> HeaderSize, capacity |-> c, beyond |-> 0, tooLarge |-> FALSE, n |-> 0]
    /\ lineStart = HeaderSize /\ asLines = <<>>
    /\ asFiles = [f \in Files |-> [nOutputIndex |-> -1, nFileIndex |-> -1]] /\ usedFiles = 0
    /\ invoked = Nothing
    /\ stage = "code"
    /\ listing = [at |-> HeaderSize - 5, found |-> 0, lost |-> FALSE]

(* Writes instructions one after the other. *)
Entry(i, at, b) == [op |-> i.op, type |-> i.type, at |-> at, length |-> b.out - at, operand |-> i.operand]
Written(b, i) == LET first == Put(b, i.pieces[1])
                 IN IF Len(i.pieces) = 1 THEN first ELSE Put(first, i.pieces[2])
After(b, code) ==
    LET s[n \in 0 .. Len(code)] ==
          IF n = 0 THEN [buffer |-> b, output |-> output]
          ELSE LET t == s[n - 1]
                   room == Written(t.buffer, code[n])
               IN [buffer |-> room, output |-> Append(t.output, Entry(code[n], t.buffer.out, room))]
    IN s[Len(code)]

Emit(b, code) ==
    LET after == After(b, code) IN
    /\ stage = "code" /\ buffer.n < Limit
    /\ buffer' = [after.buffer EXCEPT !.n = @ + 1]
    /\ output' = after.output
    /\ stage' = IF after.buffer.tooLarge THEN "refused" ELSE "code"
    /\ UNCHANGED <<lineStart, asLines, asFiles, usedFiles, listing>>

(* CodeData sees to it that the buffer is not full; the ends of routines   *)
(* are written without it. *)
NotFull == Piece(1, 0, Default)

Code(i) == (\E b \in {buffer, Put(buffer, NotFull)} : Emit(b, <<i>>)) /\ invoked' = Nothing
CodeVector(i) == Emit(Put(buffer, Piece(6, 0, Default)), Vector(i)) /\ invoked' = Nothing

InvokeIntrinsic(name, nSPDepth, nExpDepth) ==
    LET code == CodeInvokeIntrinsic(name, nSPDepth, nExpDepth) IN
    /\ Emit(Put(buffer, IntrinsicRoom(name)), code)
    /\ invoked' = [name |-> name, code |-> code, sp |-> nSPDepth, exp |-> nExpDepth,
                   pc |-> buffer.out - HeaderSize]

-----------------------------------------------------------------------------
(* MarkUsedFile: the numbers files have in the debug file, in the order    *)
(* they are used; entry n also says which file has number n.               *)
(* Faulty: says it in the entry of the file. *)
MarkedInPlace(files, f) ==
    IF files[f].nOutputIndex # -1 THEN files
    ELSE [files EXCEPT ![f].nFileIndex = f, ![f].nOutputIndex = usedFiles]

Marked(files, f) ==
    IF files[f].nOutputIndex # -1 THEN files
    ELSE [files EXCEPT ![usedFiles].nFileIndex = f, ![f].nOutputIndex = usedFiles]

(* AddLine: the code since m_pauchLineStart is that of a line; a second    *)
(* entry of the line that was added last is left out.                      *)
AddLine(f, line) ==
    LET files == Marked(asFiles, f)
        nFile == files[f].nOutputIndex
    IN
    /\ stage = "code" /\ buffer.n < Limit
    /\ asFiles' = files
    /\ usedFiles' = usedFiles + (IF asFiles[f].nOutputIndex = -1 THEN 1 ELSE 0)
    /\ asLines' = IF asLines # <<>> /\ Last(asLines).nFile = nFile /\ Last(asLines).nLine = line
                  THEN asLines
                  ELSE Append(asLines, [nFile |-> nFile, nLine |-> line, start |-> lineStart,
                                        end |-> buffer.out, of |-> f])
    /\ lineStart' = buffer.out
    /\ buffer' = [buffer EXCEPT !.n = @ + 1]
    /\ invoked' = Nothing
    /\ UNCHANGED <<output, stage, listing>>

(* Without a line: jumps and the like belong to none. *)
SkipLine ==
    /\ stage = "code" /\ lineStart # buffer.out
    /\ lineStart' = buffer.out
    /\ UNCHANGED <<output, buffer, asLines, asFiles, usedFiles, invoked, stage, listing>>

(* The end of GenerateOutput: a full buffer is one that may have run over. *)
Finish ==
    /\ stage = "code"
    /\ stage' = IF buffer.out >= buffer.capacity THEN "refused" ELSE "written"
    /\ UNCHANGED <<output, buffer, lineStart, asLines, asFiles, usedFiles, invoked, listing>>

-----------------------------------------------------------------------------
(* NscScriptDecompile: how long it takes an instruction to be, 0 where it  *)
(* knows none. *)
Simples == {"RSADD", "NEG", "COMP", "NOT"}
Plain == {"RETN", "SAVEBP", "RESTOREBP", "NOP"}
Jumps == {"MOVSP", "JMP", "JSR", "JZ", "JNZ"}
Copies == {"CPDOWNSP", "CPTOPSP", "CPDOWNBP", "CPTOPBP", "DESTRUCT"}
Increments == {"DECISP", "INCISP", "DECIBP", "INCIBP"}

BinaryOps == {"ADD", "SUB", "EQUAL", "LOGAND"}

Length(i) ==
    CASE i.op \in Simples -> 2
      [] i.op \in Plain /\ i.type = "none" -> 2
      [] i.op \in Jumps /\ i.type = "none" -> 6
      [] i.op \in Copies /\ i.type = "copy" -> 8
      [] i.op \in Increments /\ i.type = "I" -> 6
      [] i.op = "ACTION" /\ i.type = "none" -> 5
      [] i.op = "STORE_STATE" -> 10
      [] i.op = "T" -> 5
      [] i.op = "CONST" /\ i.type \in {"I", "F", "O"} -> 6
      [] i.op = "CONST" /\ i.type = "S" -> 4 + i.operand[1]
      [] i.op \in BinaryOps -> IF i.type = "TT" THEN 4 ELSE 2
      [] OTHER -> 0

(* The instruction at an offset; there is none inside of one. *)
All == <<[op |-> "T", type |-> "none", at |-> HeaderSize - 5, length |-> 5, operand |-> <<>>]>> \o output
Here == {i \in ToSet(All) : i.at = listing.at}

ListInstruction ==
    /\ stage = "written" /\ ~listing.lost /\ listing.at < buffer.out
    /\ \/ \E i \in Here :
            LET length == Length(i)
            IN listing' = IF length = 0 \/ i.at + length > buffer.out
                          THEN [listing EXCEPT !.lost = TRUE]
                          ELSE [listing EXCEPT !.at = @ + length, !.found = @ + 1]
       \/ Here = {} /\ listing' = [listing EXCEPT !.lost = TRUE]
    /\ UNCHANGED <<output, buffer, lineStart, asLines, asFiles, usedFiles, invoked, stage>>

EndOfListing ==
    /\ stage = "written" /\ (listing.lost \/ listing.at >= buffer.out)
    /\ stage' = "listed"
    /\ UNCHANGED <<output, buffer, lineStart, asLines, asFiles, usedFiles, invoked, listing>>

Names == {"ReadBP", "WriteBP", "ReadRelativeSP", "ReadSP", "ReadPC"}

EncodingNext ==
    \/ \E i \in Single : Code(i)
    \/ CodeVector(CodeRSADD("F")) \/ CodeVector(CodeCONST("F", 0))
    \/ \E name \in Names, sp \in Depths, exp \in Depths \ {0} : InvokeIntrinsic(name, sp, exp)
    \/ \E f \in Files, line \in Lines : AddLine(f, line)
    \/ SkipLine \/ Finish \/ ListInstruction \/ EndOfListing

EncodingSpec == EncodingInit /\ [][EncodingNext]_encodingVars

-----------------------------------------------------------------------------
(* Straight code on the machine NscExec describes: the stack and the base  *)
(* pointer. *)
Step(m, i) ==
    LET size == Len(m.stack)
        slot == size - i.operand[1] + 1
        top == m.stack[size]
    IN CASE i.op = "CONST" -> [m EXCEPT !.stack = Append(@, i.operand[1])]
         [] i.op = "RSADD" -> [m EXCEPT !.stack = Append(@, 0)]
         [] i.op = "SAVEBP" -> [stack |-> Append(m.stack, m.bp), bp |-> size]
         [] i.op = "RESTOREBP" -> [stack |-> Front(m.stack), bp |-> top]
         [] i.op = "CPDOWNSP" -> [m EXCEPT !.stack[slot] = top]
         [] i.op = "CPTOPSP" -> [m EXCEPT !.stack = Append(@, m.stack[slot])]
         [] i.op = "MOVSP" -> [m EXCEPT !.stack = SubSeq(@, 1, slot - 1)]
         [] i.op = "SUB" -> [m EXCEPT !.stack = Append(SubSeq(@, 1, size - 2), @[size - 1] - top)]

Callers == 2   \* cells of the callers of the routine
Before == [stack |-> [n \in 1 .. Callers + invoked.sp + invoked.exp |-> 100 + n], bp |-> 1]
Afterwards ==
    LET m[n \in 0 .. Len(invoked.code)] ==
          IF n = 0 THEN Before ELSE Step(m[n - 1], invoked.code[n])
    IN m[Len(invoked.code)]
Answered(n) == Append(Front(Before.stack), n)

-----------------------------------------------------------------------------
(* The disassembler finds every instruction the generator writes, and      *)
(* nothing else: the two agree about how long each is.  It knows constants *)
(* of the two engine types neither by name nor by length, and is lost      *)
(* behind one.                                                             *)
FindsInstructions ==
    /\ listing.lost => \E i \in Here : i.op = "CONST" /\ i.type \in {"LOC", "JSON"}
    /\ stage = "listed" /\ ~listing.lost => listing.found = Len(output) + 1

(* Nothing but the last byte of an ACTION is written behind the end of the *)
(* buffer, whatever room is left: every other Code... asks for as much as  *)
(* it writes.                                                              *)
OverrunByAction ==
    buffer.beyond > 0 => buffer.beyond = 1 /\ \E n \in DOMAIN output : output[n].op = "ACTION"

(* The files of the debug file are those of its lines: each number was     *)
(* given to one file, and says which.                                      *)
FilesNamed ==
    /\ \A n \in DOMAIN asLines : asFiles[asLines[n].nFile].nFileIndex = asLines[n].of
    /\ usedFiles = Cardinality({f \in Files : asFiles[f].nOutputIndex # -1})

(* An intrinsic leaves its answer where the call's would be, and the rest  *)
(* of the stack and the base pointer as they were; WriteBP takes its       *)
(* argument as the base pointer.  ReadSP answers with the stack of the     *)
(* scope, below the expression it is in.                                   *)
IntrinsicsAnswer ==
    invoked.name # "none" =>
        Afterwards =
            CASE invoked.name = "ReadBP" -> [Before EXCEPT !.stack = Answered(Before.bp)]
              [] invoked.name = "WriteBP" -> [stack |-> Front(Before.stack), bp |-> Last(Before.stack)]
              [] invoked.name = "ReadRelativeSP" -> [Before EXCEPT !.stack = Answered(invoked.sp)]
              [] invoked.name = "ReadSP" -> [Before EXCEPT !.stack = Answered(Callers + invoked.sp)]
              [] invoked.name = "ReadPC" -> [Before EXCEPT !.stack = Answered(invoked.pc)]
=============================================================================
