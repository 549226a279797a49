-------------------------- MODULE NscEncodingProofs --------------------------
(***************************************************************************)
(* Proofs about NscEncoding, for scripts of any length, buffers, strings,  *)
(* files and depths: the disassembler finds the instructions, only an      *)
(* ACTION overruns the buffer, the files of the debug file are named, and  *)
(* intrinsics answer.                                                      *)
(***************************************************************************)
EXTENDS NscEncoding, FiniteSetTheorems, WellFoundedInduction, TLAPS

(* Every non-empty set of natural numbers has a least element. *)
LEMMA LessThanWellFounded == IsWellFoundedOn({ss \in Nat \X Nat : ss[1] < ss[2]}, Nat)
BY NatLessThanWellFounded DEF OpToRel

LEMMA Least ==
    ASSUME NEW T, T \subseteq Nat, T # {}
    PROVE  \E x \in T : \A y \in T : x <= y
<1> DEFINE R == {ss \in Nat \X Nat : ss[1] < ss[2]}
<1>1. \A x, y \in Nat : y < x => <<y, x>> \in R
  OBVIOUS
<1>2. IsWellFoundedOn(R, Nat)
  BY LessThanWellFounded
<1> HIDE DEF R
<1>3. PICK x \in T : \A y \in T : ~ (<<y, x>> \in R)
  BY <1>2, WFMin, Zenon
<1>4. ASSUME NEW y \in T PROVE ~ (y < x)
  <2>1. x \in Nat /\ y \in Nat
    OBVIOUS
  <2> QED BY <1>1, <1>3, <2>1, Zenon
<1>5. ASSUME NEW y \in T PROVE x <= y
  BY <1>4
<1> QED BY <1>5

-----------------------------------------------------------------------------
(* Constants the disassembler does not know. *)
Unknown(i) == i.op = "CONST" /\ i.type \in {"LOC", "JSON"}

(* A piece asks for as much as it writes, but for that of an ACTION, and   *)
(* the buffer grows by at least as much. *)
GoodPiece(p, op) ==
    /\ p.room \in Nat /\ p.bytes \in Nat \ {0} /\ p.expand \in Nat /\ p.bytes <= p.expand
    /\ p.bytes <= p.room \/ (p.bytes = p.room + 1 /\ op = "ACTION")

Bytes(i) == IF Len(i.pieces) = 1 THEN i.pieces[1].bytes
            ELSE i.pieces[1].bytes + i.pieces[2].bytes

(* An instruction is as long as the disassembler takes it to be. *)
Good(i) ==
    /\ Len(i.pieces) = 1 \/ (Len(i.pieces) = 2 /\ GoodPiece(i.pieces[2], i.op))
    /\ GoodPiece(i.pieces[1], i.op)
    /\ Length(i) = Bytes(i) \/ (Length(i) = 0 /\ Unknown(i))

LEMMA ExactlyGood ==
    ASSUME NEW n \in Nat \ {0}, n <= 32, NEW op, NEW type, NEW operand,
           LET i == Instruction(op, type, Exactly(n), operand)
           IN Length(i) = n
    PROVE  Good(Instruction(op, type, Exactly(n), operand))
<1> DEFINE i == Instruction(op, type, Exactly(n), operand)
<1>1. i.pieces = <<[room |-> n, bytes |-> n, expand |-> 32]>> /\ i.op = op
  BY DEF Instruction, Exactly, Piece, Default
<1>2. Length(i) = n
  OBVIOUS
<1> HIDE DEF i
<1>3. Len(i.pieces) = 1 /\ i.pieces[1] = [room |-> n, bytes |-> n, expand |-> 32]
  BY <1>1
<1>4. GoodPiece(i.pieces[1], i.op) /\ Bytes(i) = n
  BY <1>3 DEF GoodPiece, Bytes
<1>5. Good(i)
  BY <1>2, <1>3, <1>4 DEF Good
<1> QED BY <1>5 DEF i

LEMMA UnaryGood ==
    ASSUME NEW op, NEW type, op \in Simples \/ (op \in Plain /\ type = "none")
    PROVE  Good(CodeUnaryOp(op, type))
<1>1. Length(CodeUnaryOp(op, type)) = 2
  BY DEF CodeUnaryOp, Instruction, Length, Simples, Plain, Jumps, Copies, Increments, BinaryOps
<1> QED BY <1>1, ExactlyGood DEF CodeUnaryOp

LEMMA SixGood ==
    ASSUME NEW op, NEW type, NEW operand,
           (op \in Jumps /\ type = "none") \/ (op \in Increments /\ type = "I")
    PROVE  Good(Instruction(op, type, Exactly(6), operand))
<1>1. Length(Instruction(op, type, Exactly(6), operand)) = 6
  BY DEF Instruction, Length, Simples, Plain, Jumps, Copies, Increments, BinaryOps
<1> QED BY <1>1, ExactlyGood

LEMMA CopyGood ==
    ASSUME NEW op \in Copies, NEW operand
    PROVE  Good(Instruction(op, "copy", Exactly(8), operand))
<1>1. Length(Instruction(op, "copy", Exactly(8), operand)) = 8
  BY DEF Instruction, Length, Simples, Plain, Jumps, Copies, Increments, BinaryOps
<1> QED BY <1>1, ExactlyGood

LEMMA StoreStateGood == Good(CodeSTORE_STATE)
<1>1. Length(CodeSTORE_STATE) = 10
  BY DEF CodeSTORE_STATE, Instruction, Length, Simples, Plain, Jumps, Copies, Increments, BinaryOps
<1> QED BY <1>1, ExactlyGood DEF CodeSTORE_STATE

LEMMA ActionGood == Good(CodeACTION)
<1> DEFINE i == CodeACTION
<1>1. i.pieces = <<[room |-> 4, bytes |-> 5, expand |-> 32]>> /\ i.op = "ACTION"
  BY DEF CodeACTION, Instruction, Piece, Default
<1>2. Length(i) = 5
  BY DEF CodeACTION, Instruction, Length, Simples, Plain, Jumps, Copies, Increments, BinaryOps
<1> HIDE DEF i
<1>3. Len(i.pieces) = 1 /\ i.pieces[1] = [room |-> 4, bytes |-> 5, expand |-> 32]
  BY <1>1
<1>4. GoodPiece(i.pieces[1], i.op) /\ Bytes(i) = 5
  BY <1>1, <1>3 DEF GoodPiece, Bytes
<1> QED BY <1>2, <1>3, <1>4 DEF Good, i

LEMMA BinaryGood ==
    ASSUME NEW op \in BinaryOps, NEW type
    PROVE  Good(CodeBinaryOp(op, type))
<1> DEFINE i == CodeBinaryOp(op, type)
           n == IF type = "TT" THEN 4 ELSE 2
<1>1. i.pieces = <<[room |-> n, bytes |-> n, expand |-> n]>> /\ i.op = op
  BY DEF CodeBinaryOp, Instruction, Piece
<1>2. Length(i) = n
  BY DEF CodeBinaryOp, Instruction, Length, Simples, Plain, Jumps, Copies, Increments, BinaryOps
<1>3. n \in Nat \ {0}
  OBVIOUS
<1> HIDE DEF i, n
<1>4. Len(i.pieces) = 1 /\ i.pieces[1] = [room |-> n, bytes |-> n, expand |-> n]
  BY <1>1
<1>5. GoodPiece(i.pieces[1], i.op) /\ Bytes(i) = n
  BY <1>3, <1>4 DEF GoodPiece, Bytes
<1> QED BY <1>2, <1>4, <1>5 DEF Good, i

LEMMA ConstGood ==
    ASSUME NEW type \in {"I", "F", "O", "LOC", "S", "JSON"}, NEW value,
           type \in {"S", "JSON"} => value \in Nat
    PROVE  Good(CodeCONST(type, value))
<1> DEFINE i == CodeCONST(type, value)
           q == IF type \in {"S", "JSON"} THEN Piece(value + 2, value + 2, value + 2)
                ELSE Piece(4, 4, Default)
           n == IF type \in {"S", "JSON"} THEN value + 2 ELSE 4
<1>1. i.pieces = Append(Exactly(2), q) /\ i.op = "CONST" /\ i.type = type /\ i.operand = <<value>>
  BY DEF CodeCONST, Instruction
<1>2. Length(i) = IF type \in {"I", "F", "O"} THEN 6 ELSE IF type = "S" THEN 4 + value ELSE 0
  BY DEF CodeCONST, Instruction, Length, Simples, Plain, Jumps, Copies, Increments, BinaryOps
<1>3. /\ n \in Nat \ {0} /\ q.room = n /\ q.bytes = n /\ q.expand \in Nat /\ n <= q.expand
  BY DEF Piece, Default
<1> HIDE DEF q
<1>4. Exactly(2) = <<[room |-> 2, bytes |-> 2, expand |-> 32]>>
  BY DEF Exactly, Piece, Default
<1> HIDE DEF i
<1>5. /\ Len(i.pieces) = 2 /\ i.pieces[2] = q
      /\ i.pieces[1] = [room |-> 2, bytes |-> 2, expand |-> 32]
  BY <1>1, <1>4
<1>6. GoodPiece(i.pieces[1], i.op)
  BY <1>5 DEF GoodPiece
<1>7. GoodPiece(i.pieces[2], i.op)
  BY <1>3, <1>5 DEF GoodPiece
<1>8. Bytes(i) = 2 + n
  BY <1>3, <1>5 DEF Bytes
<1>9. Length(i) = Bytes(i) \/ (Length(i) = 0 /\ Unknown(i))
  <2>1. CASE type \in {"I", "F", "O"}
    BY <1>2, <1>8, <2>1
  <2>2. CASE type = "S"
    BY <1>2, <1>8, <2>2
  <2>3. CASE type \in {"LOC", "JSON"}
    BY <1>1, <1>2, <2>3 DEF Unknown
  <2> QED BY <2>1, <2>2, <2>3
<1> QED BY <1>5, <1>6, <1>7, <1>9 DEF Good, i

LEMMA SingleGood == ASSUME NEW i \in Single PROVE Good(i)
<1>1. ASSUME NEW op \in {"NEG", "COMP", "NOT"} PROVE Good(CodeUnaryOp(op, "I"))
  BY UnaryGood DEF Simples
<1>2. ASSUME NEW type \in {"II", "FV", "EFFEFF"} PROVE Good(CodeBinaryOp("ADD", type))
  BY BinaryGood DEF BinaryOps
<1>3. Good(CodeBinaryOp("EQUAL", "TT")) /\ Good(CodeBinaryOp("LOGAND", "II"))
  BY BinaryGood DEF BinaryOps
<1>4. /\ Good(CodeMOVSP(1)) /\ Good(CodeJump("JSR")) /\ Good(CodeJump("JZ"))
      /\ Good(CodeINC("INCISP"))
  BY SixGood DEF CodeMOVSP, CodeJump, CodeINC, Jumps, Increments
<1>5. Good(CodeUnaryOp("RETN", "none")) /\ Good(CodeNOP) /\ Good(CodeRSADD("EFF"))
  BY UnaryGood DEF CodeNOP, CodeRSADD, Simples, Plain
<1>6. Good(CodeCP("CPTOPBP", 1)) /\ Good(CodeCP("CPDOWNSP", 1)) /\ Good(CodeDESTRUCT)
  BY CopyGood DEF CodeCP, CodeDESTRUCT, Copies
<1>7. ASSUME NEW type \in {"I", "F", "O", "LOC"} PROVE Good(CodeCONST(type, 0))
  BY ConstGood
<1>8. ASSUME NEW type \in {"S", "JSON"}, NEW n \in Lengths PROVE Good(CodeCONST(type, n))
  <2>1. n \in Nat
    BY EncodingAssumption
  <2> QED BY <2>1, ConstGood
<1> QED BY <1>1, <1>2, <1>3, <1>4, <1>5, <1>6, <1>7, <1>8, StoreStateGood, ActionGood DEF Single

GoodCode(code) == code # <<>> /\ Len(code) \in Nat /\ \A n \in 1 .. Len(code) : Good(code[n])

LEMMA IntrinsicGood ==
    ASSUME NEW name \in Names, NEW sp \in Nat, NEW exp \in Nat
    PROVE  GoodCode(CodeInvokeIntrinsic(name, sp, exp))
<1>1. Good(SAVEBP) /\ Good(RESTOREBP) /\ Good(CodeRSADD("I"))
  BY UnaryGood DEF SAVEBP, RESTOREBP, CodeRSADD, Simples, Plain
<1>2. Good(Returned) /\ Good(CodeCP("CPTOPSP", 2)) /\ Good(CodeCP("CPDOWNSP", 4))
  BY CopyGood DEF Returned, CodeCP, Copies
<1>3. Good(CodeMOVSP(1))
  BY SixGood DEF CodeMOVSP, Jumps
<1>4. Good(CodeBinaryOp("SUB", "II"))
  BY BinaryGood DEF BinaryOps
<1>5. \A n : Good(CodeCONST("I", n))
  BY ConstGood
<1>6. \A n : GoodCode(Simple(n))
  BY <1>2, <1>3, <1>5 DEF GoodCode, Simple
<1>7. GoodCode(CodeIntrinsicReadBP)
  BY <1>1, <1>2 DEF GoodCode, CodeIntrinsicReadBP
<1>8. GoodCode(CodeIntrinsicWriteBP)
  BY <1>1, <1>2, <1>3 DEF GoodCode, CodeIntrinsicWriteBP
<1>9. GoodCode(CodeIntrinsicReadSP(exp))
  BY <1>1, <1>2, <1>3, <1>4, <1>5 DEF GoodCode, CodeIntrinsicReadSP
<1>10. GoodCode(CodeIntrinsicReadRelativeSP(sp)) /\ GoodCode(CodeIntrinsicReadPC)
  BY <1>6 DEF CodeIntrinsicReadRelativeSP, CodeIntrinsicReadPC
<1> QED BY <1>7, <1>8, <1>9, <1>10 DEF CodeInvokeIntrinsic, Names

LEMMA VectorGood ==
    ASSUME NEW i, Good(i)
    PROVE  GoodCode(Vector(i)) /\ GoodCode(<<i>>)
BY DEF GoodCode, Vector

-----------------------------------------------------------------------------
(* The buffer: at most one byte is behind its end, and so long as it grows *)
(* there is room again. *)
Buffer == [out : Nat, capacity : Nat, beyond : Nat, tooLarge : BOOLEAN, n : Nat]

Sound(b) == /\ b \in Buffer
            /\ b.capacity > 13 /\ b.beyond <= 1
            /\ ~b.tooLarge => b.out <= b.capacity + 1

Asks(p, op) ==
    /\ p.room \in Nat /\ p.bytes \in Nat /\ p.expand \in Nat /\ p.bytes <= p.expand
    /\ p.bytes <= p.room \/ (p.bytes = p.room + 1 /\ op = "ACTION")

LEMMA PutSound ==
    ASSUME NEW b, Sound(b), NEW p, NEW op, Asks(p, op)
    PROVE  LET c == Put(b, p) IN
           /\ Sound(c) /\ c.n = b.n /\ c.out >= b.out
           /\ c.beyond = b.beyond \/ (c.beyond = 1 /\ op = "ACTION")
           /\ ~c.tooLarge => ~b.tooLarge /\ c.out = b.out + p.bytes
<1> DEFINE c == Put(b, p)
           d == IF b.out + p.room > b.capacity THEN ExpandOutputBuffer(b, p.expand) ELSE b
           end == d.out + p.bytes
<1>1. /\ b \in Buffer /\ b.out \in Nat /\ b.capacity \in Nat /\ b.capacity > 13
      /\ b.beyond \in Nat /\ b.beyond <= 1 /\ b.tooLarge \in BOOLEAN
  BY DEF Sound, Buffer
<1>2. p.room \in Nat /\ p.bytes \in Nat /\ p.expand \in Nat /\ p.bytes <= p.expand
  BY DEF Asks
<1>3. c = IF d.tooLarge THEN d
          ELSE [d EXCEPT !.out = end, !.beyond = IF end - d.capacity > @ THEN end - d.capacity ELSE @]
  BY DEF Put
<1>0. c = Put(b, p)
  OBVIOUS
<1>4. CASE b.out + p.room > b.capacity /\ b.capacity * 2 + p.expand >= NscMaxScript
  <2>1. d = [b EXCEPT !.tooLarge = TRUE]
    BY <1>4 DEF ExpandOutputBuffer
  <2>2. d \in Buffer /\ d.tooLarge = TRUE /\ d.out = b.out /\ d.beyond = b.beyond /\ d.n = b.n
        /\ d.capacity = b.capacity
    BY <1>1, <2>1 DEF Buffer
  <2> HIDE DEF d
  <2>3. c = d
    BY <1>3, <2>2
  <2> HIDE DEF c
  <2> QED BY <1>0, <1>1, <2>2, <2>3 DEF Sound
<1>5. CASE b.out + p.room > b.capacity /\ ~(b.capacity * 2 + p.expand >= NscMaxScript)
  <2> DEFINE size == b.capacity * 2 + p.expand
  <2>1. d = [b EXCEPT !.capacity = size]
    BY <1>5 DEF ExpandOutputBuffer
  <2>2. size \in Nat /\ size > 13
    BY <1>1, <1>2
  <2>3. d \in Buffer /\ d.tooLarge = b.tooLarge /\ d.out = b.out /\ d.beyond = b.beyond
        /\ d.n = b.n /\ d.capacity = size
    BY <1>1, <2>1, <2>2 DEF Buffer
  <2> HIDE DEF d
  <2>4. CASE b.tooLarge
    <3>1. c = d /\ d.tooLarge = TRUE
      BY <1>1, <1>3, <2>3, <2>4
    <3> HIDE DEF c, size
    <3> QED BY <1>0, <1>1, <2>2, <2>3, <3>1 DEF Sound
  <2>5. CASE ~b.tooLarge
    <3>1. b.out <= b.capacity + 1
      BY <2>5 DEF Sound
    <3>2. end \in Nat /\ end <= size /\ end = b.out + p.bytes
      BY <1>1, <1>2, <2>3, <3>1
    <3>3. ~(end - size > b.beyond)
      BY <1>1, <2>2, <3>2
    <3>4. c = [d EXCEPT !.out = end, !.beyond = b.beyond]
      BY <1>3, <2>3, <2>5, <3>3
    <3>5. c \in Buffer /\ c.out = end /\ c.beyond = b.beyond /\ c.capacity = size
          /\ c.tooLarge = b.tooLarge /\ c.n = b.n
      BY <1>1, <2>3, <3>2, <3>4 DEF Buffer
    <3> HIDE DEF c, size, end
    <3> QED BY <1>0, <1>1, <1>2, <2>2, <2>5, <3>2, <3>5 DEF Sound
  <2> QED BY <2>4, <2>5
<1>6. CASE ~(b.out + p.room > b.capacity)
  <2>1. d = b
    BY <1>6
  <2> HIDE DEF d
  <2>2. CASE b.tooLarge
    <3>1. c = b
      BY <1>3, <2>1, <2>2
    <3> HIDE DEF c
    <3> QED BY <1>0, <1>1, <2>2, <3>1 DEF Sound
  <2>3. CASE ~b.tooLarge
    <3> DEFINE beyond == IF end - b.capacity > b.beyond THEN end - b.capacity ELSE b.beyond
    <3>1. c = [b EXCEPT !.out = end, !.beyond = beyond]
      BY <1>3, <2>1, <2>3
    <3>2. end \in Nat /\ end = b.out + p.bytes /\ end <= b.capacity + 1
      BY <1>1, <1>2, <1>6, <2>1 DEF Asks
    <3>3. beyond \in Nat /\ beyond <= 1 /\ (beyond = b.beyond \/ (beyond = 1 /\ op = "ACTION"))
      <4>1. CASE p.bytes <= p.room
        BY <1>1, <1>2, <1>6, <3>2, <4>1
      <4>2. CASE p.bytes = p.room + 1 /\ op = "ACTION"
        BY <1>1, <1>2, <1>6, <3>2, <4>2
      <4> QED BY <4>1, <4>2 DEF Asks
    <3> HIDE DEF beyond, end
    <3>4. c \in Buffer /\ c.out = end /\ c.beyond = beyond /\ c.capacity = b.capacity
          /\ c.tooLarge = b.tooLarge /\ c.n = b.n
      BY <1>1, <3>1, <3>2, <3>3 DEF Buffer
    <3> HIDE DEF c
    <3> QED BY <1>0, <1>1, <1>2, <2>3, <3>2, <3>3, <3>4 DEF Sound
  <2> QED BY <2>2, <2>3
<1> QED BY <1>4, <1>5, <1>6

LEMMA WrittenSound ==
    ASSUME NEW b, Sound(b), NEW i, Good(i)
    PROVE  LET c == Written(b, i) IN
           /\ Sound(c) /\ c.n = b.n /\ c.out >= b.out
           /\ c.beyond = b.beyond \/ (c.beyond = 1 /\ i.op = "ACTION")
           /\ ~c.tooLarge => ~b.tooLarge /\ c.out = b.out + Bytes(i)
           /\ Bytes(i) \in Nat \ {0}
<1> DEFINE p == i.pieces[1]
           q == i.pieces[2]
           d == Put(b, p)
           e == Put(d, q)
<1>1. GoodPiece(p, i.op) /\ Asks(p, i.op)
  BY DEF Good, GoodPiece, Asks
<1>2. /\ Sound(d) /\ d.n = b.n /\ d.out >= b.out
      /\ d.beyond = b.beyond \/ (d.beyond = 1 /\ i.op = "ACTION")
      /\ ~d.tooLarge => ~b.tooLarge /\ d.out = b.out + p.bytes
  BY <1>1, PutSound
<1>3. p.bytes \in Nat \ {0} /\ b.out \in Nat /\ d.out \in Nat
  BY <1>1, <1>2 DEF GoodPiece, Sound, Buffer
<1>4. CASE Len(i.pieces) = 1
  <2>1. Written(b, i) = d /\ Bytes(i) = p.bytes
    BY <1>4 DEF Written, Bytes
  <2> HIDE DEF p, d
  <2> QED BY <1>2, <1>3, <2>1
<1>5. CASE Len(i.pieces) = 2 /\ GoodPiece(q, i.op)
  <2>1. Written(b, i) = e /\ Bytes(i) = p.bytes + q.bytes
    BY <1>5 DEF Written, Bytes
  <2>2. Asks(q, i.op)
    BY <1>5 DEF GoodPiece, Asks
  <2> HIDE DEF d
  <2>3. /\ Sound(e) /\ e.n = d.n /\ e.out >= d.out
        /\ e.beyond = d.beyond \/ (e.beyond = 1 /\ i.op = "ACTION")
        /\ ~e.tooLarge => ~d.tooLarge /\ e.out = d.out + q.bytes
    BY <1>2, <2>2, PutSound
  <2>4. q.bytes \in Nat \ {0} /\ e.out \in Nat
    BY <1>5, <2>3 DEF GoodPiece, Sound, Buffer
  <2> HIDE DEF p, q, e
  <2> QED BY <1>2, <1>3, <2>1, <2>3, <2>4
<1> QED BY <1>4, <1>5 DEF Good

(* What After does, from one instruction to the next. *)
Wrote(t, i) ==
    LET room == Written(t.buffer, i)
    IN [buffer |-> room, output |-> Append(t.output, Entry(i, t.buffer.out, room))]

Run(t, code, N, s) == s = [n \in 0 .. N |-> IF n = 0 THEN t ELSE Wrote(s[n - 1], code[n])]

LEMMA RunExists ==
    ASSUME NEW t, NEW code, NEW K \in Nat
    PROVE  \E s : Run(t, code, K, s)
<1> DEFINE T == {m \in Nat : ~ \E s : Run(t, code, m, s)}
<1>1. SUFFICES ASSUME T # {} PROVE FALSE
  OBVIOUS
<1>2. PICK m \in T : \A y \in T : m <= y
  <2>1. T \subseteq Nat
    OBVIOUS
  <2> HIDE DEF T
  <2> QED BY <1>1, <2>1, Least
<1>3. m \in Nat /\ ~ \E s : Run(t, code, m, s)
  OBVIOUS
<1>4. CASE m = 0
  <2> DEFINE s == [n \in 0 .. 0 |-> t]
  <2>1. s = [n \in 0 .. 0 |-> IF n = 0 THEN t ELSE Wrote(s[n - 1], code[n])]
    OBVIOUS
  <2> QED BY <1>3, <1>4, <2>1 DEF Run
<1>5. CASE m # 0
  <2>1. m - 1 \in Nat /\ m - 1 \notin T
    BY <1>2, <1>3, <1>5
  <2>2. PICK g : Run(t, code, m - 1, g)
    BY <2>1
  <2> DEFINE f == [n \in 0 .. m |-> IF n = m THEN Wrote(g[m - 1], code[m]) ELSE g[n]]
             h == [n \in 0 .. m |-> IF n = 0 THEN t ELSE Wrote(f[n - 1], code[n])]
  <2>3. ASSUME NEW n \in 0 .. m PROVE f[n] = h[n]
    <3>1. CASE n = m
      <4>1. n - 1 \in 0 .. m /\ n - 1 # m
        BY <1>3, <1>5, <3>1
      <4>2. f[n - 1] = g[n - 1]
        BY <4>1
      <4> QED BY <1>5, <3>1, <4>2
    <3>2. CASE n # m /\ n # 0
      <4>1. n \in 0 .. m - 1 /\ n - 1 \in 0 .. m /\ n - 1 # m
        BY <1>3, <3>2
      <4>2. f[n - 1] = g[n - 1] /\ f[n] = g[n]
        BY <3>2, <4>1
      <4>3. g[n] = Wrote(g[n - 1], code[n])
        BY <2>2, <3>2, <4>1 DEF Run
      <4> QED BY <3>2, <4>2, <4>3
    <3>3. CASE n = 0
      <4>1. g[0] = t
        <5>1. 0 \in 0 .. m - 1
          BY <1>3, <1>5
        <5> QED BY <2>2, <5>1 DEF Run
      <4> QED BY <1>5, <3>3, <4>1
    <3> QED BY <3>1, <3>2, <3>3
  <2>4. f = h
    <3>1. f = [n \in 0 .. m |-> f[n]] /\ h = [n \in 0 .. m |-> h[n]]
      OBVIOUS
    <3> HIDE DEF f, h
    <3> QED BY <2>3, <3>1
  <2>5. Run(t, code, m, f)
    <3>1. h = [n \in 0 .. m |-> IF n = 0 THEN t ELSE Wrote(f[n - 1], code[n])]
      OBVIOUS
    <3> HIDE DEF f, h
    <3> QED BY <2>4, <3>1 DEF Run
  <2> QED BY <1>3, <2>5
<1> QED BY <1>4, <1>5

LEMMA AfterRuns ==
    ASSUME NEW b, NEW code, Len(code) \in Nat
    PROVE  \E s : /\ Run([buffer |-> b, output |-> output], code, Len(code), s)
                  /\ After(b, code) = s[Len(code)]
<1> DEFINE t == [buffer |-> b, output |-> output]
           s == CHOOSE f : Run(t, code, Len(code), f)
<1>1. Run(t, code, Len(code), s)
  BY RunExists
<1>2. After(b, code) = s[Len(code)]
  BY DEF After, Run, Wrote
<1> QED BY <1>1, <1>2

-----------------------------------------------------------------------------
(* The instructions lie one behind the other, from the header to the end   *)
(* of what is written, each as long as the disassembler takes it to be.    *)
End(o, n) == IF n = 0 THEN HeaderSize ELSE o[n].at + o[n].length

Tiled(o, out) ==
    /\ \A n \in 1 .. Len(o) :
         /\ o[n].at = End(o, n - 1) /\ o[n].at \in Nat /\ o[n].length \in Nat \ {0}
         /\ Length(o[n]) = o[n].length \/ (Length(o[n]) = 0 /\ Unknown(o[n]))
    /\ End(o, Len(o)) = out

Beyond(b, o) == b.beyond > 0 => b.beyond = 1 /\ \E n \in DOMAIN o : o[n].op = "ACTION"

Placed(b, o) == /\ \E S : o \in Seq(S)
                /\ Sound(b) /\ Beyond(b, o)
                /\ ~b.tooLarge => Tiled(o, b.out)

LEMMA SameLength ==
    ASSUME NEW i, NEW e, e.op = i.op, e.type = i.type, e.operand = i.operand
    PROVE  Length(e) = Length(i) /\ (Unknown(e) <=> Unknown(i))
BY DEF Length, Unknown

LEMMA AppendFacts ==
    ASSUME NEW S, NEW o \in Seq(S), NEW e
    PROVE  /\ Append(o, e) \in Seq(S \cup {e})
           /\ Len(o) \in Nat /\ DOMAIN o = 1 .. Len(o)
           /\ Len(Append(o, e)) = Len(o) + 1
           /\ DOMAIN Append(o, e) = 1 .. Len(o) + 1
           /\ \A n \in 1 .. Len(o) : Append(o, e)[n] = o[n]
           /\ Append(o, e)[Len(o) + 1] = e
<1> DEFINE U == S \cup {e}
<1>2. o \in Seq(U) /\ e \in U
  OBVIOUS
<1> HIDE DEF U
<1>3. Append(o, e) \in Seq(U)
  BY <1>2
<1>4. Append(o, e) \in Seq(S \cup {e})
  BY <1>3 DEF U
<1> QED BY <1>2, <1>3, <1>4

LEMMA WrotePlaced ==
    ASSUME NEW t, Placed(t.buffer, t.output), NEW i, Good(i)
    PROVE  LET u == Wrote(t, i) IN Placed(u.buffer, u.output) /\ u.buffer.n = t.buffer.n
<1> DEFINE b == t.buffer
           o == t.output
           c == Written(b, i)
           e == Entry(i, b.out, c)
           p == Append(o, e)
<1>1. Wrote(t, i) = [buffer |-> c, output |-> p]
  BY DEF Wrote
<1>2. Sound(b) /\ Beyond(b, o) /\ (\E S : o \in Seq(S)) /\ (~b.tooLarge => Tiled(o, b.out))
  BY DEF Placed
<1>3. /\ Sound(c) /\ c.n = b.n /\ c.out >= b.out
      /\ c.beyond = b.beyond \/ (c.beyond = 1 /\ i.op = "ACTION")
      /\ ~c.tooLarge => ~b.tooLarge /\ c.out = b.out + Bytes(i)
      /\ Bytes(i) \in Nat \ {0}
  BY <1>2, WrittenSound
<1>4. /\ e.op = i.op /\ e.type = i.type /\ e.operand = i.operand
      /\ e.at = b.out /\ e.length = c.out - b.out
  BY DEF Entry
<1>5. b.out \in Nat /\ c.out \in Nat
  BY <1>2, <1>3 DEF Sound, Buffer
<1>0. PICK S : o \in Seq(S)
  BY <1>2
<1> HIDE DEF b, o, c, e
<1>6. /\ p \in Seq(S \cup {e})
      /\ Len(o) \in Nat /\ DOMAIN o = 1 .. Len(o)
      /\ Len(p) = Len(o) + 1 /\ DOMAIN p = 1 .. Len(o) + 1
      /\ \A n \in 1 .. Len(o) : p[n] = o[n]
      /\ p[Len(o) + 1] = e
  BY <1>0, AppendFacts
<1> HIDE DEF p
<1>7. Beyond(c, p)
  <2>1. CASE c.beyond = b.beyond
    <3>1. ASSUME c.beyond > 0 PROVE c.beyond = 1 /\ \E n \in DOMAIN p : p[n].op = "ACTION"
      <4>1. b.beyond = 1 /\ \E n \in DOMAIN o : o[n].op = "ACTION"
        BY <1>2, <2>1, <3>1 DEF Beyond
      <4>2. PICK n \in 1 .. Len(o) : o[n].op = "ACTION"
        BY <1>6, <4>1
      <4>3. n \in DOMAIN p /\ p[n].op = "ACTION"
        BY <1>6, <4>2
      <4> QED BY <2>1, <4>1, <4>3
    <3> QED BY <3>1 DEF Beyond
  <2>2. CASE c.beyond = 1 /\ i.op = "ACTION"
    <3>1. Len(o) + 1 \in DOMAIN p /\ p[Len(o) + 1].op = "ACTION"
      BY <1>4, <1>6, <2>2
    <3> QED BY <2>2, <3>1 DEF Beyond
  <2> QED BY <1>3, <2>1, <2>2
<1>8. ASSUME ~c.tooLarge PROVE Tiled(p, c.out)
  <2>1. Tiled(o, b.out) /\ c.out = b.out + Bytes(i)
    BY <1>2, <1>3, <1>8
  <2>2. e.length = Bytes(i)
    BY <1>3, <1>4, <1>5, <2>1
  <2>3. Length(e) = Length(i) /\ (Unknown(e) <=> Unknown(i))
    BY <1>4, SameLength
  <2>4. Length(e) = e.length \/ (Length(e) = 0 /\ Unknown(e))
    BY <2>2, <2>3 DEF Good
  <2>5. PICK N \in Nat : N = Len(o)
    BY <1>6
  <2>6. \A n \in 0 .. N : End(p, n) = End(o, n)
    <3>1. ASSUME NEW n \in 0 .. N PROVE End(p, n) = End(o, n)
      <4>1. CASE n = 0
        BY <4>1 DEF End
      <4>2. CASE n # 0
        <5>1. n \in 1 .. Len(o)
          BY <2>5, <4>2
        <5>2. p[n] = o[n]
          BY <1>6, <5>1
        <5> QED BY <4>2, <5>2 DEF End
      <4> QED BY <4>1, <4>2
    <3> QED BY <3>1
  <2>7. End(o, N) = b.out
    BY <2>1, <2>5 DEF Tiled
  <2>8. End(p, N + 1) = c.out
    <3>1. N + 1 # 0 /\ p[N + 1] = e
      BY <1>6, <2>5
    <3> QED BY <1>4, <2>1, <2>2, <3>1 DEF End
  <2>9. ASSUME NEW n \in 1 .. N + 1
        PROVE  /\ p[n].at = End(p, n - 1) /\ p[n].at \in Nat /\ p[n].length \in Nat \ {0}
               /\ Length(p[n]) = p[n].length \/ (Length(p[n]) = 0 /\ Unknown(p[n]))
    <3>1. CASE n = N + 1
      <4>1. n - 1 = N /\ p[n] = e
        BY <1>6, <2>5, <3>1
      <4>2. End(p, n - 1) = b.out
        <5>1. N \in 0 .. N
          OBVIOUS
        <5> QED BY <2>6, <2>7, <4>1, <5>1
      <4> QED BY <1>3, <1>4, <1>5, <2>2, <2>4, <4>1, <4>2
    <3>2. CASE n # N + 1
      <4>1. n \in 1 .. Len(o) /\ n - 1 \in 0 .. N
        BY <2>5, <3>2
      <4>2. p[n] = o[n] /\ End(p, n - 1) = End(o, n - 1)
        BY <1>6, <2>6, <4>1
      <4> QED BY <2>1, <4>1, <4>2 DEF Tiled
    <3> QED BY <3>1, <3>2
  <2>10. Len(p) = N + 1
    BY <1>6, <2>5
  <2> QED BY <2>8, <2>9, <2>10 DEF Tiled
<1>9. Placed(c, p)
  BY <1>3, <1>6, <1>7, <1>8 DEF Placed
<1> QED BY <1>1, <1>3, <1>9 DEF b

LEMMA RunPlaced ==
    ASSUME NEW t, Placed(t.buffer, t.output), NEW code, GoodCode(code),
           NEW s, Run(t, code, Len(code), s)
    PROVE  LET u == s[Len(code)] IN Placed(u.buffer, u.output) /\ u.buffer.n = t.buffer.n
<1> DEFINE Ok(u) == Placed(u.buffer, u.output) /\ u.buffer.n = t.buffer.n
           T == {m \in 0 .. Len(code) : ~Ok(s[m])}
<1>1. Len(code) \in Nat /\ \A n \in 1 .. Len(code) : Good(code[n])
  BY DEF GoodCode
<1>2. ASSUME T # {} PROVE FALSE
  <2>1. PICK m \in T : \A y \in T : m <= y
    <3>1. T \subseteq Nat
      BY <1>1
    <3> HIDE DEF T
    <3> QED BY <1>2, <3>1, Least
  <2>2. m \in 0 .. Len(code) /\ ~Ok(s[m])
    OBVIOUS
  <2>3. CASE m = 0
    <3>1. s[0] = t
      BY <2>2, <2>3 DEF Run
    <3> QED BY <2>2, <2>3, <3>1
  <2>4. CASE m # 0
    <3>1. m - 1 \in 0 .. Len(code) /\ m \in 1 .. Len(code) /\ ~(m <= m - 1)
      BY <1>1, <2>2, <2>4
    <3>2. m - 1 \notin T
      BY <2>1, <3>1
    <3>3. Ok(s[m - 1])
      BY <3>1, <3>2
    <3>4. s[m] = Wrote(s[m - 1], code[m])
      BY <2>2, <2>4 DEF Run
    <3>5. Ok(s[m])
      <4> DEFINE v == s[m - 1]
                 i == code[m]
      <4>1. Placed(v.buffer, v.output) /\ v.buffer.n = t.buffer.n /\ Good(i) /\ s[m] = Wrote(v, i)
        BY <1>1, <3>1, <3>3, <3>4
      <4> HIDE DEF v, i
      <4>2. Placed(Wrote(v, i).buffer, Wrote(v, i).output) /\ Wrote(v, i).buffer.n = v.buffer.n
        BY <4>1, WrotePlaced
      <4> QED BY <4>1, <4>2
    <3> QED BY <2>2, <3>5
  <2> QED BY <2>3, <2>4
<1>3. Len(code) \in 0 .. Len(code)
  BY <1>1
<1> QED BY <1>2, <1>3

LEMMA AfterPlaced ==
    ASSUME NEW b, Placed(b, output), NEW code, GoodCode(code)
    PROVE  LET u == After(b, code) IN Placed(u.buffer, u.output) /\ u.buffer.n = b.n
<1> DEFINE t == [buffer |-> b, output |-> output]
<1>1. t.buffer = b /\ t.output = output /\ Len(code) \in Nat
  BY DEF GoodCode
<1>2. PICK s : Run(t, code, Len(code), s) /\ After(b, code) = s[Len(code)]
  BY <1>1, AfterRuns
<1> HIDE DEF t
<1> QED BY <1>1, <1>2, RunPlaced

-----------------------------------------------------------------------------
(* The disassembler stands at the first of the instructions it has not     *)
(* found; it is lost at one it does not know, and done at the end. *)
Position(o, found) == IF found = 0 THEN HeaderSize - 5 ELSE End(o, found - 1)

ListingOf(o, l) ==
    /\ l \in [at : Nat, found : Nat, lost : BOOLEAN]
    /\ l.found <= Len(o) + 1 /\ l.at = Position(o, l.found)
    /\ l.lost => l.found \in 1 .. Len(o) /\ Unknown(o[l.found])

Listed ==
    /\ stage \in {"code", "refused", "written", "listed"}
    /\ stage # "refused" => ~buffer.tooLarge
    /\ stage \in {"code", "refused"} => listing = [at |-> HeaderSize - 5, found |-> 0, lost |-> FALSE]
    /\ ListingOf(output, listing)
    /\ stage = "listed" /\ ~listing.lost => listing.found = Len(output) + 1

EncodingInv == Placed(buffer, output) /\ Listed

LEMMA ListingStarts ==
    ASSUME NEW o, Len(o) \in Nat
    PROVE  ListingOf(o, [at |-> HeaderSize - 5, found |-> 0, lost |-> FALSE])
BY DEF ListingOf, Position, HeaderSize

(* The ends of the instructions follow each other. *)
LEMMA EndsGrow ==
    ASSUME NEW o, NEW out, Len(o) \in Nat, Tiled(o, out)
    PROVE  /\ \A n \in 0 .. Len(o) : End(o, n) \in Nat /\ End(o, n) >= HeaderSize
           /\ \A m, n \in 0 .. Len(o) : m < n => End(o, m) < End(o, n)
<1> DEFINE Good2(n) == /\ End(o, n) \in Nat /\ End(o, n) >= HeaderSize
                       /\ \A m \in 0 .. Len(o) : m < n => End(o, m) < End(o, n)
           T == {n \in 0 .. Len(o) : ~Good2(n)}
<1>1. ASSUME T # {} PROVE FALSE
  <2>1. PICK n \in T : \A y \in T : n <= y
    <3>1. T \subseteq Nat
      OBVIOUS
    <3> HIDE DEF T
    <3> QED BY <1>1, <3>1, Least
  <2>2. n \in 0 .. Len(o) /\ ~Good2(n)
    OBVIOUS
  <2>3. CASE n = 0
    <3>1. End(o, n) = 13 /\ HeaderSize = 13
      BY <2>3 DEF End, HeaderSize
    <3>2. \A m \in 0 .. Len(o) : ~(m < n)
      BY <2>3
    <3> QED BY <2>2, <3>1, <3>2
  <2>4. CASE n # 0
    <3>1. n \in 1 .. Len(o) /\ n - 1 \in 0 .. Len(o) /\ ~(n <= n - 1)
      BY <2>2, <2>4
    <3>2. n - 1 \notin T
      BY <2>1, <3>1
    <3>3. Good2(n - 1)
      BY <3>1, <3>2
    <3>4. o[n].at = End(o, n - 1) /\ o[n].length \in Nat \ {0}
      BY <3>1 DEF Tiled
    <3>5. End(o, n) = End(o, n - 1) + o[n].length
      BY <2>4, <3>4 DEF End
    <3>6. PICK before \in Nat, length \in Nat \ {0} : before = End(o, n - 1) /\ length = o[n].length
      BY <3>3, <3>4
    <3>7. End(o, n) \in Nat /\ End(o, n) >= HeaderSize /\ End(o, n - 1) < End(o, n)
      BY <3>3, <3>5, <3>6 DEF HeaderSize
    <3>8. ASSUME NEW m \in 0 .. Len(o), m < n PROVE End(o, m) < End(o, n)
      <4>1. CASE m = n - 1
        BY <3>7, <4>1
      <4>2. CASE m # n - 1
        <5>1. m < n - 1
          BY <2>2, <3>8, <4>2
        <5>2. End(o, m) < End(o, n - 1)
          BY <3>3, <5>1
        <5>3. End(o, m) \in Nat
          <6>1. m \notin T
            BY <2>1, <2>2, <3>8
          <6> QED BY <6>1
        <5> QED BY <3>3, <3>7, <5>2, <5>3
      <4> QED BY <4>1, <4>2
    <3> QED BY <2>2, <3>7, <3>8
  <2> QED BY <2>3, <2>4
<1>2. \A n \in 0 .. Len(o) : Good2(n)
  BY <1>1
<1> QED BY <1>2

(* What the disassembler finds where it stands is the next instruction. *)
LEMMA AllFacts ==
    ASSUME NEW S, output \in Seq(S)
    PROVE  /\ Len(All) = Len(output) + 1 /\ DOMAIN All = 1 .. Len(output) + 1
           /\ All[1] = [op |-> "T", type |-> "none", at |-> HeaderSize - 5, length |-> 5, operand |-> <<>>]
           /\ \A n \in 1 .. Len(output) : All[n + 1] = output[n]
<1> DEFINE t == [op |-> "T", type |-> "none", at |-> HeaderSize - 5, length |-> 5, operand |-> <<>>]
           U == S \cup {t}
<1>1. output \in Seq(U) /\ <<t>> \in Seq(U) /\ Len(<<t>>) = 1 /\ <<t>>[1] = t
  OBVIOUS
<1>2. All = <<t>> \o output
  BY DEF All
<1> HIDE DEF t, U
<1>3. PICK one \in Seq(U) : one = <<t>>
  BY <1>1
<1>4. Len(one) = 1 /\ one[1] = t /\ All = one \o output
  BY <1>1, <1>2, <1>3
<1>5. /\ Len(one \o output) = Len(one) + Len(output)
      /\ DOMAIN (one \o output) = 1 .. Len(one) + Len(output)
      /\ \A n \in 1 .. Len(one) + Len(output) :
           (one \o output)[n] = IF n <= Len(one) THEN one[n] ELSE output[n - Len(one)]
  BY <1>1, <1>3
<1>6. Len(output) \in Nat
  BY <1>1
<1>7. \A n \in 1 .. Len(output) : n + 1 \in 1 .. 1 + Len(output) /\ ~(n + 1 <= 1) /\ n + 1 - 1 = n
  BY <1>6
<1>8. 1 \in 1 .. 1 + Len(output)
  BY <1>6
<1>9. Len(output) + 1 = 1 + Len(output)
  BY <1>6
<1> QED BY <1>4, <1>5, <1>7, <1>8, <1>9 DEF t

LEMMA NextFound ==
    ASSUME EncodingInv, stage = "written", ~listing.lost, listing.at < buffer.out, NEW i
    PROVE  /\ Len(output) \in Nat /\ listing.found <= Len(output)
           /\ listing.found = 0 => (i \in Here <=> i = All[1])
           /\ listing.found # 0 => (i \in Here <=> i = output[listing.found])
<1> DEFINE o == output
           k == listing.found
<1>1. PICK S : o \in Seq(S)
  BY DEF EncodingInv, Placed
<1>2. Len(o) \in Nat /\ Tiled(o, buffer.out) /\ k \in Nat /\ k <= Len(o) + 1
      /\ listing.at = Position(o, k)
  BY <1>1 DEF EncodingInv, Placed, Listed, ListingOf
<1>3. /\ \A n \in 0 .. Len(o) : End(o, n) \in Nat /\ End(o, n) >= HeaderSize
      /\ \A m, n \in 0 .. Len(o) : m < n => End(o, m) < End(o, n)
  BY <1>2, EndsGrow
<1>4. End(o, Len(o)) = buffer.out
  BY <1>2 DEF Tiled
<1>5. k <= Len(o)
  <2>1. CASE k = Len(o) + 1
    <3>1. k # 0 /\ k - 1 = Len(o)
      BY <1>2, <2>1
    <3>2. listing.at = buffer.out
      BY <1>2, <1>4, <3>1 DEF Position
    <3>3. buffer.out \in Nat
      BY DEF EncodingInv, Placed, Sound, Buffer
    <3> QED BY <3>2, <3>3
  <2> QED BY <1>2, <2>1
<1>6. /\ DOMAIN All = 1 .. Len(o) + 1
      /\ All[1].at = HeaderSize - 5
      /\ \A n \in 1 .. Len(o) : All[n + 1] = o[n]
  BY <1>1, AllFacts
<1>7. i \in Here <=> \E n \in 1 .. Len(o) + 1 : i = All[n] /\ i.at = listing.at
  BY <1>6 DEF Here, ToSet
<1>8. \A n \in 1 .. Len(o) : o[n].at = End(o, n - 1) /\ n - 1 \in 0 .. Len(o)
  BY <1>2 DEF Tiled
<1>9. i \in Here <=> \/ i = All[1] /\ listing.at = HeaderSize - 5
                     \/ \E n \in 1 .. Len(o) : i = o[n] /\ End(o, n - 1) = listing.at
  <2>1. \A n \in 1 .. Len(o) + 1 : n = 1 \/ (n - 1 \in 1 .. Len(o) /\ n - 1 + 1 = n)
    BY <1>2
  <2>2. \A n \in 1 .. Len(o) : n + 1 \in 1 .. Len(o) + 1
    BY <1>2
  <2>3. 1 \in 1 .. Len(o) + 1
    BY <1>2
  <2>4. ASSUME i \in Here
        PROVE  \/ i = All[1] /\ listing.at = HeaderSize - 5
               \/ \E n \in 1 .. Len(o) : i = o[n] /\ End(o, n - 1) = listing.at
    <3>1. PICK n \in 1 .. Len(o) + 1 : i = All[n] /\ i.at = listing.at
      BY <1>7, <2>4
    <3>2. CASE n = 1
      BY <1>6, <3>1, <3>2
    <3>3. CASE n # 1
      <4>1. PICK m \in 1 .. Len(o) : m + 1 = n
        BY <2>1, <3>3
      <4>2. i = o[m]
        BY <1>6, <3>1, <4>1
      <4> QED BY <1>8, <3>1, <4>2
    <3> QED BY <3>2, <3>3
  <2>5. ASSUME i = All[1], listing.at = HeaderSize - 5 PROVE i \in Here
    BY <1>6, <1>7, <2>3, <2>5
  <2>6. ASSUME NEW n \in 1 .. Len(o), i = o[n], End(o, n - 1) = listing.at PROVE i \in Here
    BY <1>6, <1>7, <1>8, <2>2, <2>6
  <2> QED BY <2>4, <2>5, <2>6
<1> HIDE DEF o, k
<1>10. CASE k = 0
  <2>1. listing.at = HeaderSize - 5
    BY <1>2, <1>10 DEF Position
  <2>2. \A n \in 1 .. Len(o) : End(o, n - 1) # listing.at
    BY <1>3, <1>8, <2>1 DEF HeaderSize
  <2>3. i \in Here <=> i = All[1]
    BY <1>9, <2>1, <2>2
  <2> QED BY <1>2, <1>5, <1>10, <2>3 DEF o, k
<1>11. CASE k # 0
  <2>1. k \in 1 .. Len(o) /\ k - 1 \in 0 .. Len(o)
    BY <1>2, <1>5, <1>11
  <2>2. listing.at = End(o, k - 1)
    BY <1>2, <1>11 DEF Position
  <2>3. listing.at # HeaderSize - 5
    BY <1>3, <2>1, <2>2 DEF HeaderSize
  <2>4. ASSUME NEW n \in 1 .. Len(o), End(o, n - 1) = listing.at PROVE n = k
    <3>1. n - 1 \in 0 .. Len(o)
      BY <1>8
    <3>2. End(o, n - 1) \in Nat /\ End(o, k - 1) \in Nat
      BY <1>3, <2>1, <3>1
    <3>3. ~(n - 1 < k - 1) /\ ~(k - 1 < n - 1)
      <4>1. ~(End(o, n - 1) < End(o, k - 1)) /\ ~(End(o, k - 1) < End(o, n - 1))
        BY <2>2, <2>4, <3>2
      <4> QED BY <1>3, <2>1, <3>1, <4>1
    <3> QED BY <1>2, <2>1, <3>3
  <2>5. i \in Here <=> i = o[k]
    BY <1>9, <2>1, <2>2, <2>3, <2>4
  <2> QED BY <1>2, <1>5, <1>11, <2>5 DEF o, k
<1> QED BY <1>10, <1>11

-----------------------------------------------------------------------------
LEMMA PlacedCount ==
    ASSUME NEW b, NEW o, Placed(b, o)
    PROVE  Placed([b EXCEPT !.n = @ + 1], o)
<1> DEFINE c == [b EXCEPT !.n = @ + 1]
<1>1. b \in Buffer
  BY DEF Placed, Sound
<1>2. /\ c \in Buffer /\ c.out = b.out /\ c.capacity = b.capacity
      /\ c.beyond = b.beyond /\ c.tooLarge = b.tooLarge
  BY <1>1 DEF Buffer
<1> HIDE DEF c
<1>3. Sound(c) /\ Beyond(c, o)
  BY <1>2 DEF Placed, Sound, Beyond
<1>4. Placed(c, o)
  BY <1>2, <1>3 DEF Placed
<1> QED BY <1>4 DEF c

(* Asking for room writes nothing. *)
LEMMA AskPlaced ==
    ASSUME NEW b, NEW o, Placed(b, o), NEW p, Asks(p, "none"), p.bytes = 0
    PROVE  Placed(Put(b, p), o)
<1> DEFINE c == Put(b, p)
<1>1. /\ Sound(c) /\ c.beyond = b.beyond
      /\ ~c.tooLarge => ~b.tooLarge /\ c.out = b.out + p.bytes
  BY PutSound DEF Placed
<1>2. b.out \in Nat
  BY DEF Placed, Sound, Buffer
<1> HIDE DEF c
<1>3. ~c.tooLarge => ~b.tooLarge /\ c.out = b.out
  BY <1>1, <1>2
<1>4. Beyond(c, o)
  BY <1>1 DEF Placed, Beyond
<1>5. Placed(c, o)
  BY <1>1, <1>3, <1>4 DEF Placed
<1> QED BY <1>5 DEF c

LEMMA EmitKeeps ==
    ASSUME EncodingInv, NEW b, Placed(b, output), NEW code, GoodCode(code), Emit(b, code)
    PROVE  EncodingInv'
<1> DEFINE after == After(b, code)
           c == [after.buffer EXCEPT !.n = @ + 1]
<1>1. Placed(after.buffer, after.output)
  BY AfterPlaced
<1>2. Placed(c, after.output)
  BY <1>1, PlacedCount
<1>3. /\ buffer' = c /\ output' = after.output /\ stage = "code"
      /\ stage' = IF after.buffer.tooLarge THEN "refused" ELSE "code"
      /\ listing' = listing
  BY DEF Emit
<1>4. c.tooLarge = after.buffer.tooLarge
  BY <1>1 DEF Placed, Sound, Buffer
<1> HIDE DEF c
<1> HIDE DEF after
<1>5. Len(output') \in Nat
  <2>1. PICK S : output' \in Seq(S)
    BY <1>1, <1>3 DEF Placed
  <2> QED BY <2>1
<1>6. listing' = [at |-> HeaderSize - 5, found |-> 0, lost |-> FALSE]
  BY <1>3 DEF EncodingInv, Listed
<1>7. ListingOf(output', listing')
  BY <1>5, <1>6, ListingStarts
<1>8. Placed(buffer', output')
  BY <1>2, <1>3
<1>9. Listed'
  BY <1>3, <1>4, <1>6, <1>7 DEF Listed
<1> QED BY <1>8, <1>9 DEF EncodingInv

LEMMA CodeKeeps ==
    ASSUME EncodingInv, NEW i \in Single, Code(i)
    PROVE  EncodingInv'
<1>1. GoodCode(<<i>>)
  BY SingleGood DEF GoodCode
<1>2. Placed(buffer, output) /\ Placed(Put(buffer, NotFull), output)
  <2>1. Asks(NotFull, "none") /\ NotFull.bytes = 0
    BY DEF Asks, NotFull, Piece, Default
  <2> QED BY <2>1, AskPlaced DEF EncodingInv
<1>3. PICK b \in {buffer, Put(buffer, NotFull)} : Emit(b, <<i>>)
  BY DEF Code
<1>4. Placed(b, output)
  BY <1>2
<1> QED BY <1>1, <1>3, <1>4, EmitKeeps

LEMMA VectorKeeps ==
    ASSUME EncodingInv, NEW i, Good(i), CodeVector(i)
    PROVE  EncodingInv'
<1> DEFINE p == Piece(6, 0, Default)
<1>1. Asks(p, "none") /\ p.bytes = 0
  BY DEF Asks, Piece, Default
<1>2. Placed(Put(buffer, p), output)
  BY <1>1, AskPlaced DEF EncodingInv
<1>3. Emit(Put(buffer, p), Vector(i))
  BY DEF CodeVector
<1> QED BY <1>2, <1>3, VectorGood, EmitKeeps

LEMMA IntrinsicKeeps ==
    ASSUME EncodingInv, NEW name \in Names, NEW sp \in Depths, NEW exp \in Depths \ {0},
           InvokeIntrinsic(name, sp, exp)
    PROVE  EncodingInv'
<1> DEFINE p == IntrinsicRoom(name)
           code == CodeInvokeIntrinsic(name, sp, exp)
<1>1. Asks(p, "none") /\ p.bytes = 0
  BY DEF Asks, IntrinsicRoom, Piece, Default, Names
<1>2. Placed(Put(buffer, p), output)
  BY <1>1, AskPlaced DEF EncodingInv
<1>3. Emit(Put(buffer, p), code)
  BY DEF InvokeIntrinsic
<1>4. GoodCode(code)
  BY EncodingAssumption, IntrinsicGood
<1> QED BY <1>2, <1>3, <1>4, EmitKeeps

LEMMA ListKeeps ==
    ASSUME EncodingInv, ListInstruction
    PROVE  EncodingInv'
<1>1. /\ stage = "written" /\ stage' = stage /\ ~listing.lost /\ listing.at < buffer.out
      /\ output' = output /\ buffer' = buffer
  BY DEF ListInstruction
<1>2. Placed(buffer', output')
  BY <1>1 DEF EncodingInv
<1>3. PICK S : output \in Seq(S)
  BY DEF EncodingInv, Placed
<1>4. /\ listing \in [at : Nat, found : Nat, lost : BOOLEAN]
      /\ listing.at = Position(output, listing.found)
      /\ ~buffer.tooLarge /\ Tiled(output, buffer.out)
  BY <1>1 DEF EncodingInv, Listed, ListingOf, Placed
<1> DEFINE k == listing.found
           next == IF k = 0 THEN All[1] ELSE output[k]
<1>5. Len(output) \in Nat /\ k <= Len(output) /\ \A i : i \in Here <=> i = next
  <2>1. ASSUME NEW i
        PROVE  /\ Len(output) \in Nat /\ k <= Len(output)
               /\ i \in Here <=> i = next
    <3>1. /\ Len(output) \in Nat /\ k <= Len(output)
          /\ k = 0 => (i \in Here <=> i = All[1])
          /\ k # 0 => (i \in Here <=> i = output[k])
      BY <1>1, NextFound
    <3> QED BY <3>1
  <2> QED BY <2>1
<1>6. listing' = IF Length(next) = 0 \/ next.at + Length(next) > buffer.out
                 THEN [listing EXCEPT !.lost = TRUE]
                 ELSE [listing EXCEPT !.at = @ + Length(next), !.found = @ + 1]
  <2>1. \/ \E i \in Here : listing' = IF Length(i) = 0 \/ i.at + Length(i) > buffer.out
                                      THEN [listing EXCEPT !.lost = TRUE]
                                      ELSE [listing EXCEPT !.at = @ + Length(i), !.found = @ + 1]
        \/ Here = {}
    BY DEF ListInstruction
  <2>2. next \in Here
    BY <1>5
  <2>3. PICK i \in Here : listing' = IF Length(i) = 0 \/ i.at + Length(i) > buffer.out
                                    THEN [listing EXCEPT !.lost = TRUE]
                                    ELSE [listing EXCEPT !.at = @ + Length(i), !.found = @ + 1]
    BY <2>1, <2>2, Zenon
  <2>4. i = next
    BY <1>5
  <2> QED BY <2>3, <2>4, Zenon
<1>7. /\ \A n \in 0 .. Len(output) : End(output, n) \in Nat /\ End(output, n) >= HeaderSize
      /\ \A m, n \in 0 .. Len(output) : m < n => End(output, m) < End(output, n)
      /\ End(output, Len(output)) = buffer.out
  BY <1>4, <1>5, EndsGrow DEF Tiled
<1>8. \A n \in 0 .. Len(output) : End(output, n) <= buffer.out
  BY <1>5, <1>7
<1>9. next.at = listing.at /\ (Length(next) = 0 => k # 0 /\ Unknown(next))
      /\ (Length(next) # 0 => next.at + Length(next) = End(output, k))
  <2>1. CASE k = 0
    <3>1. next = [op |-> "T", type |-> "none", at |-> HeaderSize - 5, length |-> 5, operand |-> <<>>]
      BY <1>3, <2>1, AllFacts
    <3> HIDE DEF next
    <3>2. next.op = "T" /\ next.type = "none" /\ next.at = HeaderSize - 5
      BY <3>1
    <3>3. Length(next) = 5
      BY <3>2 DEF Length, Simples, Plain, Jumps, Copies, Increments, BinaryOps
    <3>4. listing.at = HeaderSize - 5 /\ End(output, k) = HeaderSize
      BY <1>4, <2>1 DEF Position, End
    <3> QED BY <3>2, <3>3, <3>4 DEF HeaderSize
  <2>2. CASE k # 0
    <3>1. next = output[k] /\ k \in 1 .. Len(output)
      BY <1>4, <1>5, <2>2
    <3> HIDE DEF next
    <3>2. /\ next.at = End(output, k - 1) /\ next.length \in Nat \ {0}
          /\ Length(next) = next.length \/ (Length(next) = 0 /\ Unknown(next))
      BY <1>4, <3>1 DEF Tiled
    <3>3. listing.at = End(output, k - 1) /\ End(output, k) = next.at + next.length
      BY <1>4, <2>2, <3>1 DEF Position, End
    <3> QED BY <2>2, <3>2, <3>3
  <2> QED BY <2>1, <2>2
<1> HIDE DEF next
<1>10. CASE Length(next) = 0
  <2>1. listing' = [listing EXCEPT !.lost = TRUE]
    BY <1>6, <1>10
  <2>2. listing' \in [at : Nat, found : Nat, lost : BOOLEAN]
        /\ listing'.at = listing.at /\ listing'.found = k
    BY <1>4, <2>1
  <2>3. k \in 1 .. Len(output) /\ Unknown(output[k])
    BY <1>4, <1>5, <1>9, <1>10 DEF next
  <2>4. ListingOf(output, listing')
    <3> HIDE DEF k
    <3>1. k \in Nat /\ k <= Len(output) + 1
      BY <1>5, <2>3
    <3>2. listing'.at = Position(output, k)
      BY <1>4, <2>2 DEF k
    <3> QED BY <2>2, <2>3, <3>1, <3>2 DEF ListingOf
  <2>5. listing'.lost = TRUE
    BY <1>4, <2>1
  <2>6. Listed'
    BY <1>1, <1>4, <2>4 DEF Listed
  <2> QED BY <1>2, <2>6 DEF EncodingInv
<1>11. CASE Length(next) # 0
  <2>1. next.at + Length(next) = End(output, k) /\ k \in 0 .. Len(output) /\ next.at = listing.at
    BY <1>4, <1>5, <1>9, <1>11
  <2>2. ~(next.at + Length(next) > buffer.out)
    <3>1. End(output, k) <= buffer.out /\ End(output, k) \in Nat
      BY <1>7, <1>8, <2>1
    <3>2. buffer.out \in Nat
      BY DEF EncodingInv, Placed, Sound, Buffer
    <3> QED BY <2>1, <3>1, <3>2
  <2>3. listing' = [listing EXCEPT !.at = @ + Length(next), !.found = @ + 1]
    BY <1>6, <1>11, <2>2
  <2>4. listing.at + Length(next) = End(output, k) /\ End(output, k) \in Nat
    BY <1>7, <2>1
  <2>5. listing' \in [at : Nat, found : Nat, lost : BOOLEAN] /\ listing'.found = k + 1
        /\ listing'.at = End(output, k) /\ ~listing'.lost
    <3>1. PICK end \in Nat : end = End(output, k) /\ listing.at + Length(next) = end
      BY <2>4
    <3>2. listing' = [listing EXCEPT !.at = end, !.found = k + 1]
      BY <1>4, <2>3, <3>1
    <3>3. k + 1 \in Nat
      BY <1>4
    <3> HIDE DEF k
    <3>4. listing' \in [at : Nat, found : Nat, lost : BOOLEAN]
          /\ listing'.at = end /\ listing'.found = k + 1 /\ listing'.lost = listing.lost
      BY <1>4, <3>1, <3>2, <3>3
    <3> QED BY <1>1, <3>1, <3>4
  <2>6. ListingOf(output, listing')
    <3>1. k + 1 # 0 /\ k + 1 - 1 = k /\ k + 1 <= Len(output) + 1
      BY <1>5, <2>1
    <3> HIDE DEF k
    <3>2. Position(output, k + 1) = End(output, k)
      <4>1. PICK m \in Nat : m = k + 1 /\ m # 0 /\ m - 1 = k
        BY <1>5, <2>1
      <4>2. Position(output, m) = End(output, m - 1)
        BY <4>1 DEF Position
      <4> QED BY <4>1, <4>2
    <3> QED BY <2>5, <3>1, <3>2 DEF ListingOf
  <2>7. Listed'
    BY <1>1, <1>4, <2>6 DEF Listed
  <2> QED BY <1>2, <2>7 DEF EncodingInv
<1> QED BY <1>10, <1>11

LEMMA EndKeeps ==
    ASSUME EncodingInv, EndOfListing
    PROVE  EncodingInv'
<1>1. /\ stage = "written" /\ stage' = "listed" /\ output' = output /\ buffer' = buffer
      /\ listing' = listing /\ (listing.lost \/ listing.at >= buffer.out)
  BY DEF EndOfListing
<1>2. Placed(buffer', output')
  BY <1>1 DEF EncodingInv
<1>3. /\ listing \in [at : Nat, found : Nat, lost : BOOLEAN]
      /\ listing.found <= Len(output) + 1 /\ listing.at = Position(output, listing.found)
      /\ ~buffer.tooLarge /\ Tiled(output, buffer.out) /\ ListingOf(output, listing)
  BY <1>1 DEF EncodingInv, Listed, ListingOf, Placed
<1>4. Len(output) \in Nat
  <2>1. PICK S : output \in Seq(S)
    BY DEF EncodingInv, Placed
  <2> QED BY <2>1
<1>5. ASSUME ~listing.lost PROVE listing.found = Len(output) + 1
  <2> DEFINE k == listing.found
  <2>1. /\ \A n \in 0 .. Len(output) : End(output, n) \in Nat /\ End(output, n) >= HeaderSize
        /\ \A m, n \in 0 .. Len(output) : m < n => End(output, m) < End(output, n)
        /\ End(output, Len(output)) = buffer.out
    BY <1>3, <1>4, EndsGrow DEF Tiled
  <2>2. listing.at >= buffer.out
    BY <1>1, <1>5
  <2>3. CASE k = 0
    <3>1. listing.at = HeaderSize - 5
      BY <1>3, <2>3 DEF Position
    <3>2. buffer.out \in Nat /\ buffer.out >= HeaderSize
      BY <1>4, <2>1
    <3> QED BY <2>2, <3>1, <3>2 DEF HeaderSize
  <2>4. CASE k # 0 /\ k <= Len(output)
    <3>1. k - 1 \in 0 .. Len(output) /\ k - 1 < Len(output) /\ Len(output) \in 0 .. Len(output)
      BY <1>3, <1>4, <2>4
    <3>2. listing.at = End(output, k - 1)
      BY <1>3, <2>4 DEF Position
    <3>3. End(output, k - 1) < buffer.out /\ End(output, k - 1) \in Nat /\ buffer.out \in Nat
      BY <2>1, <3>1
    <3> QED BY <2>2, <3>2, <3>3
  <2> QED BY <1>3, <1>4, <2>3, <2>4
<1>6. Listed'
  BY <1>1, <1>3, <1>5 DEF Listed
<1> QED BY <1>2, <1>6 DEF EncodingInv

LEMMA EncodingStarts == EncodingInit => EncodingInv
<1> SUFFICES ASSUME EncodingInit PROVE EncodingInv
  OBVIOUS
<1>1. PICK c \in Capacities :
        buffer = [out |-> HeaderSize, capacity |-> c, beyond |-> 0, tooLarge |-> FALSE, n |-> 0]
  BY DEF EncodingInit
<1>2. /\ output = <<>> /\ stage = "code"
      /\ listing = [at |-> HeaderSize - 5, found |-> 0, lost |-> FALSE]
  BY DEF EncodingInit
<1>3. c \in Nat /\ c > 13
  BY EncodingAssumption
<1>4. /\ buffer \in Buffer /\ buffer.out = 13 /\ buffer.capacity = c /\ buffer.beyond = 0
      /\ buffer.tooLarge = FALSE
  BY <1>1, <1>3 DEF Buffer, HeaderSize
<1>5. Sound(buffer) /\ Beyond(buffer, output)
  BY <1>3, <1>4 DEF Sound, Beyond
<1>6. output \in Seq({}) /\ Len(output) = 0
  BY <1>2
<1>7. Tiled(output, buffer.out)
  BY <1>4, <1>6 DEF Tiled, End, HeaderSize
<1>8. Placed(buffer, output)
  BY <1>5, <1>6, <1>7 DEF Placed
<1>9. ListingOf(output, listing)
  BY <1>2, <1>6, ListingStarts
<1> QED BY <1>2, <1>4, <1>8, <1>9 DEF EncodingInv, Listed

LEMMA EncodingInvariant == EncodingSpec => []EncodingInv
<1>1. EncodingInv /\ [EncodingNext]_encodingVars => EncodingInv'
  <2> SUFFICES ASSUME EncodingInv, [EncodingNext]_encodingVars PROVE EncodingInv'
    OBVIOUS
  <2>1. ASSUME NEW i \in Single, Code(i) PROVE EncodingInv'
    BY <2>1, CodeKeeps
  <2>2. CASE CodeVector(CodeRSADD("F")) \/ CodeVector(CodeCONST("F", 0))
    <3>1. Good(CodeRSADD("F")) /\ Good(CodeCONST("F", 0))
      BY UnaryGood, ConstGood DEF CodeRSADD, Simples
    <3> QED BY <2>2, <3>1, VectorKeeps
  <2>3. ASSUME NEW name \in Names, NEW sp \in Depths, NEW exp \in Depths \ {0},
               InvokeIntrinsic(name, sp, exp)
        PROVE  EncodingInv'
    BY <2>3, IntrinsicKeeps
  <2>4. ASSUME NEW f \in Files, NEW line \in Lines, AddLine(f, line) PROVE EncodingInv'
    <3>1. /\ buffer' = [buffer EXCEPT !.n = @ + 1] /\ output' = output
          /\ stage' = stage /\ listing' = listing
      BY <2>4 DEF AddLine
    <3>2. Placed(buffer', output')
      BY <3>1, PlacedCount DEF EncodingInv
    <3>3. buffer'.tooLarge = buffer.tooLarge
      BY <3>1 DEF EncodingInv, Placed, Sound, Buffer
    <3>4. Listed'
      BY <3>1, <3>3 DEF EncodingInv, Listed
    <3> QED BY <3>2, <3>4 DEF EncodingInv
  <2>5. CASE SkipLine \/ UNCHANGED encodingVars
    <3>1. buffer' = buffer /\ output' = output /\ stage' = stage /\ listing' = listing
      BY <2>5 DEF SkipLine, encodingVars
    <3> QED BY <3>1 DEF EncodingInv, Listed
  <2>6. CASE Finish
    <3>1. /\ buffer' = buffer /\ output' = output /\ listing' = listing /\ stage = "code"
          /\ stage' \in {"refused", "written"}
      BY <2>6 DEF Finish
    <3>2. Placed(buffer', output')
      BY <3>1 DEF EncodingInv
    <3>3. Listed'
      BY <3>1 DEF EncodingInv, Listed
    <3> QED BY <3>2, <3>3 DEF EncodingInv
  <2>7. CASE ListInstruction
    BY <2>7, ListKeeps
  <2>8. CASE EndOfListing
    BY <2>8, EndKeeps
  <2> QED BY <2>1, <2>2, <2>3, <2>4, <2>5, <2>6, <2>7, <2>8 DEF EncodingNext
<1> QED BY <1>1, EncodingStarts, PTL DEF EncodingSpec

(* The disassembler finds every instruction of every script, and is lost   *)
(* only at a constant of an engine type. *)
THEOREM InstructionsAreFound == EncodingSpec => []FindsInstructions
<1>1. EncodingInv => FindsInstructions
  <2> SUFFICES ASSUME EncodingInv PROVE FindsInstructions
    OBVIOUS
  <2> DEFINE k == listing.found
  <2>1. ASSUME listing.lost
        PROVE  \E i \in Here : i.op = "CONST" /\ i.type \in {"LOC", "JSON"}
    <3>1. PICK S : output \in Seq(S)
      BY DEF EncodingInv, Placed
    <3>2. /\ k \in 1 .. Len(output) /\ Unknown(output[k])
          /\ listing.at = Position(output, k)
          /\ stage # "refused"
      BY <2>1 DEF EncodingInv, Listed, ListingOf
    <3>3. Tiled(output, buffer.out)
      BY <3>2 DEF EncodingInv, Listed, Placed
    <3>4. Len(output) \in Nat /\ k # 0 /\ k + 1 \in 1 .. Len(output) + 1
      BY <3>1, <3>2
    <3>5. output[k].at = listing.at
      BY <3>2, <3>3, <3>4 DEF Tiled, Position
    <3>6. DOMAIN All = 1 .. Len(output) + 1 /\ All[k + 1] = output[k]
      BY <3>1, <3>2, AllFacts
    <3>7. output[k] \in Here
      BY <3>4, <3>5, <3>6 DEF Here, ToSet
    <3> QED BY <3>2, <3>7 DEF Unknown
  <2> QED BY <2>1 DEF EncodingInv, Listed, FindsInstructions
<1> QED BY <1>1, EncodingInvariant, PTL

(* No buffer is overrun by more than the last byte of an ACTION. *)
THEOREM OnlyActionsOverrun == EncodingSpec => []OverrunByAction
<1>1. EncodingInv => OverrunByAction
  BY DEF EncodingInv, Placed, Beyond, OverrunByAction
<1> QED BY <1>1, EncodingInvariant, PTL

-----------------------------------------------------------------------------
(* A file gets the next number when a line of it is added first; the entry *)
(* with that number says which file it is. *)
MarkedFiles == {f \in Files : asFiles[f].nOutputIndex # -1}

FilesInv ==
    /\ asFiles \in [Files -> [nOutputIndex : Int, nFileIndex : Int]]
    /\ usedFiles = Cardinality(MarkedFiles)
    /\ \A f \in MarkedFiles : /\ asFiles[f].nOutputIndex \in 0 .. usedFiles - 1
                              /\ asFiles[asFiles[f].nOutputIndex].nFileIndex = f
    /\ \E S : asLines \in Seq(S)
    /\ \A n \in 1 .. Len(asLines) : /\ asLines[n].of \in MarkedFiles
                                    /\ asLines[n].nFile = asFiles[asLines[n].of].nOutputIndex

LEMMA AddLineKeepsFiles ==
    ASSUME FilesInv, NEW f \in Files, NEW line \in Lines, AddLine(f, line)
    PROVE  FilesInv'
<1> DEFINE M == MarkedFiles
           N == Cardinality(Files)
           entry == [nFile |-> asFiles'[f].nOutputIndex, nLine |-> line, start |-> lineStart,
                     end |-> buffer.out, of |-> f]
<1>1. /\ asFiles \in [Files -> [nOutputIndex : Int, nFileIndex : Int]]
      /\ usedFiles = Cardinality(M) /\ IsFiniteSet(Files) /\ M \subseteq Files
      /\ Files = 0 .. N - 1
  BY EncodingAssumption DEF FilesInv, MarkedFiles
<1>2. IsFiniteSet(M) /\ usedFiles \in Nat /\ N \in Nat
  BY <1>1, FS_Subset, FS_CardinalityType
<1>3. PICK S : asLines \in Seq(S)
  BY DEF FilesInv
<1>4. /\ asFiles' = Marked(asFiles, f)
      /\ usedFiles' = usedFiles + (IF asFiles[f].nOutputIndex = -1 THEN 1 ELSE 0)
      /\ asLines' = asLines \/ asLines' = Append(asLines, entry)
  BY DEF AddLine
<1>5. /\ asFiles' \in [Files -> [nOutputIndex : Int, nFileIndex : Int]]
      /\ usedFiles' = Cardinality(MarkedFiles') /\ f \in MarkedFiles' /\ M \subseteq MarkedFiles'
      /\ \A g \in M : asFiles'[g].nOutputIndex = asFiles[g].nOutputIndex
      /\ \A g \in MarkedFiles' : /\ asFiles'[g].nOutputIndex \in 0 .. usedFiles' - 1
                                 /\ asFiles'[asFiles'[g].nOutputIndex].nFileIndex = g
  <2>1. CASE asFiles[f].nOutputIndex # -1
    <3>1. asFiles' = asFiles /\ usedFiles' = usedFiles
      BY <1>2, <1>4, <2>1 DEF Marked
    <3>2. MarkedFiles' = M /\ f \in M
      BY <2>1, <3>1 DEF MarkedFiles
    <3> QED BY <1>1, <3>1, <3>2 DEF FilesInv
  <2>2. CASE asFiles[f].nOutputIndex = -1
    <3>1. f \notin M
      BY <2>2 DEF MarkedFiles
    <3>2. usedFiles < N
      <4>1. Cardinality(M) <= N /\ (Cardinality(M) = N => M = Files)
        BY <1>1, FS_Subset
      <4> QED BY <1>1, <1>2, <3>1, <4>1
    <3>3. usedFiles \in Files
      BY <1>1, <1>2, <3>2
    <3> DEFINE marked == [asFiles EXCEPT ![usedFiles].nFileIndex = f, ![f].nOutputIndex = usedFiles]
    <3>4. asFiles' = marked /\ usedFiles' = usedFiles + 1
      BY <1>4, <2>2 DEF Marked
    <3>5. f \in Int
      BY <1>1, <1>2
    <3>6. /\ marked \in [Files -> [nOutputIndex : Int, nFileIndex : Int]]
          /\ \A g \in Files : /\ g # f => marked[g].nOutputIndex = asFiles[g].nOutputIndex
                              /\ g # usedFiles => marked[g].nFileIndex = asFiles[g].nFileIndex
          /\ marked[f].nOutputIndex = usedFiles /\ marked[usedFiles].nFileIndex = f
      <4> DEFINE first == [asFiles EXCEPT ![usedFiles].nFileIndex = f]
      <4>1. /\ first \in [Files -> [nOutputIndex : Int, nFileIndex : Int]]
            /\ \A g \in Files : /\ first[g].nOutputIndex = asFiles[g].nOutputIndex
                                /\ g # usedFiles => first[g].nFileIndex = asFiles[g].nFileIndex
            /\ first[usedFiles].nFileIndex = f
        BY <1>1, <3>3, <3>5
      <4>2. marked = [first EXCEPT ![f].nOutputIndex = usedFiles]
        OBVIOUS
      <4> HIDE DEF first, marked
      <4>3. /\ marked \in [Files -> [nOutputIndex : Int, nFileIndex : Int]]
            /\ \A g \in Files : /\ g # f => marked[g].nOutputIndex = first[g].nOutputIndex
                                /\ marked[g].nFileIndex = first[g].nFileIndex
            /\ marked[f].nOutputIndex = usedFiles
        BY <1>2, <4>1, <4>2
      <4> QED BY <3>3, <4>1, <4>3
    <3> HIDE DEF marked
    <3>7. MarkedFiles' = M \cup {f}
      <4>1. ASSUME NEW g \in Files PROVE marked[g].nOutputIndex # -1 <=> (g = f \/ asFiles[g].nOutputIndex # -1)
        BY <1>2, <3>6
      <4> QED BY <3>4, <4>1 DEF MarkedFiles
    <3>8. Cardinality(M \cup {f}) = usedFiles + 1
      BY <1>1, <1>2, <3>1, FS_AddElement
    <3>9. \A g \in M : asFiles'[g].nOutputIndex = asFiles[g].nOutputIndex
      BY <1>1, <3>1, <3>4, <3>6
    <3>10. ASSUME NEW g \in M \cup {f}
           PROVE  /\ marked[g].nOutputIndex \in 0 .. usedFiles
                  /\ marked[marked[g].nOutputIndex].nFileIndex = g
      <4>1. CASE g = f
        BY <1>2, <3>6, <4>1
      <4>2. CASE g # f
        <5>1. g \in M /\ g \in Files
          BY <1>1, <4>2
        <5>2. PICK k \in 0 .. usedFiles - 1 : k = asFiles[g].nOutputIndex /\ asFiles[k].nFileIndex = g
          BY <5>1 DEF FilesInv
        <5>3. k \in Files /\ k # usedFiles /\ k \in 0 .. usedFiles
          BY <1>1, <1>2, <3>2, <5>2
        <5> QED BY <3>6, <4>2, <5>1, <5>2, <5>3
      <4> QED BY <4>1, <4>2
    <3>11. usedFiles + 1 - 1 = usedFiles
      BY <1>2
    <3> QED BY <3>4, <3>6, <3>7, <3>8, <3>9, <3>10, <3>11
  <2> QED BY <1>1, <2>1, <2>2
<1>6. \A n \in 1 .. Len(asLines) : /\ asLines[n].of \in M
                                   /\ asLines[n].nFile = asFiles[asLines[n].of].nOutputIndex
  BY DEF FilesInv
<1>7. /\ \E U : asLines' \in Seq(U)
      /\ \A n \in 1 .. Len(asLines') : /\ asLines'[n].of \in MarkedFiles'
                                       /\ asLines'[n].nFile = asFiles'[asLines'[n].of].nOutputIndex
  <2>1. CASE asLines' = asLines
    BY <1>3, <1>5, <1>6, <2>1
  <2>2. CASE asLines' = Append(asLines, entry)
    <3>1. entry.of = f /\ entry.nFile = asFiles'[f].nOutputIndex
      OBVIOUS
    <3> HIDE DEF entry
    <3>2. /\ asLines' \in Seq(S \cup {entry}) /\ Len(asLines') = Len(asLines) + 1
          /\ Len(asLines) \in Nat
          /\ \A n \in 1 .. Len(asLines) : asLines'[n] = asLines[n]
          /\ asLines'[Len(asLines) + 1] = entry
      BY <1>3, <2>2, AppendFacts
    <3>3. ASSUME NEW n \in 1 .. Len(asLines')
          PROVE  /\ asLines'[n].of \in MarkedFiles'
                 /\ asLines'[n].nFile = asFiles'[asLines'[n].of].nOutputIndex
      <4>1. CASE n = Len(asLines) + 1
        BY <1>5, <3>1, <3>2, <4>1
      <4>2. CASE n # Len(asLines) + 1
        <5>1. n \in 1 .. Len(asLines)
          BY <3>2, <4>2
        <5>2. asLines'[n] = asLines[n] /\ asLines[n].of \in M
          BY <1>6, <3>2, <5>1
        <5> QED BY <1>5, <1>6, <5>1, <5>2
      <4> QED BY <4>1, <4>2
    <3> QED BY <3>2, <3>3
  <2> QED BY <1>4, <2>1, <2>2
<1> QED BY <1>5, <1>7 DEF FilesInv

LEMMA FilesInvariant == EncodingSpec => []FilesInv
<1>1. EncodingInit => FilesInv
  <2> SUFFICES ASSUME EncodingInit PROVE FilesInv
    OBVIOUS
  <2>1. /\ asFiles = [f \in Files |-> [nOutputIndex |-> -1, nFileIndex |-> -1]]
        /\ usedFiles = 0 /\ asLines = <<>>
    BY DEF EncodingInit
  <2>2. asFiles \in [Files -> [nOutputIndex : Int, nFileIndex : Int]] /\ MarkedFiles = {}
    BY <2>1 DEF MarkedFiles
  <2>3. asLines \in Seq({}) /\ Len(asLines) = 0
    BY <2>1
  <2> QED BY <2>1, <2>2, <2>3, FS_EmptySet DEF FilesInv
<1>2. FilesInv /\ [EncodingNext]_encodingVars => FilesInv'
  <2> SUFFICES ASSUME FilesInv, [EncodingNext]_encodingVars PROVE FilesInv'
    OBVIOUS
  <2>1. ASSUME NEW f \in Files, NEW line \in Lines, AddLine(f, line) PROVE FilesInv'
    BY <2>1, AddLineKeepsFiles
  <2>2. ASSUME UNCHANGED <<asFiles, usedFiles, asLines>> PROVE FilesInv'
    BY <2>2 DEF FilesInv, MarkedFiles
  <2>3. \A b, code : Emit(b, code) => UNCHANGED <<asFiles, usedFiles, asLines>>
    BY DEF Emit
  <2>4. CASE (\E i \in Single : Code(i)) \/ CodeVector(CodeRSADD("F")) \/ CodeVector(CodeCONST("F", 0))
             \/ \E name \in Names, sp \in Depths, exp \in Depths \ {0} : InvokeIntrinsic(name, sp, exp)
    <3>1. \E b, code : Emit(b, code)
      BY <2>4, Zenon DEF Code, CodeVector, InvokeIntrinsic
    <3> QED BY <2>2, <2>3, <3>1
  <2>5. CASE SkipLine \/ Finish \/ ListInstruction \/ EndOfListing \/ UNCHANGED encodingVars
    BY <2>2, <2>5 DEF SkipLine, Finish, ListInstruction, EndOfListing, encodingVars
  <2> QED BY <2>1, <2>4, <2>5 DEF EncodingNext
<1> QED BY <1>1, <1>2, PTL DEF EncodingSpec

(* Every line of the debug file has the number of its file, and that       *)
(* number says which. *)
THEOREM FilesAreNamed == EncodingSpec => []FilesNamed
<1>1. FilesInv => FilesNamed
  <2> SUFFICES ASSUME FilesInv PROVE FilesNamed
    OBVIOUS
  <2>1. PICK S : asLines \in Seq(S)
    BY DEF FilesInv
  <2>2. DOMAIN asLines = 1 .. Len(asLines)
    BY <2>1
  <2> QED BY <2>2 DEF FilesInv, FilesNamed, MarkedFiles
<1> QED BY <1>1, FilesInvariant, PTL

-----------------------------------------------------------------------------
(* The instructions of the intrinsics on a stack whose top is known. *)
M(s, b) == [stack |-> s, bp |-> b]

LEMMA Pushed ==
    ASSUME NEW s \in Seq(Int), NEW v \in Int
    PROVE  LET t == Append(s, v) IN
           /\ t \in Seq(Int) /\ Len(t) = Len(s) + 1 /\ Len(s) \in Nat /\ t[Len(t)] = v
           /\ \A n \in 1 .. Len(s) : t[n] = s[n]
           /\ SubSeq(t, 1, Len(t) - 1) = s /\ Front(t) = s /\ Last(t) = v
<1> DEFINE t == Append(s, v)
           N == Len(s)
<1>1. /\ t \in Seq(Int) /\ Len(t) = N + 1 /\ N \in Nat /\ t[N + 1] = v
      /\ \A n \in 1 .. N : t[n] = s[n]
  OBVIOUS
<1> HIDE DEF t
<1>2. Len(t) - 1 = N
  BY <1>1
<1> HIDE DEF N
<1>3. SubSeq(t, 1, N) \in Seq(Int) /\ Len(SubSeq(t, 1, N)) = N
      /\ \A n \in 1 .. N : SubSeq(t, 1, N)[n] = t[n]
  BY <1>1
<1>4. SubSeq(t, 1, N) = s
  BY <1>1, <1>3 DEF N
<1>5. Front(t) = s /\ Last(t) = v
  BY <1>1, <1>2, <1>4 DEF Front, Last
<1> QED BY <1>1, <1>2, <1>4, <1>5 DEF t, N

LEMMA StepConst ==
    ASSUME NEW s, NEW b, NEW v
    PROVE  Step(M(s, b), CodeCONST("I", v)) = M(Append(s, v), b)
BY DEF Step, M, CodeCONST, Instruction

LEMMA StepRSADD ==
    ASSUME NEW s, NEW b
    PROVE  Step(M(s, b), CodeRSADD("I")) = M(Append(s, 0), b)
BY DEF Step, M, CodeRSADD, CodeUnaryOp, Instruction

LEMMA StepSAVEBP ==
    ASSUME NEW s, NEW b
    PROVE  Step(M(s, b), SAVEBP) = M(Append(s, b), Len(s))
BY DEF Step, M, SAVEBP, CodeUnaryOp, Instruction

LEMMA StepRESTOREBP ==
    ASSUME NEW s \in Seq(Int), NEW b, NEW v \in Int
    PROVE  Step(M(Append(s, v), b), RESTOREBP) = M(s, v)
<1> DEFINE t == Append(s, v)
<1>1. Front(t) = s /\ t[Len(t)] = v
  BY Pushed
<1> HIDE DEF t
<1>2. Step(M(t, b), RESTOREBP) = [stack |-> Front(t), bp |-> t[Len(t)]]
  BY DEF Step, M, RESTOREBP, CodeUnaryOp, Instruction
<1> QED BY <1>1, <1>2 DEF M, t

LEMMA StepMOVSP ==
    ASSUME NEW s \in Seq(Int), NEW b, NEW v \in Int
    PROVE  Step(M(Append(s, v), b), CodeMOVSP(1)) = M(s, b)
<1> DEFINE t == Append(s, v)
<1>1. SubSeq(t, 1, Len(t) - 1) = s /\ Len(t) \in Nat
  BY Pushed
<1> HIDE DEF t
<1> DEFINE m == M(t, b)
           i == CodeMOVSP(1)
<1>2. m.stack = t /\ m.bp = b /\ m \in [stack : {t}, bp : {b}] /\ i.op = "MOVSP" /\ i.operand[1] = 1
  BY DEF M, CodeMOVSP, Instruction
<1> HIDE DEF m, i
<1>3. Step(m, i) = [m EXCEPT !.stack = SubSeq(@, 1, Len(m.stack) - i.operand[1] + 1 - 1)]
  BY <1>2 DEF Step
<1>4. Len(m.stack) - i.operand[1] + 1 - 1 = Len(t) - 1
  BY <1>1, <1>2
<1>5. Step(m, i) = [m EXCEPT !.stack = s]
  BY <1>1, <1>2, <1>3, <1>4, Zenon
<1>6. [m EXCEPT !.stack = s] = M(s, b)
  BY <1>2 DEF M
<1> QED BY <1>5, <1>6 DEF t, m, i

LEMMA StepCopy ==
    ASSUME NEW s \in Seq(Int), NEW b, NEW u \in Int, NEW v \in Int
    PROVE  Step(M(Append(Append(s, u), v), b), CodeCP("CPTOPSP", 2))
             = M(Append(Append(Append(s, u), v), u), b)
<1> DEFINE t == Append(Append(s, u), v)
<1>1. t \in Seq(Int) /\ Len(t) = Len(s) + 2 /\ Len(s) \in Nat /\ t[Len(s) + 1] = u
  OBVIOUS
<1> HIDE DEF t
<1>2. Step(M(t, b), CodeCP("CPTOPSP", 2)) = M(Append(t, t[Len(t) - 2 + 1]), b)
  BY DEF Step, M, CodeCP, Instruction
<1>3. Len(t) - 2 + 1 = Len(s) + 1
  BY <1>1
<1> QED BY <1>1, <1>2, <1>3 DEF t

LEMMA StepReturned ==
    ASSUME NEW s \in Seq(Int), NEW b, NEW u \in Int, NEW v \in Int
    PROVE  Step(M(Append(Append(s, u), v), b), Returned) = M(Append(Append(s, v), v), b)
<1> DEFINE t == Append(Append(s, u), v)
           w == Append(Append(s, v), v)
           N == Len(s)
<1>1. /\ t \in Seq(Int) /\ Len(t) = N + 2 /\ N \in Nat /\ t[N + 2] = v
      /\ \A n \in 1 .. N : t[n] = s[n]
  OBVIOUS
<1>2. /\ w \in Seq(Int) /\ Len(w) = N + 2 /\ w[N + 1] = v /\ w[N + 2] = v
      /\ \A n \in 1 .. N : w[n] = s[n]
  OBVIOUS
<1> HIDE DEF t, w
<1>3. Step(M(t, b), Returned) = M([t EXCEPT ![Len(t) - 2 + 1] = t[Len(t)]], b)
  BY DEF Step, M, Returned, CodeCP, Instruction
<1>4. Len(t) - 2 + 1 = N + 1
  BY <1>1
<1> HIDE DEF N
<1>5. [t EXCEPT ![N + 1] = v] = w
  <2>1. [t EXCEPT ![N + 1] = v] \in Seq(Int) /\ Len([t EXCEPT ![N + 1] = v]) = N + 2
        /\ \A n \in 1 .. N + 2 : [t EXCEPT ![N + 1] = v][n] = IF n = N + 1 THEN v ELSE t[n]
    BY <1>1
  <2>2. ASSUME NEW n \in 1 .. N + 2 PROVE [t EXCEPT ![N + 1] = v][n] = w[n]
    <3>1. n = N + 1 \/ n = N + 2 \/ n \in 1 .. N
      BY <1>1
    <3> QED BY <1>1, <1>2, <2>1, <3>1
  <2> QED BY <1>2, <2>1, <2>2
<1>6. Len(t) = N + 2
  BY <1>1
<1> QED BY <1>1, <1>3, <1>4, <1>5, <1>6 DEF t, w

LEMMA StepDown4 ==
    ASSUME NEW s \in Seq(Int), NEW b, NEW u \in Int, NEW v \in Int, NEW x \in Int, NEW y \in Int
    PROVE  Step(M(Append(Append(Append(Append(s, u), v), x), y), b), CodeCP("CPDOWNSP", 4))
             = M(Append(Append(Append(Append(s, y), v), x), y), b)
<1> DEFINE t == Append(Append(Append(Append(s, u), v), x), y)
           w == Append(Append(Append(Append(s, y), v), x), y)
           N == Len(s)
<1>1. /\ t \in Seq(Int) /\ Len(t) = N + 4 /\ N \in Nat
      /\ t[N + 2] = v /\ t[N + 3] = x /\ t[N + 4] = y
      /\ \A n \in 1 .. N : t[n] = s[n]
  OBVIOUS
<1>2. /\ w \in Seq(Int) /\ Len(w) = N + 4
      /\ w[N + 1] = y /\ w[N + 2] = v /\ w[N + 3] = x /\ w[N + 4] = y
      /\ \A n \in 1 .. N : w[n] = s[n]
  OBVIOUS
<1> HIDE DEF t, w
<1>3. Step(M(t, b), CodeCP("CPDOWNSP", 4)) = M([t EXCEPT ![Len(t) - 4 + 1] = t[Len(t)]], b)
  BY DEF Step, M, CodeCP, Instruction
<1>4. Len(t) - 4 + 1 = N + 1
  BY <1>1
<1> HIDE DEF N
<1>5. [t EXCEPT ![N + 1] = y] = w
  <2>1. [t EXCEPT ![N + 1] = y] \in Seq(Int) /\ Len([t EXCEPT ![N + 1] = y]) = N + 4
        /\ \A n \in 1 .. N + 4 : [t EXCEPT ![N + 1] = y][n] = IF n = N + 1 THEN y ELSE t[n]
    BY <1>1
  <2>2. ASSUME NEW n \in 1 .. N + 4 PROVE [t EXCEPT ![N + 1] = y][n] = w[n]
    <3>1. n = N + 1 \/ n = N + 2 \/ n = N + 3 \/ n = N + 4 \/ n \in 1 .. N
      BY <1>1
    <3> QED BY <1>1, <1>2, <2>1, <3>1
  <2> QED BY <1>2, <2>1, <2>2
<1>6. Len(t) = N + 4
  BY <1>1
<1> QED BY <1>1, <1>3, <1>4, <1>5, <1>6 DEF t, w

LEMMA StepSub ==
    ASSUME NEW s \in Seq(Int), NEW b, NEW u \in Int, NEW v \in Int
    PROVE  Step(M(Append(Append(s, u), v), b), CodeBinaryOp("SUB", "II")) = M(Append(s, u - v), b)
<1> DEFINE t == Append(Append(s, u), v)
           N == Len(s)
<1>1. /\ t \in Seq(Int) /\ Len(t) = N + 2 /\ N \in Nat /\ t[N + 1] = u /\ t[N + 2] = v
      /\ \A n \in 1 .. N : t[n] = s[n]
  OBVIOUS
<1> HIDE DEF t
<1>2. Step(M(t, b), CodeBinaryOp("SUB", "II"))
        = M(Append(SubSeq(t, 1, Len(t) - 2), t[Len(t) - 1] - t[Len(t)]), b)
  BY DEF Step, M, CodeBinaryOp, Instruction
<1>3. Len(t) - 2 = N /\ Len(t) - 1 = N + 1 /\ Len(t) = N + 2
  BY <1>1
<1> HIDE DEF N
<1>4. SubSeq(t, 1, N) = s
  <2>1. SubSeq(t, 1, N) \in Seq(Int) /\ Len(SubSeq(t, 1, N)) = N
        /\ \A n \in 1 .. N : SubSeq(t, 1, N)[n] = t[n]
    BY <1>1
  <2> QED BY <1>1, <2>1 DEF N
<1> QED BY <1>1, <1>2, <1>3, <1>4 DEF t

-----------------------------------------------------------------------------
(* Code is executed step by step. *)
Trace(m, code, N, s) == s = [n \in 0 .. N |-> IF n = 0 THEN m ELSE Step(s[n - 1], code[n])]

LEMMA TraceExists ==
    ASSUME NEW t, NEW code, NEW K \in Nat
    PROVE  \E s : Trace(t, code, K, s)
<1> DEFINE T == {m \in Nat : ~ \E s : Trace(t, code, m, s)}
<1>1. SUFFICES ASSUME T # {} PROVE FALSE
  OBVIOUS
<1>2. PICK m \in T : \A y \in T : m <= y
  <2>1. T \subseteq Nat
    OBVIOUS
  <2> HIDE DEF T
  <2> QED BY <1>1, <2>1, Least
<1>3. m \in Nat /\ ~ \E s : Trace(t, code, m, s)
  OBVIOUS
<1>4. CASE m = 0
  <2> DEFINE s == [n \in 0 .. 0 |-> t]
  <2>1. s = [n \in 0 .. 0 |-> IF n = 0 THEN t ELSE Step(s[n - 1], code[n])]
    OBVIOUS
  <2> QED BY <1>3, <1>4, <2>1 DEF Trace
<1>5. CASE m # 0
  <2>1. m - 1 \in Nat /\ m - 1 \notin T
    BY <1>2, <1>3, <1>5
  <2>2. PICK g : Trace(t, code, m - 1, g)
    BY <2>1
  <2> DEFINE f == [n \in 0 .. m |-> IF n = m THEN Step(g[m - 1], code[m]) ELSE g[n]]
             h == [n \in 0 .. m |-> IF n = 0 THEN t ELSE Step(f[n - 1], code[n])]
  <2>3. ASSUME NEW n \in 0 .. m PROVE f[n] = h[n]
    <3>1. CASE n = m
      <4>1. n - 1 \in 0 .. m /\ n - 1 # m
        BY <1>3, <1>5, <3>1
      <4>2. f[n - 1] = g[n - 1]
        BY <4>1
      <4> QED BY <1>5, <3>1, <4>2
    <3>2. CASE n # m /\ n # 0
      <4>1. n \in 0 .. m - 1 /\ n - 1 \in 0 .. m /\ n - 1 # m
        BY <1>3, <3>2
      <4>2. f[n - 1] = g[n - 1] /\ f[n] = g[n]
        BY <3>2, <4>1
      <4>3. g[n] = Step(g[n - 1], code[n])
        BY <2>2, <3>2, <4>1 DEF Trace
      <4> QED BY <3>2, <4>2, <4>3
    <3>3. CASE n = 0
      <4>1. g[0] = t
        <5>1. 0 \in 0 .. m - 1
          BY <1>3, <1>5
        <5> QED BY <2>2, <5>1 DEF Trace
      <4> QED BY <1>5, <3>3, <4>1
    <3> QED BY <3>1, <3>2, <3>3
  <2>4. f = h
    <3>1. f = [n \in 0 .. m |-> f[n]] /\ h = [n \in 0 .. m |-> h[n]]
      OBVIOUS
    <3> HIDE DEF f, h
    <3> QED BY <2>3, <3>1
  <2>5. Trace(t, code, m, f)
    <3>1. h = [n \in 0 .. m |-> IF n = 0 THEN t ELSE Step(f[n - 1], code[n])]
      OBVIOUS
    <3> HIDE DEF f, h
    <3> QED BY <2>4, <3>1 DEF Trace
  <2> QED BY <1>3, <2>5
<1> QED BY <1>4, <1>5

LEMMA AfterwardsTraced ==
    ASSUME Len(invoked.code) \in Nat
    PROVE  \E s : Trace(Before, invoked.code, Len(invoked.code), s) /\ Afterwards = s[Len(invoked.code)]
<1> DEFINE s == CHOOSE f : Trace(Before, invoked.code, Len(invoked.code), f)
<1>1. Trace(Before, invoked.code, Len(invoked.code), s)
  BY TraceExists
<1>2. Afterwards = s[Len(invoked.code)]
  BY DEF Afterwards, Trace
<1> QED BY <1>1, <1>2

LEMMA TraceSteps ==
    ASSUME NEW m, NEW code, NEW N \in Nat, NEW s, Trace(m, code, N, s)
    PROVE  s[0] = m /\ \A n \in 1 .. N : s[n] = Step(s[n - 1], code[n])
BY DEF Trace

LEMMA SimpleAnswers ==
    ASSUME NEW r \in Seq(Int), NEW a \in Int, NEW b, NEW v \in Int,
           NEW code, code = Simple(v), NEW s, Trace(M(Append(r, a), b), code, Len(code), s)
    PROVE  s[Len(code)] = M(Append(r, v), b)
<1>1. Len(code) = 3 /\ code[1] = CodeCONST("I", v) /\ code[2] = Returned /\ code[3] = CodeMOVSP(1)
  BY DEF Simple
<1>2. /\ s[0] = M(Append(r, a), b) /\ s[1] = Step(s[0], code[1])
      /\ s[2] = Step(s[1], code[2]) /\ s[3] = Step(s[2], code[3])
  BY <1>1, TraceSteps
<1>3. s[1] = M(Append(Append(r, a), v), b)
  BY <1>1, <1>2, StepConst
<1>4. s[2] = M(Append(Append(r, v), v), b)
  BY <1>1, <1>2, <1>3, StepReturned
<1>5. Append(r, v) \in Seq(Int)
  OBVIOUS
<1>6. s[3] = M(Append(r, v), b)
  BY <1>1, <1>2, <1>4, <1>5, StepMOVSP
<1> QED BY <1>1, <1>6

LEMMA ReadBPAnswers ==
    ASSUME NEW r \in Seq(Int), NEW a \in Int, NEW b \in Int,
           NEW code, code = CodeIntrinsicReadBP,
           NEW s, Trace(M(Append(r, a), b), code, Len(code), s)
    PROVE  s[Len(code)] = M(Append(r, b), b)
<1>1. Len(code) = 3 /\ code[1] = SAVEBP /\ code[2] = Returned /\ code[3] = RESTOREBP
  BY DEF CodeIntrinsicReadBP
<1>2. /\ s[0] = M(Append(r, a), b) /\ s[1] = Step(s[0], code[1])
      /\ s[2] = Step(s[1], code[2]) /\ s[3] = Step(s[2], code[3])
  BY <1>1, TraceSteps
<1>3. s[1] = M(Append(Append(r, a), b), Len(Append(r, a)))
  BY <1>1, <1>2, StepSAVEBP
<1>4. s[2] = M(Append(Append(r, b), b), Len(Append(r, a)))
  BY <1>1, <1>2, <1>3, StepReturned
<1>5. Append(r, b) \in Seq(Int)
  OBVIOUS
<1>6. s[3] = M(Append(r, b), b)
  <2>1. Step(M(Append(Append(r, b), b), Len(Append(r, a))), RESTOREBP) = M(Append(r, b), b)
    BY <1>5, StepRESTOREBP, Zenon
  <2> QED BY <1>1, <1>2, <1>4, <2>1, Zenon
<1> QED BY <1>1, <1>6

LEMMA WriteBPAnswers ==
    ASSUME NEW r \in Seq(Int), NEW a \in Int, NEW b \in Int,
           NEW code, code = CodeIntrinsicWriteBP,
           NEW s, Trace(M(Append(r, a), b), code, Len(code), s)
    PROVE  s[Len(code)] = M(r, a)
<1>1. /\ Len(code) = 6 /\ code[1] = SAVEBP /\ code[2] = CodeCP("CPTOPSP", 2)
      /\ code[3] = Returned /\ code[4] = CodeMOVSP(1) /\ code[5] = RESTOREBP
      /\ code[6] = CodeMOVSP(1)
  BY DEF CodeIntrinsicWriteBP
<1>2. /\ s[0] = M(Append(r, a), b) /\ s[1] = Step(s[0], code[1])
      /\ s[2] = Step(s[1], code[2]) /\ s[3] = Step(s[2], code[3])
      /\ s[4] = Step(s[3], code[4]) /\ s[5] = Step(s[4], code[5]) /\ s[6] = Step(s[5], code[6])
  BY <1>1, TraceSteps
<1>3. PICK size : size = Len(Append(r, a))
  OBVIOUS
<1>4. PICK t \in Seq(Int) : t = Append(r, a)
  <2>1. Append(r, a) \in Seq(Int)
    OBVIOUS
  <2> QED BY <2>1, Zenon
<1>5. Append(t, a) \in Seq(Int)
  OBVIOUS
<1>6. s[1] = M(Append(t, b), size)
  BY <1>1, <1>2, <1>3, <1>4, StepSAVEBP
<1>7. s[2] = M(Append(Append(t, b), a), size)
  BY <1>1, <1>2, <1>4, <1>6, StepCopy
<1>8. s[3] = M(Append(Append(t, a), a), size)
  BY <1>1, <1>2, <1>7, StepReturned
<1>9. s[4] = M(Append(t, a), size)
  BY <1>1, <1>2, <1>5, <1>8, StepMOVSP
<1>10. s[5] = M(t, a)
  BY <1>1, <1>2, <1>9, StepRESTOREBP
<1>11. s[6] = M(r, a)
  BY <1>1, <1>2, <1>4, <1>10, StepMOVSP
<1> QED BY <1>1, <1>11

LEMMA ReadSPAnswers ==
    ASSUME NEW r \in Seq(Int), NEW a \in Int, NEW b \in Int, NEW exp \in Nat,
           NEW code, code = CodeIntrinsicReadSP(exp),
           NEW s, Trace(M(Append(r, a), b), code, Len(code), s)
    PROVE  s[Len(code)] = M(Append(r, Len(r) + 1 - exp), b)
<1>1. /\ Len(code) = 10 /\ code[1] = CodeRSADD("I") /\ code[2] = CodeCONST("I", exp + 2)
      /\ code[3] = SAVEBP /\ code[4] = SAVEBP /\ code[5] = CodeCP("CPDOWNSP", 4)
      /\ code[6] = RESTOREBP /\ code[7] = RESTOREBP /\ code[8] = CodeBinaryOp("SUB", "II")
      /\ code[9] = Returned /\ code[10] = CodeMOVSP(1)
  BY DEF CodeIntrinsicReadSP
<1>2. /\ s[0] = M(Append(r, a), b) /\ s[1] = Step(s[0], code[1])
      /\ s[2] = Step(s[1], code[2]) /\ s[3] = Step(s[2], code[3])
      /\ s[4] = Step(s[3], code[4]) /\ s[5] = Step(s[4], code[5]) /\ s[6] = Step(s[5], code[6])
      /\ s[7] = Step(s[6], code[7]) /\ s[8] = Step(s[7], code[8]) /\ s[9] = Step(s[8], code[9])
      /\ s[10] = Step(s[9], code[10])
  BY <1>1, TraceSteps
<1>3. PICK t \in Seq(Int) : t = Append(r, a)
  <2>1. Append(r, a) \in Seq(Int)
    OBVIOUS
  <2> QED BY <2>1, Zenon
<1>4. PICK v \in Int : v = exp + 2
  OBVIOUS
<1>5. PICK e \in Int : e = Len(r) + 3
  OBVIOUS
<1>6. Len(Append(Append(t, 0), v)) = e
  BY <1>3, <1>5
<1>7. s[1] = M(Append(t, 0), b)
  BY <1>1, <1>2, <1>3, StepRSADD
<1>8. s[2] = M(Append(Append(t, 0), v), b)
  BY <1>1, <1>2, <1>4, <1>7, StepConst
<1>9. s[3] = M(Append(Append(Append(t, 0), v), b), e)
  BY <1>1, <1>2, <1>6, <1>8, StepSAVEBP
<1>10. PICK size \in Int : s[4] = M(Append(Append(Append(Append(t, 0), v), b), e), size)
  <2>1. Len(Append(Append(Append(t, 0), v), b)) \in Int
    OBVIOUS
  <2>2. s[4] = M(Append(Append(Append(Append(t, 0), v), b), e), Len(Append(Append(Append(t, 0), v), b)))
    BY <1>1, <1>2, <1>9, StepSAVEBP
  <2> QED BY <2>1, <2>2
<1>11. s[5] = M(Append(Append(Append(Append(t, e), v), b), e), size)
  <2>1. 0 \in Int
    OBVIOUS
  <2> QED BY <1>1, <1>2, <1>10, <2>1, StepDown4
<1>12. Append(Append(Append(t, e), v), b) \in Seq(Int) /\ Append(Append(t, e), v) \in Seq(Int)
  OBVIOUS
<1>13. s[6] = M(Append(Append(Append(t, e), v), b), e)
  <2>1. Step(M(Append(Append(Append(Append(t, e), v), b), e), size), RESTOREBP)
          = M(Append(Append(Append(t, e), v), b), e)
    BY <1>12, StepRESTOREBP, Zenon
  <2> QED BY <1>1, <1>2, <1>11, <2>1, Zenon
<1>14. s[7] = M(Append(Append(t, e), v), b)
  <2>1. Step(M(Append(Append(Append(t, e), v), b), e), RESTOREBP) = M(Append(Append(t, e), v), b)
    BY <1>12, StepRESTOREBP, Zenon
  <2> QED BY <1>1, <1>2, <1>13, <2>1, Zenon
<1>15. PICK w \in Int : w = e - v
  OBVIOUS
<1>16. s[8] = M(Append(t, w), b)
  BY <1>1, <1>2, <1>14, <1>15, StepSub
<1>17. s[9] = M(Append(Append(r, w), w), b)
  BY <1>1, <1>2, <1>3, <1>16, StepReturned
<1>18. Append(r, w) \in Seq(Int)
  OBVIOUS
<1>19. s[10] = M(Append(r, w), b)
  BY <1>1, <1>2, <1>17, <1>18, StepMOVSP
<1>20. w = Len(r) + 1 - exp
  <2>1. Len(r) \in Nat
    OBVIOUS
  <2> QED BY <1>4, <1>5, <1>15, <2>1
<1> QED BY <1>1, <1>19, <1>20

(* The code of the intrinsic that was invoked last, which only ReadPC took *)
(* from where it stands. *)
CodeOf(name, sp, exp, pc) ==
    CASE name = "ReadBP" -> CodeIntrinsicReadBP
      [] name = "WriteBP" -> CodeIntrinsicWriteBP
      [] name = "ReadRelativeSP" -> Simple(sp)
      [] name = "ReadSP" -> CodeIntrinsicReadSP(exp)
      [] name = "ReadPC" -> Simple(pc)

InvokedInv ==
    invoked.name # "none" =>
        /\ invoked.name \in Names
        /\ invoked.sp \in Nat /\ invoked.exp \in Nat /\ invoked.pc \in Int
        /\ invoked.code = CodeOf(invoked.name, invoked.sp, invoked.exp, invoked.pc)

LEMMA InvokedInvariant == EncodingSpec => []InvokedInv
<1>1. EncodingInit => InvokedInv
  BY DEF EncodingInit, Nothing, InvokedInv
<1>2. EncodingInv /\ InvokedInv /\ [EncodingNext]_encodingVars => InvokedInv'
  <2> SUFFICES ASSUME EncodingInv, InvokedInv, [EncodingNext]_encodingVars PROVE InvokedInv'
    OBVIOUS
  <2>1. ASSUME invoked' = Nothing PROVE InvokedInv'
    BY <2>1 DEF InvokedInv, Nothing
  <2>2. ASSUME invoked' = invoked PROVE InvokedInv'
    BY <2>2 DEF InvokedInv
  <2>3. ASSUME NEW name \in Names, NEW sp \in Depths, NEW exp \in Depths \ {0},
               InvokeIntrinsic(name, sp, exp)
        PROVE  InvokedInv'
    <3> DEFINE pc == buffer.out - HeaderSize
               code == CodeInvokeIntrinsic(name, sp, exp)
    <3>1. invoked' = [name |-> name, code |-> code, sp |-> sp, exp |-> exp, pc |-> pc]
      BY <2>3 DEF InvokeIntrinsic
    <3>2. code = CodeOf(name, sp, exp, pc)
      BY DEF CodeInvokeIntrinsic, CodeOf, CodeIntrinsicReadRelativeSP, CodeIntrinsicReadPC, Names
    <3>3. pc \in Int /\ sp \in Nat /\ exp \in Nat
      <4>1. buffer.out \in Nat
        BY DEF EncodingInv, Placed, Sound, Buffer
      <4> QED BY <4>1, EncodingAssumption DEF HeaderSize
    <3> HIDE DEF pc, code
    <3> QED BY <3>1, <3>2, <3>3 DEF InvokedInv
  <2>4. CASE (\E i \in Single : Code(i)) \/ CodeVector(CodeRSADD("F")) \/ CodeVector(CodeCONST("F", 0))
             \/ \E f \in Files, line \in Lines : AddLine(f, line)
    BY <2>1, <2>4 DEF Code, CodeVector, AddLine
  <2>5. CASE SkipLine \/ Finish \/ ListInstruction \/ EndOfListing \/ UNCHANGED encodingVars
    BY <2>2, <2>5 DEF SkipLine, Finish, ListInstruction, EndOfListing, encodingVars
  <2> QED BY <2>3, <2>4, <2>5 DEF EncodingNext
<1> QED BY <1>1, <1>2, EncodingInvariant, PTL DEF EncodingSpec

(* Wherever it is used, an intrinsic puts its answer in the place of the   *)
(* call's and leaves the rest of the stack alone. *)
THEOREM IntrinsicsDoAnswer == EncodingSpec => []IntrinsicsAnswer
<1>1. InvokedInv => IntrinsicsAnswer
  <2> SUFFICES ASSUME InvokedInv, invoked.name # "none"
               PROVE  Afterwards =
                 CASE invoked.name = "ReadBP" -> [Before EXCEPT !.stack = Answered(Before.bp)]
                   [] invoked.name = "WriteBP" -> [stack |-> Front(Before.stack), bp |-> Last(Before.stack)]
                   [] invoked.name = "ReadRelativeSP" -> [Before EXCEPT !.stack = Answered(invoked.sp)]
                   [] invoked.name = "ReadSP" -> [Before EXCEPT !.stack = Answered(Callers + invoked.sp)]
                   [] invoked.name = "ReadPC" -> [Before EXCEPT !.stack = Answered(invoked.pc)]
    BY DEF IntrinsicsAnswer
  <2> DEFINE L == Callers + invoked.sp + invoked.exp
             code == invoked.code
  <2>1. /\ invoked.name \in Names
        /\ invoked.sp \in Nat /\ invoked.exp \in Nat /\ invoked.pc \in Int
        /\ code = CodeOf(invoked.name, invoked.sp, invoked.exp, invoked.pc)
    BY DEF InvokedInv
  <2>2. L \in Nat \ {0} /\ L - 1 \in Nat
    BY <2>1 DEF Callers
  <2>3. PICK r \in Seq(Int), a \in Int : /\ Before.stack = Append(r, a) /\ Len(r) = L - 1
                                         /\ Before.bp = 1
    <3> DEFINE front == [n \in 1 .. L - 1 |-> 100 + n]
               whole == [n \in 1 .. L |-> 100 + n]
    <3>1. Before.stack = whole /\ Before.bp = 1
      BY DEF Before
    <3> HIDE DEF L
    <3>2. front \in Seq(Int) /\ Len(front) = L - 1 /\ whole \in Seq(Int) /\ Len(whole) = L
          /\ 100 + L \in Int
      BY <2>2
    <3>3. whole = Append(front, 100 + L)
      <4>1. Append(front, 100 + L) \in Seq(Int) /\ Len(Append(front, 100 + L)) = L
        BY <2>2, <3>2
      <4>2. ASSUME NEW n \in 1 .. L PROVE whole[n] = Append(front, 100 + L)[n]
        BY <2>2, <3>2
      <4> HIDE DEF front, whole
      <4> QED BY <3>2, <4>1, <4>2
    <3> HIDE DEF front, whole
    <3> QED BY <3>1, <3>2, <3>3
  <2>4. Before = M(Append(r, a), 1) /\ Front(Before.stack) = r /\ Last(Before.stack) = a
    <3>1. Before = M(Before.stack, Before.bp)
      BY DEF Before, M
    <3>2. Front(Append(r, a)) = r /\ Last(Append(r, a)) = a
      BY Pushed
    <3> QED BY <2>3, <3>1, <3>2
  <2>5. ASSUME NEW v PROVE [Before EXCEPT !.stack = Answered(v)] = M(Append(r, v), 1)
    <3>1. Answered(v) = Append(r, v)
      BY <2>4, Zenon DEF Answered
    <3>2. PICK x : x = Append(r, a)
      OBVIOUS
    <3>3. PICK w : w = Append(r, v)
      OBVIOUS
    <3>4. Before = M(x, 1)
      BY <2>4, <3>2, Zenon
    <3>5. Answered(v) = w
      BY <3>1, <3>3, Zenon
    <3>6. [Before EXCEPT !.stack = w] = M(w, 1)
      BY <3>4 DEF M
    <3> QED BY <3>3, <3>5, <3>6, Zenon
  <2>6. [stack |-> Front(Before.stack), bp |-> Last(Before.stack)] = M(r, a)
    BY <2>4 DEF M
  <2>7. Len(code) \in Nat
    BY <2>1 DEF CodeOf, Names, Simple, CodeIntrinsicReadBP, CodeIntrinsicWriteBP, CodeIntrinsicReadSP
  <2>8. PICK s : Trace(M(Append(r, a), 1), code, Len(code), s) /\ Afterwards = s[Len(code)]
    BY <2>4, <2>7, AfterwardsTraced
  <2> HIDE DEF L, code
  <2>9. CASE invoked.name = "ReadBP"
    <3>1. code = CodeIntrinsicReadBP
      BY <2>1, <2>9 DEF CodeOf
    <3>2. Afterwards = M(Append(r, 1), 1)
      BY <2>8, <3>1, ReadBPAnswers
    <3> QED BY <2>3, <2>5, <2>9, <3>2
  <2>10. CASE invoked.name = "WriteBP"
    <3>1. code = CodeIntrinsicWriteBP
      BY <2>1, <2>10 DEF CodeOf
    <3>2. Afterwards = M(r, a)
      BY <2>8, <3>1, WriteBPAnswers
    <3> QED BY <2>6, <2>10, <3>2
  <2>11. CASE invoked.name = "ReadRelativeSP"
    <3>1. code = Simple(invoked.sp) /\ invoked.sp \in Int
      BY <2>1, <2>11 DEF CodeOf
    <3>2. Afterwards = M(Append(r, invoked.sp), 1)
      BY <2>8, <3>1, SimpleAnswers
    <3> QED BY <2>5, <2>11, <3>2
  <2>12. CASE invoked.name = "ReadSP"
    <3>1. code = CodeIntrinsicReadSP(invoked.exp)
      BY <2>1, <2>12 DEF CodeOf
    <3>2. Afterwards = M(Append(r, Len(r) + 1 - invoked.exp), 1)
      BY <2>1, <2>8, <3>1, ReadSPAnswers
    <3>3. Len(r) + 1 - invoked.exp = Callers + invoked.sp
      BY <2>1, <2>3 DEF L, Callers
    <3> QED BY <2>5, <2>12, <3>2, <3>3
  <2>13. CASE invoked.name = "ReadPC"
    <3>1. code = Simple(invoked.pc)
      BY <2>1, <2>13 DEF CodeOf
    <3>2. Afterwards = M(Append(r, invoked.pc), 1)
      BY <2>1, <2>8, <3>1, SimpleAnswers
    <3> QED BY <2>5, <2>13, <3>2
  <2> QED BY <2>1, <2>9, <2>10, <2>11, <2>12, <2>13 DEF Names
<1> QED BY <1>1, InvokedInvariant, PTL
=============================================================================
