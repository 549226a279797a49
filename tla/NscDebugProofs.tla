--------------------------- MODULE NscDebugProofs ---------------------------
(***************************************************************************)
(* Proofs about NscDebugSymbols, for all types, arguments and lengths of   *)
(* code: the variables that are open lie one on the other and take up the  *)
(* frame of the routine, which is what the debug file says of them.        *)
(***************************************************************************)
EXTENDS NscDebugSymbols, WellFoundedInduction, TLAPS

(* Every non-empty set of natural numbers has a least element. *)
LEMMA LessThanWellFounded == IsWellFoundedOn({ss \in Nat \X Nat : ss[1] < ss[2]}, Nat)
BY NatLessThanWellFounded DEF OpToRel

LEMMA Least ==
    ASSUME NEW T, T \subseteq Nat, T # {}
    PROVE  \E x \in T : \A y \in T : x <= y
<1> DEFINE R == {ss \in Nat \X Nat : ss[1] < ss[2]}
<1>1. \A x, y \in Nat : y < x => <<y, x>> \in R
  OBVIOUS
<1>2. IsWellFoundedOn(R, Nat)
  BY LessThanWellFounded
<1> HIDE DEF R
<1>3. PICK x \in T : \A y \in T : ~ (<<y, x>> \in R)
  BY <1>2, WFMin, Zenon
<1>4. ASSUME NEW y \in T PROVE ~ (y < x)
  <2>1. x \in Nat /\ y \in Nat
    OBVIOUS
  <2> QED BY <1>1, <1>3, <2>1, Zenon
<1>5. ASSUME NEW y \in T PROVE x <= y
  BY <1>4
<1> QED BY <1>5
-----------------------------------------------------------------------------
(* The variables of the debug file.                                        *)
Symbol == [offset : Nat, size : Nat, start : Nat, end : Nat \cup {Unset}]
Variable == [symbol : Nat, buffer : Nat]
Local == [symbols : Seq(Symbol), allocated : Nat, buffer : Nat, variables : Seq(Variable),
          moved : BOOLEAN]

(* Where the open variable k begins, and where it ends. *)
From(l, k) == l.symbols[l.variables[k].symbol].offset
To(l, k) == From(l, k) + l.symbols[l.variables[k].symbol].size

(* The open variables lie one on the other and take up the frame, of h     *)
(* cells; they are the symbols without an end.  Cells are taken again only *)
(* where those ended that had them. *)
InFrame(l, h) ==
    /\ \A k \in 1 .. Len(l.variables) :
         /\ l.variables[k].buffer = l.buffer /\ l.variables[k].symbol \in 1 .. Len(l.symbols)
         /\ To(l, k) <= h
    /\ \A k \in 1 .. Len(l.variables) : \A j \in 1 .. k - 1 : To(l, j) <= From(l, k)
    /\ \A x \in 0 .. h - 1 : \E k \in 1 .. Len(l.variables) : From(l, k) <= x /\ x < To(l, k)
    /\ \A n \in 1 .. Len(l.symbols) :
         l.symbols[n].end = Unset <=> \E k \in 1 .. Len(l.variables) : l.variables[k].symbol = n

Meet(s, t) == s.offset < t.offset + t.size /\ t.offset < s.offset + s.size
InTime(l, at) ==
    /\ \A n \in 1 .. Len(l.symbols) : l.symbols[n].end <= at
    /\ \A n \in 1 .. Len(l.symbols) : \A m \in 1 .. n - 1 :
         Meet(l.symbols[m], l.symbols[n]) =>
           l.symbols[m].end # Unset /\ l.symbols[m].end <= l.symbols[n].start

(* No open variable lies across depth d. *)
Splits(l, d) == \A k \in 1 .. Len(l.variables) : To(l, k) <= d \/ d <= From(l, k)

Described(l, h, at) == l \in Local /\ (~l.moved => InFrame(l, h) /\ InTime(l, at))

Height == IF routine = NoRoutine THEN 0 ELSE routine.ret + nSPDepth

DebugInv ==
    /\ out \in Nat /\ nSPDepth \in Nat /\ scopes \in Seq(Nat)
    /\ routine = NoRoutine \/ routine \in [ret : Nat, args : Nat]
    /\ routine = NoRoutine => scopes = <<>> /\ nSPDepth = 0
    /\ Described(local, Height, out)
    /\ \A k \in 1 .. Len(scopes) : scopes[k] <= nSPDepth
    /\ \A k \in 1 .. Len(scopes) : \A j \in 1 .. k - 1 : scopes[j] <= scopes[k]
    /\ ~local.moved => /\ routine # NoRoutine => Splits(local, routine.ret)
                       /\ \A k \in 1 .. Len(scopes) : Splits(local, routine.ret + scopes[k])

(* The symbols may get another buffer before a variable is added. *)
LEMMA RoomKeeps ==
    ASSUME NEW l \in Local
    PROVE  /\ MakeRoom(l) \in Local
           /\ MakeRoom(l).symbols = l.symbols /\ MakeRoom(l).variables = l.variables
           /\ l.moved => MakeRoom(l).moved
           /\ ~MakeRoom(l).moved => MakeRoom(l).buffer = l.buffer \/ l.variables = <<>>
<1>1. CASE Len(l.symbols) < l.allocated
  BY <1>1 DEF MakeRoom
<1>2. CASE ~(Len(l.symbols) < l.allocated)
  <2>1. PICK m \in BOOLEAN : m <=> (l.moved \/ l.variables # <<>>)
    BY DEF Local
  <2>2. MakeRoom(l) = [l EXCEPT !.allocated = l.allocated + GrowSize, !.buffer = l.buffer + 1,
                                !.moved = m]
    <3>1. m = (l.moved \/ l.variables # <<>>)
      BY <2>1 DEF Local
    <3> QED BY <1>2, <3>1 DEF MakeRoom
  <2>3. l.allocated + GrowSize \in Nat /\ l.buffer + 1 \in Nat
    BY DebugAssumption DEF Local
  <2> QED BY <2>1, <2>2, <2>3 DEF Local
<1> QED BY <1>1, <1>2

(* What is added is the last symbol and the last variable. *)
Added(l, n, h, size, start) ==
    /\ n \in Local
    /\ n.symbols = Append(l.symbols, [offset |-> h, size |-> size, start |-> start, end |-> Unset])
    /\ l.moved => n.moved
    /\ \E b \in Nat : /\ n.variables = Append(l.variables, [symbol |-> Len(l.symbols) + 1, buffer |-> b])
                      /\ b = n.buffer
    /\ ~n.moved => n.buffer = l.buffer \/ l.variables = <<>>

LEMMA AddAdds ==
    ASSUME NEW l \in Local, NEW h \in Nat, NEW size \in Nat, NEW start \in Nat
    PROVE  Added(l, AddLocalVariable(l, h, size, start), h, size, start)
<1>1. PICK room \in Local :
        /\ room = MakeRoom(l) /\ room.symbols = l.symbols /\ room.variables = l.variables
        /\ l.moved => room.moved
        /\ ~room.moved => room.buffer = l.buffer \/ l.variables = <<>>
  BY RoomKeeps
<1> DEFINE s == [offset |-> h, size |-> size, start |-> start, end |-> Unset]
           v == [symbol |-> Len(l.symbols) + 1, buffer |-> room.buffer]
<1>2. s \in Symbol /\ v \in Variable
  BY DEF Symbol, Variable, Local
<1>3. l.symbols \in Seq(Symbol) /\ l.variables \in Seq(Variable)
  BY DEF Local
<1> HIDE DEF s, v
<1>4. PICK t \in Seq(Symbol) : t = Append(l.symbols, s)
  <2>1. Append(l.symbols, s) \in Seq(Symbol)
    BY <1>2, <1>3
  <2> QED BY <2>1
<1>5. PICK w \in Seq(Variable) : w = Append(l.variables, v)
  <2>1. Append(l.variables, v) \in Seq(Variable)
    BY <1>2, <1>3
  <2> QED BY <2>1
<1>6. PICK n : n = [room EXCEPT !.symbols = t, !.variables = w]
  OBVIOUS
<1>7. AddLocalVariable(l, h, size, start) = n
  BY <1>1, <1>4, <1>5, <1>6 DEF AddLocalVariable, s, v
<1>8. n \in Local /\ n.symbols = t /\ n.variables = w /\ (n.moved <=> room.moved) /\ n.buffer = room.buffer
  BY <1>6 DEF Local
<1>9. l.moved => n.moved
  BY <1>1, <1>8
<1>10. ~n.moved => n.buffer = l.buffer \/ l.variables = <<>>
  BY <1>1, <1>8
<1>11. /\ n.variables = Append(l.variables, [symbol |-> Len(l.symbols) + 1, buffer |-> room.buffer])
       /\ room.buffer = n.buffer /\ room.buffer \in Nat
  BY <1>5, <1>8 DEF v, Local
<1>12. n.symbols = Append(l.symbols, [offset |-> h, size |-> size, start |-> start, end |-> Unset])
  BY <1>4, <1>8 DEF s
<1>13. Added(l, n, h, size, start)
  BY <1>8, <1>9, <1>10, <1>11, <1>12 DEF Added
<1> QED BY <1>7, <1>13

(* The variables that were there are where they were, and the new one is   *)
(* on top of them. *)
LEMMA AddedPlaces ==
    ASSUME NEW l \in Local, NEW n, NEW h \in Nat, NEW size \in Nat, NEW start \in Nat,
           Added(l, n, h, size, start),
           \A k \in 1 .. Len(l.variables) : l.variables[k].symbol \in 1 .. Len(l.symbols)
    PROVE  LET K == Len(l.variables)
               N == Len(l.symbols)
           IN /\ K \in Nat /\ N \in Nat
              /\ Len(n.variables) = K + 1 /\ Len(n.symbols) = N + 1
              /\ \A k \in 1 .. K : /\ n.variables[k] = l.variables[k]
                                   /\ From(n, k) = From(l, k) /\ To(n, k) = To(l, k)
              /\ \A m \in 1 .. N : n.symbols[m] = l.symbols[m]
              /\ n.variables[K + 1].symbol = N + 1 /\ n.variables[K + 1].buffer = n.buffer
              /\ From(n, K + 1) = h /\ To(n, K + 1) = h + size
              /\ n.symbols[N + 1] = [offset |-> h, size |-> size, start |-> start, end |-> Unset]
<1> DEFINE K == Len(l.variables)
           N == Len(l.symbols)
           s == [offset |-> h, size |-> size, start |-> start, end |-> Unset]
<1>1. K \in Nat /\ N \in Nat /\ l.symbols \in Seq(Symbol) /\ l.variables \in Seq(Variable)
  BY DEF Local
<1>2. PICK b \in Nat : n.variables = Append(l.variables, [symbol |-> N + 1, buffer |-> b]) /\ b = n.buffer
  BY DEF Added
<1>3. n.symbols = Append(l.symbols, s)
  BY DEF Added
<1>4. /\ Len(n.variables) = K + 1
      /\ \A k \in 1 .. K : n.variables[k] = l.variables[k]
      /\ n.variables[K + 1] = [symbol |-> N + 1, buffer |-> b]
  BY <1>1, <1>2
<1>5. /\ Len(n.symbols) = N + 1
      /\ \A m \in 1 .. N : n.symbols[m] = l.symbols[m]
      /\ n.symbols[N + 1] = s
  <2> HIDE DEF s
  <2> QED BY <1>1, <1>3
<1>6. n.variables[K + 1].symbol = N + 1 /\ n.variables[K + 1].buffer = n.buffer
  BY <1>2, <1>4
<1>7. From(n, K + 1) = h /\ To(n, K + 1) = h + size
  BY <1>5, <1>6 DEF From, To
<1>8. \A k \in 1 .. K : From(n, k) = From(l, k) /\ To(n, k) = To(l, k)
  <2> SUFFICES ASSUME NEW k \in 1 .. K PROVE From(n, k) = From(l, k) /\ To(n, k) = To(l, k)
    OBVIOUS
  <2>1. l.variables[k].symbol \in 1 .. N /\ n.variables[k] = l.variables[k]
    BY <1>4
  <2>2. n.symbols[l.variables[k].symbol] = l.symbols[l.variables[k].symbol]
    BY <1>5, <2>1
  <2> QED BY <2>1, <2>2 DEF From, To
<1> QED BY <1>1, <1>4, <1>5, <1>6, <1>7, <1>8

(* The cells of open variables are numbers, as are sizes. *)
LEMMA PlaceType ==
    ASSUME NEW l \in Local,
           \A k \in 1 .. Len(l.variables) : l.variables[k].symbol \in 1 .. Len(l.symbols)
    PROVE  /\ Len(l.variables) \in Nat /\ Len(l.symbols) \in Nat
           /\ \A k \in 1 .. Len(l.variables) : From(l, k) \in Nat /\ To(l, k) \in Nat /\ From(l, k) <= To(l, k)
           /\ \A n \in 1 .. Len(l.symbols) : l.symbols[n] \in Symbol
<1>1. l.symbols \in Seq(Symbol) /\ l.variables \in Seq(Variable)
  BY DEF Local
<1>2. Len(l.variables) \in Nat /\ Len(l.symbols) \in Nat
      /\ \A n \in 1 .. Len(l.symbols) : l.symbols[n] \in Symbol
  BY <1>1
<1>3. ASSUME NEW k \in 1 .. Len(l.variables)
      PROVE  From(l, k) \in Nat /\ To(l, k) \in Nat /\ From(l, k) <= To(l, k)
  <2>1. PICK s \in Symbol : s = l.symbols[l.variables[k].symbol]
    BY <1>2
  <2>2. s.offset \in Nat /\ s.size \in Nat
    BY DEF Symbol
  <2>3. From(l, k) = s.offset /\ To(l, k) = From(l, k) + s.size
    BY <2>1 DEF From, To
  <2> HIDE DEF From, To
  <2> QED BY <2>2, <2>3
<1> QED BY <1>2, <1>3

(* A variable that is added on top of the frame makes it higher. *)
LEMMA AddKeeps ==
    ASSUME NEW l \in Local, NEW n, NEW h \in Nat, NEW size \in Nat, NEW start \in Nat,
           NEW at \in Nat, NEW later \in Nat, at <= start, at <= later,
           Described(l, h, at), Added(l, n, h, size, start)
    PROVE  /\ Described(n, h + size, later)
           /\ ~n.moved => ~l.moved /\ \A d \in 0 .. h : Splits(l, d) => Splits(n, d)
<1>1. n \in Local /\ (l.moved => n.moved)
  BY DEF Added
<1>2. CASE n.moved
  BY <1>1, <1>2 DEF Described
<1>3. CASE ~n.moved
  <2> DEFINE K == Len(l.variables)
             N == Len(l.symbols)
  <2>1. ~l.moved /\ InFrame(l, h) /\ InTime(l, at)
    BY <1>1, <1>3 DEF Described
  <2>2. \A k \in 1 .. K : l.variables[k].symbol \in 1 .. N
    BY <2>1 DEF InFrame
  <2>3. /\ K \in Nat /\ N \in Nat
        /\ \A k \in 1 .. K : From(l, k) \in Nat /\ To(l, k) \in Nat /\ From(l, k) <= To(l, k)
        /\ \A m \in 1 .. N : l.symbols[m] \in Symbol
    BY <2>2, PlaceType
  <2>4. /\ Len(n.variables) = K + 1 /\ Len(n.symbols) = N + 1
        /\ \A k \in 1 .. K : /\ n.variables[k] = l.variables[k]
                             /\ From(n, k) = From(l, k) /\ To(n, k) = To(l, k)
        /\ \A m \in 1 .. N : n.symbols[m] = l.symbols[m]
        /\ n.variables[K + 1].symbol = N + 1 /\ n.variables[K + 1].buffer = n.buffer
        /\ From(n, K + 1) = h /\ To(n, K + 1) = h + size
        /\ n.symbols[N + 1] = [offset |-> h, size |-> size, start |-> start, end |-> Unset]
    BY <2>2, AddedPlaces, SMTT(60)
  <2>5. n.buffer = l.buffer \/ K = 0
    <3>1. l.variables = <<>> => K = 0
      OBVIOUS
    <3> QED BY <1>3, <3>1 DEF Added
  <2>6. \A k \in 1 .. K + 1 : k \in 1 .. K \/ k = K + 1
    BY <2>3
  <2>7. \A m \in 1 .. N + 1 : m \in 1 .. N \/ m = N + 1
    BY <2>3
  <2> HIDE DEF K, N
  <2>8. \A k \in 1 .. K : To(l, k) <= h /\ l.variables[k].buffer = l.buffer
    BY <2>1 DEF InFrame, K
  <2>9. \A k \in 1 .. K + 1 : /\ n.variables[k].buffer = n.buffer /\ n.variables[k].symbol \in 1 .. N + 1
                              /\ To(n, k) <= h + size
    <3> SUFFICES ASSUME NEW k \in 1 .. K + 1
                 PROVE  /\ n.variables[k].buffer = n.buffer /\ n.variables[k].symbol \in 1 .. N + 1
                        /\ To(n, k) <= h + size
      OBVIOUS
    <3>1. CASE k = K + 1
      BY <2>3, <2>4, <3>1
    <3>2. CASE k \in 1 .. K
      <4>1. n.variables[k].symbol \in 1 .. N + 1
        <5>1. n.variables[k] = l.variables[k] /\ l.variables[k].symbol \in 1 .. N
          BY <2>2, <2>4, <3>2
        <5> QED BY <2>3, <5>1
      <4>2. n.variables[k].buffer = n.buffer
        <5>1. n.variables[k] = l.variables[k] /\ l.variables[k].buffer = l.buffer
          BY <2>4, <2>8, <3>2
        <5>2. K # 0
          BY <2>3, <3>2
        <5> QED BY <2>5, <5>1, <5>2
      <4>3. To(n, k) <= h + size
        BY <2>3, <2>4, <2>8, <3>2
      <4> QED BY <4>1, <4>2, <4>3
    <3> QED BY <2>6, <3>1, <3>2
  <2>10. \A k \in 1 .. K + 1 : \A j \in 1 .. k - 1 : To(n, j) <= From(n, k)
    <3> SUFFICES ASSUME NEW k \in 1 .. K + 1, NEW j \in 1 .. k - 1 PROVE To(n, j) <= From(n, k)
      OBVIOUS
    <3>1. j \in 1 .. K
      BY <2>3
    <3>2. CASE k = K + 1
      BY <2>4, <2>8, <3>1, <3>2
    <3>3. CASE k \in 1 .. K
      BY <2>1, <2>4, <3>1, <3>3 DEF InFrame, K
    <3> QED BY <2>6, <3>2, <3>3
  <2>11. \A x \in 0 .. h + size - 1 : \E k \in 1 .. K + 1 : From(n, k) <= x /\ x < To(n, k)
    <3> SUFFICES ASSUME NEW x \in 0 .. h + size - 1
                 PROVE  \E k \in 1 .. K + 1 : From(n, k) <= x /\ x < To(n, k)
      OBVIOUS
    <3>1. CASE h <= x
      <4>1. K + 1 \in 1 .. K + 1
        BY <2>3
      <4>2. From(n, K + 1) <= x /\ x < To(n, K + 1)
        BY <2>4, <3>1
      <4> QED BY <4>1, <4>2
    <3>2. CASE ~(h <= x)
      <4>1. x \in 0 .. h - 1
        BY <3>2
      <4>2. PICK k \in 1 .. K : From(l, k) <= x /\ x < To(l, k)
        BY <2>1, <4>1 DEF InFrame, K
      <4>3. k \in 1 .. K + 1
        BY <2>3
      <4>4. From(n, k) <= x /\ x < To(n, k)
        BY <2>4, <4>2
      <4> QED BY <4>3, <4>4
    <3> QED BY <3>1, <3>2
  <2>12. \A m \in 1 .. N + 1 : n.symbols[m].end = Unset <=> \E k \in 1 .. K + 1 : n.variables[k].symbol = m
    <3> SUFFICES ASSUME NEW m \in 1 .. N + 1
                 PROVE  n.symbols[m].end = Unset <=> \E k \in 1 .. K + 1 : n.variables[k].symbol = m
      OBVIOUS
    <3>1. CASE m = N + 1
      <4>1. K + 1 \in 1 .. K + 1
        BY <2>3
      <4> QED BY <2>4, <3>1, <4>1
    <3>2. CASE m \in 1 .. N
      <4>1. m # N + 1
        BY <2>3, <3>2
      <4>2. l.symbols[m].end = Unset <=> \E k \in 1 .. K : l.variables[k].symbol = m
        BY <2>1, <3>2 DEF InFrame, K, N
      <4>3. \A k \in 1 .. K : k \in 1 .. K + 1
        BY <2>3
      <4> QED BY <2>4, <2>6, <3>2, <4>1, <4>2, <4>3
    <3> QED BY <2>7, <3>1, <3>2
  <2>13. InFrame(n, h + size)
    BY <2>4, <2>9, <2>10, <2>11, <2>12 DEF InFrame
  <2>14. \A m \in 1 .. N : l.symbols[m].end <= at /\ l.symbols[m].end \in Int
    BY <2>1, <2>3 DEF InTime, N, Symbol, Unset
  <2>15. \A m \in 1 .. N + 1 : n.symbols[m].end <= later
    <3> SUFFICES ASSUME NEW m \in 1 .. N + 1 PROVE n.symbols[m].end <= later
      OBVIOUS
    <3>1. CASE m = N + 1
      BY <2>4, <3>1 DEF Unset
    <3>2. CASE m \in 1 .. N
      BY <2>4, <2>14, <3>2
    <3> QED BY <2>7, <3>1, <3>2
  <2>16. \A j \in 1 .. N + 1 : \A m \in 1 .. j - 1 :
           Meet(n.symbols[m], n.symbols[j]) =>
             n.symbols[m].end # Unset /\ n.symbols[m].end <= n.symbols[j].start
    <3> SUFFICES ASSUME NEW j \in 1 .. N + 1, NEW m \in 1 .. j - 1, Meet(n.symbols[m], n.symbols[j])
                 PROVE  n.symbols[m].end # Unset /\ n.symbols[m].end <= n.symbols[j].start
      OBVIOUS
    <3>1. m \in 1 .. N
      BY <2>3
    <3>2. CASE j \in 1 .. N
      BY <2>1, <2>4, <3>1, <3>2 DEF InTime, N
    <3>3. CASE j = N + 1
      <4>1. n.symbols[m] = l.symbols[m]
        BY <2>4, <3>1
      <4>2. n.symbols[j].offset = h /\ n.symbols[j].start = start
        BY <2>4, <3>3
      <4>3. h < l.symbols[m].offset + l.symbols[m].size
        BY <4>1, <4>2 DEF Meet
      <4>4. l.symbols[m].end # Unset
        <5> SUFFICES ASSUME l.symbols[m].end = Unset PROVE FALSE
          OBVIOUS
        <5>1. PICK k \in 1 .. K : l.variables[k].symbol = m
          BY <2>1, <3>1 DEF InFrame, K, N
        <5>2. To(l, k) = l.symbols[m].offset + l.symbols[m].size
          BY <5>1 DEF From, To
        <5>3. To(l, k) <= h /\ To(l, k) \in Nat
          BY <2>3, <2>8
        <5> QED BY <4>3, <5>2, <5>3
      <4>5. l.symbols[m].end <= start
        BY <2>14, <3>1
      <4> QED BY <4>1, <4>2, <4>4, <4>5
    <3> QED BY <2>7, <3>2, <3>3
  <2>17. InTime(n, later)
    BY <2>4, <2>15, <2>16 DEF InTime
  <2>18. ASSUME NEW d \in 0 .. h, Splits(l, d) PROVE Splits(n, d)
    <3> SUFFICES ASSUME NEW k \in 1 .. K + 1 PROVE To(n, k) <= d \/ d <= From(n, k)
      BY <2>4 DEF Splits
    <3>1. CASE k = K + 1
      BY <2>4, <3>1
    <3>2. CASE k \in 1 .. K
      BY <2>4, <2>18, <3>2 DEF Splits, K
    <3> QED BY <2>6, <3>1, <3>2
  <2> QED BY <1>1, <2>1, <2>13, <2>17, <2>18 DEF Described
<1> QED BY <1>2, <1>3

(* What PurgeVariables leaves: a prefix of the variables; what is behind   *)
(* it has ended, but for those in a buffer that is gone. *)
Purged(l, n, k, d, at) ==
    /\ n \in Local /\ (n.moved <=> l.moved) /\ n.buffer = l.buffer
    /\ n.variables = SubSeq(l.variables, 1, k)
    /\ Len(n.symbols) = Len(l.symbols)
    /\ \A m \in 1 .. Len(l.symbols) :
         /\ n.symbols[m].offset = l.symbols[m].offset /\ n.symbols[m].size = l.symbols[m].size
         /\ n.symbols[m].start = l.symbols[m].start
         /\ n.symbols[m].end = IF m \in Ended(l, k) THEN at ELSE l.symbols[m].end

LEMMA PurgePurges ==
    ASSUME NEW l \in Local, NEW d \in Nat, NEW at \in Nat, NEW n \in PurgeVariables(l, d, at)
    PROVE  \E k \in Kept(l, d) : Purged(l, n, k, d, at)
<1>1. PICK k \in Kept(l, d) :
        n = [l EXCEPT !.variables = SubSeq(@, 1, k),
                      !.symbols = [m \in DOMAIN @ |-> IF m \in Ended(l, k) THEN [@[m] EXCEPT !.end = at]
                                                                          ELSE @[m]]]
  BY DEF PurgeVariables
<1>2. k \in 0 .. Len(l.variables)
  BY <1>1 DEF Kept
<1>3. l.symbols \in Seq(Symbol) /\ l.variables \in Seq(Variable)
  BY DEF Local
<1> DEFINE t == [m \in DOMAIN l.symbols |-> IF m \in Ended(l, k) THEN [l.symbols[m] EXCEPT !.end = at]
                                                                 ELSE l.symbols[m]]
           w == SubSeq(l.variables, 1, k)
<1>4. w \in Seq(Variable)
  BY <1>2, <1>3
<1>5. PICK N \in Nat : N = Len(l.symbols) /\ DOMAIN l.symbols = 1 .. N
                       /\ \A m \in 1 .. N : l.symbols[m] \in Symbol
  BY <1>3
<1>6. ASSUME NEW m \in 1 .. N
      PROVE  /\ t[m] \in Symbol
             /\ t[m].offset = l.symbols[m].offset /\ t[m].size = l.symbols[m].size
             /\ t[m].start = l.symbols[m].start
             /\ t[m].end = IF m \in Ended(l, k) THEN at ELSE l.symbols[m].end
  <2>1. PICK s \in Symbol : s = l.symbols[m]
    BY <1>5
  <2>2. t[m] = IF m \in Ended(l, k) THEN [s EXCEPT !.end = at] ELSE s
    BY <1>5, <2>1
  <2> HIDE DEF t
  <2>3. CASE m \in Ended(l, k)
    <3>1. t[m] = [s EXCEPT !.end = at]
      BY <2>2, <2>3
    <3> QED BY <2>1, <2>3, <3>1 DEF Symbol
  <2>4. CASE m \notin Ended(l, k)
    BY <2>1, <2>2, <2>4
  <2> QED BY <2>3, <2>4
<1>7. t \in Seq(Symbol) /\ Len(t) = N
  <2>1. t = [m \in 1 .. N |-> t[m]]
    BY <1>5
  <2> HIDE DEF t
  <2>2. t \in [1 .. N -> Symbol]
    BY <1>6, <2>1
  <2> QED BY <2>2
<1>8. n = [l EXCEPT !.variables = w, !.symbols = t]
  BY <1>1, Zenon
<1> HIDE DEF t, w
<1>9. n \in Local /\ (n.moved <=> l.moved) /\ n.buffer = l.buffer /\ n.variables = w /\ n.symbols = t
  BY <1>4, <1>7, <1>8 DEF Local
<1>10. n.variables = SubSeq(l.variables, 1, k)
  BY <1>9 DEF w
<1>11. Purged(l, n, k, d, at)
  BY <1>5, <1>6, <1>7, <1>9, <1>10 DEF Purged
<1> QED BY <1>11

LEMMA PurgeKeeps ==
    ASSUME NEW l \in Local, NEW h \in Nat, NEW d \in 0 .. h, NEW at \in Nat, NEW later \in Nat, at <= later,
           Described(l, h, at), ~l.moved => Splits(l, d), NEW n \in PurgeVariables(l, d, later)
    PROVE  /\ Described(n, d, later) /\ (n.moved <=> l.moved)
           /\ ~n.moved => \A c \in Nat : Splits(l, c) => Splits(n, c)
<1>1. PICK k \in Kept(l, d) : Purged(l, n, k, d, later)
  BY PurgePurges
<1>2. n \in Local /\ (n.moved <=> l.moved)
  BY <1>1 DEF Purged
<1>3. CASE n.moved
  BY <1>2, <1>3 DEF Described
<1>4. CASE ~n.moved
  <2> DEFINE K == Len(l.variables)
             N == Len(l.symbols)
  <2>1. ~l.moved /\ InFrame(l, h) /\ InTime(l, at) /\ Splits(l, d)
    BY <1>2, <1>4 DEF Described
  <2>2. \A i \in 1 .. K : /\ l.variables[i].symbol \in 1 .. N /\ l.variables[i].buffer = l.buffer
    BY <2>1 DEF InFrame
  <2>3. /\ K \in Nat /\ N \in Nat
        /\ \A i \in 1 .. K : From(l, i) \in Nat /\ To(l, i) \in Nat /\ From(l, i) <= To(l, i)
        /\ \A m \in 1 .. N : l.symbols[m] \in Symbol
    BY <2>2, PlaceType
  <2>4. \A i \in 1 .. K : IsDeep(l, l.variables[i], d) = {From(l, i) >= d}
    BY <2>2 DEF IsDeep, From
  <2>5. k \in 0 .. K /\ (\A i \in k + 1 .. K : From(l, i) >= d) /\ (k > 0 => From(l, k) < d)
    <3>1. /\ k \in 0 .. K
          /\ \A i \in k + 1 .. K : TRUE \in IsDeep(l, l.variables[i], d)
          /\ k > 0 => FALSE \in IsDeep(l, l.variables[k], d)
      BY <1>1 DEF Kept
    <3>2. ASSUME NEW i \in k + 1 .. K PROVE From(l, i) >= d
      <4>1. i \in 1 .. K
        BY <2>3, <3>1
      <4>2. TRUE \in {From(l, i) >= d}
        BY <2>4, <3>1, <4>1
      <4> QED BY <4>2
    <3>3. ASSUME k > 0 PROVE From(l, k) < d
      <4>1. k \in 1 .. K
        BY <2>3, <3>1, <3>3
      <4>2. FALSE \in {From(l, k) >= d}
        BY <2>4, <3>1, <3>3, <4>1
      <4>3. ~(From(l, k) >= d)
        BY <4>2, Zenon
      <4> QED BY <2>3, <4>1, <4>3
    <3> QED BY <3>1, <3>2, <3>3
  <2>6. \A i \in 1 .. K : \A j \in 1 .. i - 1 : To(l, j) <= From(l, i)
    BY <2>1 DEF InFrame
  <2>7. \A i \in 1 .. k : i \in 1 .. K /\ To(l, i) <= d /\ From(l, i) < d
    <3> SUFFICES ASSUME NEW i \in 1 .. k PROVE i \in 1 .. K /\ To(l, i) <= d /\ From(l, i) < d
      OBVIOUS
    <3>1. i \in 1 .. K /\ k \in 1 .. K /\ k > 0
      BY <2>3, <2>5
    <3>2. CASE i = k
      BY <2>1, <2>3, <2>5, <3>1, <3>2 DEF Splits
    <3>3. CASE i # k
      <4>1. i \in 1 .. k - 1
        BY <2>5, <3>3
      <4>2. To(l, i) <= From(l, k) /\ From(l, k) < d
        BY <2>5, <2>6, <3>1, <4>1
      <4> QED BY <2>3, <3>1, <4>2
    <3> QED BY <3>2, <3>3
  <2>8. /\ Len(n.variables) = k
        /\ \A i \in 1 .. k : n.variables[i] = l.variables[i]
    <3>1. n.variables = SubSeq(l.variables, 1, k) /\ l.variables \in Seq(Variable)
      BY <1>1 DEF Purged, Local
    <3> QED BY <2>3, <2>5, <3>1
  <2>9. /\ Len(n.symbols) = N /\ n.buffer = l.buffer
        /\ \A m \in 1 .. N :
             /\ n.symbols[m].offset = l.symbols[m].offset /\ n.symbols[m].size = l.symbols[m].size
             /\ n.symbols[m].start = l.symbols[m].start
             /\ n.symbols[m].end = IF m \in Ended(l, k) THEN later ELSE l.symbols[m].end
    BY <1>1 DEF Purged
  <2> HIDE DEF K, N
  <2>10. \A m : m \in Ended(l, k) <=> \E i \in k + 1 .. K : l.variables[i].symbol = m
    <3>1. \A i \in k + 1 .. K : l.variables[i].buffer = l.buffer
      BY <2>2, <2>3, <2>5
    <3> QED BY <3>1 DEF Ended, K
  <2>11. \A i \in 1 .. k : From(n, i) = From(l, i) /\ To(n, i) = To(l, i)
    <3> SUFFICES ASSUME NEW i \in 1 .. k PROVE From(n, i) = From(l, i) /\ To(n, i) = To(l, i)
      OBVIOUS
    <3>1. n.variables[i].symbol = l.variables[i].symbol /\ l.variables[i].symbol \in 1 .. N
      BY <2>2, <2>7, <2>8
    <3> QED BY <2>9, <3>1 DEF From, To
  <2>12. \A m \in 1 .. N : l.symbols[m].end = Unset <=> \E i \in 1 .. K : l.variables[i].symbol = m
    BY <2>1 DEF InFrame, K, N
  <2>13. \A i \in 1 .. K : i \in 1 .. k \/ i \in k + 1 .. K
    BY <2>3, <2>5
  <2>14. \A i \in k + 1 .. K : i \in 1 .. K
    BY <2>3, <2>5
  <2>15. \A i \in 1 .. k : /\ n.variables[i].buffer = n.buffer /\ n.variables[i].symbol \in 1 .. N
                           /\ To(n, i) <= d
    BY <2>2, <2>7, <2>8, <2>9, <2>11
  <2>16. \A i \in 1 .. k : \A j \in 1 .. i - 1 : To(n, j) <= From(n, i)
    <3> SUFFICES ASSUME NEW i \in 1 .. k, NEW j \in 1 .. i - 1 PROVE To(n, j) <= From(n, i)
      OBVIOUS
    <3>1. j \in 1 .. k /\ i \in 1 .. K
      BY <2>5, <2>7
    <3> QED BY <2>6, <2>11, <3>1
  <2>17. \A x \in 0 .. d - 1 : \E i \in 1 .. k : From(n, i) <= x /\ x < To(n, i)
    <3> SUFFICES ASSUME NEW x \in 0 .. d - 1
                 PROVE  \E i \in 1 .. k : From(n, i) <= x /\ x < To(n, i)
      OBVIOUS
    <3>1. x \in 0 .. h - 1 /\ x < d
      OBVIOUS
    <3>2. PICK i \in 1 .. K : From(l, i) <= x /\ x < To(l, i)
      BY <2>1, <3>1 DEF InFrame, K
    <3>3. i \in 1 .. k
      <4>1. ~(From(l, i) >= d)
        BY <2>3, <3>1, <3>2
      <4> QED BY <2>5, <2>13, <4>1
    <3> QED BY <2>11, <3>2, <3>3
  <2>18. \A m \in 1 .. N : m \in Ended(l, k) => l.symbols[m].end = Unset
    BY <2>10, <2>12, <2>14
  <2>19. \A m \in 1 .. N : n.symbols[m].end = Unset <=> \E i \in 1 .. k : n.variables[i].symbol = m
    <3> SUFFICES ASSUME NEW m \in 1 .. N
                 PROVE  n.symbols[m].end = Unset <=> \E i \in 1 .. k : n.variables[i].symbol = m
      OBVIOUS
    <3>1. ASSUME n.symbols[m].end = Unset PROVE \E i \in 1 .. k : n.variables[i].symbol = m
      <4>1. m \notin Ended(l, k)
        BY <2>9, <3>1 DEF Unset
      <4>2. l.symbols[m].end = Unset
        BY <2>9, <3>1, <4>1
      <4>3. PICK i \in 1 .. K : l.variables[i].symbol = m
        BY <2>12, <4>2
      <4>4. i \in 1 .. k
        BY <2>10, <2>13, <4>1, <4>3
      <4> QED BY <2>8, <4>3, <4>4
    <3>2. ASSUME NEW i \in 1 .. k, n.variables[i].symbol = m PROVE n.symbols[m].end = Unset
      <4>1. i \in 1 .. K /\ l.variables[i].symbol = m
        BY <2>7, <2>8, <3>2
      <4>2. l.symbols[m].end = Unset
        BY <2>12, <4>1
      <4>3. m \notin Ended(l, k)
        <5> SUFFICES ASSUME m \in Ended(l, k) PROVE FALSE
          OBVIOUS
        <5>1. PICK j \in k + 1 .. K : l.variables[j].symbol = m
          BY <2>10
        <5>2. From(l, i) < d
          BY <2>7
        <5>3. From(l, j) >= d /\ j \in 1 .. K
          BY <2>5, <2>14
        <5>4. From(l, j) = From(l, i)
          BY <4>1, <5>1 DEF From
        <5> QED BY <2>3, <2>5, <4>1, <5>2, <5>3, <5>4
      <4> QED BY <2>9, <4>2, <4>3
    <3> QED BY <3>1, <3>2
  <2>20. InFrame(n, d)
    BY <2>8, <2>9, <2>15, <2>16, <2>17, <2>19 DEF InFrame
  <2>21. \A m \in 1 .. N : n.symbols[m].end <= later
    <3> SUFFICES ASSUME NEW m \in 1 .. N PROVE n.symbols[m].end <= later
      OBVIOUS
    <3>1. l.symbols[m].end <= at /\ l.symbols[m].end \in Int
      BY <2>1, <2>3 DEF InTime, N, Symbol, Unset
    <3> QED BY <2>9, <3>1
  <2>22. \A j \in 1 .. N : \A m \in 1 .. j - 1 :
           Meet(n.symbols[m], n.symbols[j]) =>
             n.symbols[m].end # Unset /\ n.symbols[m].end <= n.symbols[j].start
    <3> SUFFICES ASSUME NEW j \in 1 .. N, NEW m \in 1 .. j - 1, Meet(n.symbols[m], n.symbols[j])
                 PROVE  n.symbols[m].end # Unset /\ n.symbols[m].end <= n.symbols[j].start
      OBVIOUS
    <3>1. m \in 1 .. N
      BY <2>3
    <3>2. Meet(l.symbols[m], l.symbols[j])
      BY <2>9, <3>1 DEF Meet
    <3>3. l.symbols[m].end # Unset /\ l.symbols[m].end <= l.symbols[j].start
      BY <2>1, <3>2 DEF InTime, N
    <3>4. m \notin Ended(l, k)
      BY <2>18, <3>1, <3>3
    <3> QED BY <2>9, <3>1, <3>3, <3>4
  <2>23. InTime(n, later)
    BY <2>9, <2>21, <2>22 DEF InTime
  <2>24. ASSUME NEW c \in Nat, Splits(l, c) PROVE Splits(n, c)
    <3> SUFFICES ASSUME NEW i \in 1 .. k PROVE To(n, i) <= c \/ c <= From(n, i)
      BY <2>8 DEF Splits
    <3>1. To(l, i) <= c \/ c <= From(l, i)
      BY <2>7, <2>24 DEF Splits, K
    <3> QED BY <2>11, <3>1
  <2> QED BY <1>2, <2>1, <2>20, <2>23, <2>24 DEF Described
<1> QED BY <1>3, <1>4

(* The size of the arguments, one by one. *)
Totals(sizes, N, s) == s = [n \in 0 .. N |-> IF n = 0 THEN 0 ELSE s[n - 1] + sizes[n]]

LEMMA TotalsExist ==
    ASSUME NEW sizes, NEW K \in Nat
    PROVE  \E s : Totals(sizes, K, s)
<1> DEFINE T == {m \in Nat : ~ \E s : Totals(sizes, m, s)}
<1>1. SUFFICES ASSUME T # {} PROVE FALSE
  OBVIOUS
<1>2. PICK m \in T : \A y \in T : m <= y
  <2>1. T \subseteq Nat
    OBVIOUS
  <2> HIDE DEF T
  <2> QED BY <1>1, <2>1, Least
<1>3. m \in Nat /\ ~ \E s : Totals(sizes, m, s)
  OBVIOUS
<1>4. CASE m = 0
  <2> DEFINE s == [n \in 0 .. 0 |-> 0]
  <2>1. s = [n \in 0 .. 0 |-> IF n = 0 THEN 0 ELSE s[n - 1] + sizes[n]]
    OBVIOUS
  <2> QED BY <1>3, <1>4, <2>1 DEF Totals
<1>5. CASE m # 0
  <2>1. m - 1 \in Nat /\ m - 1 \notin T
    BY <1>2, <1>3, <1>5
  <2>2. PICK g : Totals(sizes, m - 1, g)
    BY <2>1
  <2> DEFINE f == [n \in 0 .. m |-> IF n = m THEN g[m - 1] + sizes[m] ELSE g[n]]
             h == [n \in 0 .. m |-> IF n = 0 THEN 0 ELSE f[n - 1] + sizes[n]]
  <2>3. ASSUME NEW n \in 0 .. m PROVE f[n] = h[n]
    <3>1. CASE n = m
      <4>1. n - 1 \in 0 .. m /\ n - 1 # m
        BY <1>3, <1>5, <3>1
      <4>2. f[n - 1] = g[n - 1]
        BY <4>1
      <4> QED BY <1>5, <3>1, <4>2
    <3>2. CASE n # m /\ n # 0
      <4>1. n \in 0 .. m - 1 /\ n - 1 \in 0 .. m /\ n - 1 # m
        BY <1>3, <3>2
      <4>2. f[n - 1] = g[n - 1] /\ f[n] = g[n]
        BY <3>2, <4>1
      <4>3. g[n] = g[n - 1] + sizes[n]
        BY <2>2, <3>2, <4>1 DEF Totals
      <4> QED BY <3>2, <4>2, <4>3
    <3>3. CASE n = 0
      <4>1. g[0] = 0
        <5>1. 0 \in 0 .. m - 1
          BY <1>3, <1>5
        <5> QED BY <2>2, <5>1 DEF Totals
      <4> QED BY <1>5, <3>3, <4>1
    <3> QED BY <3>1, <3>2, <3>3
  <2>4. f = h
    <3>1. f = [n \in 0 .. m |-> f[n]] /\ h = [n \in 0 .. m |-> h[n]]
      OBVIOUS
    <3> HIDE DEF f, h
    <3> QED BY <2>3, <3>1
  <2>5. Totals(sizes, m, f)
    <3>1. h = [n \in 0 .. m |-> IF n = 0 THEN 0 ELSE f[n - 1] + sizes[n]]
      OBVIOUS
    <3> HIDE DEF f, h
    <3> QED BY <2>4, <3>1 DEF Totals
  <2> QED BY <1>3, <2>5
<1> QED BY <1>4, <1>5

LEMMA TotalSteps ==
    ASSUME NEW sizes, Len(sizes) \in Nat
    PROVE  \E s : Totals(sizes, Len(sizes), s) /\ Total(sizes) = s[Len(sizes)]
<1> DEFINE s == CHOOSE f : Totals(sizes, Len(sizes), f)
<1>1. Totals(sizes, Len(sizes), s)
  BY TotalsExist
<1>2. Total(sizes) = s[Len(sizes)]
  BY DEF Total, Totals
<1> QED BY <1>1, <1>2

(* The arguments, one after the other. *)
Begun(l, nOffset) == [l |-> l, nOffset |-> nOffset]
Adding(t, args, N, s) ==
    s = [n \in 0 .. N |-> IF n = 0 THEN t ELSE AddArgument(s[n - 1].l, s[n - 1].nOffset, args[n])]

LEMMA AddingExists ==
    ASSUME NEW t, NEW args, NEW K \in Nat
    PROVE  \E s : Adding(t, args, K, s)
<1> DEFINE T == {m \in Nat : ~ \E s : Adding(t, args, m, s)}
<1>1. SUFFICES ASSUME T # {} PROVE FALSE
  OBVIOUS
<1>2. PICK m \in T : \A y \in T : m <= y
  <2>1. T \subseteq Nat
    OBVIOUS
  <2> HIDE DEF T
  <2> QED BY <1>1, <2>1, Least
<1>3. m \in Nat /\ ~ \E s : Adding(t, args, m, s)
  OBVIOUS
<1>4. CASE m = 0
  <2> DEFINE s == [n \in 0 .. 0 |-> t]
  <2>1. s = [n \in 0 .. 0 |-> IF n = 0 THEN t ELSE AddArgument(s[n - 1].l, s[n - 1].nOffset, args[n])]
    OBVIOUS
  <2> QED BY <1>3, <1>4, <2>1 DEF Adding
<1>5. CASE m # 0
  <2>1. m - 1 \in Nat /\ m - 1 \notin T
    BY <1>2, <1>3, <1>5
  <2>2. PICK g : Adding(t, args, m - 1, g)
    BY <2>1
  <2> DEFINE f == [n \in 0 .. m |-> IF n = m THEN AddArgument(g[m - 1].l, g[m - 1].nOffset, args[m]) ELSE g[n]]
             h == [n \in 0 .. m |-> IF n = 0 THEN t ELSE AddArgument(f[n - 1].l, f[n - 1].nOffset, args[n])]
  <2>3. ASSUME NEW n \in 0 .. m PROVE f[n] = h[n]
    <3>1. CASE n = m
      <4>1. n - 1 \in 0 .. m /\ n - 1 # m
        BY <1>3, <1>5, <3>1
      <4>2. f[n - 1] = g[n - 1]
        BY <4>1
      <4> QED BY <1>5, <3>1, <4>2
    <3>2. CASE n # m /\ n # 0
      <4>1. n \in 0 .. m - 1 /\ n - 1 \in 0 .. m /\ n - 1 # m
        BY <1>3, <3>2
      <4>2. f[n - 1] = g[n - 1] /\ f[n] = g[n]
        BY <3>2, <4>1
      <4>3. g[n] = AddArgument(g[n - 1].l, g[n - 1].nOffset, args[n])
        BY <2>2, <3>2, <4>1 DEF Adding
      <4> QED BY <3>2, <4>2, <4>3
    <3>3. CASE n = 0
      <4>1. g[0] = t
        <5>1. 0 \in 0 .. m - 1
          BY <1>3, <1>5
        <5> QED BY <2>2, <5>1 DEF Adding
      <4> QED BY <1>5, <3>3, <4>1
    <3> QED BY <3>1, <3>2, <3>3
  <2>4. f = h
    <3>1. f = [n \in 0 .. m |-> f[n]] /\ h = [n \in 0 .. m |-> h[n]]
      OBVIOUS
    <3> HIDE DEF f, h
    <3> QED BY <2>3, <3>1
  <2>5. Adding(t, args, m, f)
    <3>1. h = [n \in 0 .. m |-> IF n = 0 THEN t ELSE AddArgument(f[n - 1].l, f[n - 1].nOffset, args[n])]
      OBVIOUS
    <3> HIDE DEF f, h
    <3> QED BY <2>4, <3>1 DEF Adding
  <2> QED BY <1>3, <2>5
<1> QED BY <1>4, <1>5

LEMMA ArgumentSteps ==
    ASSUME NEW l, NEW r, NEW args, Len(args) \in Nat
    PROVE  \E s : Adding(Begun(l, r), args, Len(args), s) /\ AddArguments(l, r, args) = s[Len(args)].l
<1> DEFINE s == CHOOSE f : Adding(Begun(l, r), args, Len(args), f)
<1>1. Adding(Begun(l, r), args, Len(args), s)
  BY AddingExists
<1>2. AddArguments(l, r, args) = s[Len(args)].l
  BY DEF AddArguments, Adding, Begun
<1> QED BY <1>1, <1>2

(* They lie above the value returned, as high as they are large. *)
LEMMA ArgumentsKeep ==
    ASSUME NEW l \in Local, NEW r \in Nat, NEW args \in Seq(Sizes), out \in Nat,
           Described(l, r, out), ~l.moved => Splits(l, r)
    PROVE  /\ Total(args) \in Nat
           /\ Described(AddArguments(l, r, args), r + Total(args), out)
           /\ ~AddArguments(l, r, args).moved => Splits(AddArguments(l, r, args), r)
<1>1. PICK K \in Nat : K = Len(args) /\ \A n \in 1 .. K : args[n] \in Nat
  <2>1. \A n \in 1 .. Len(args) : args[n] \in Sizes
    OBVIOUS
  <2>2. Sizes \subseteq Nat
    BY DebugAssumption
  <2>3. Len(args) \in Nat
    OBVIOUS
  <2> QED BY <2>1, <2>2, <2>3
<1>2. PICK total : Totals(args, K, total) /\ Total(args) = total[K]
  BY <1>1, TotalSteps
<1>3. PICK s : Adding(Begun(l, r), args, K, s) /\ AddArguments(l, r, args) = s[K].l
  BY <1>1, ArgumentSteps
<1>4. total[0] = 0 /\ \A n \in 1 .. K : total[n] = total[n - 1] + args[n]
  <2>1. total = [n \in 0 .. K |-> IF n = 0 THEN 0 ELSE total[n - 1] + args[n]]
    BY <1>2 DEF Totals
  <2>2. 0 \in 0 .. K /\ \A n \in 1 .. K : n \in 0 .. K /\ n # 0
    OBVIOUS
  <2> QED BY <2>1, <2>2
<1>5. s[0] = Begun(l, r) /\ \A n \in 1 .. K : s[n] = AddArgument(s[n - 1].l, s[n - 1].nOffset, args[n])
  BY <1>1, <1>3 DEF Adding
<1> DEFINE Stacked(n) == /\ total[n] \in Nat /\ s[n].nOffset = r + total[n] /\ s[n].l \in Local
                         /\ Described(s[n].l, s[n].nOffset, out)
                         /\ ~s[n].l.moved => Splits(s[n].l, r)
           T == {n \in 0 .. K : ~Stacked(n)}
<1>6. Stacked(0)
  BY <1>4, <1>5 DEF Begun
<1>7. ASSUME NEW n \in 1 .. K, Stacked(n - 1) PROVE Stacked(n)
  <2>1. PICK before \in Local : before = s[n - 1].l
    BY <1>7
  <2>2. PICK h \in Nat : h = s[n - 1].nOffset /\ h = r + total[n - 1]
    BY <1>7
  <2>3. PICK size \in Nat : size = args[n]
    BY <1>1
  <2>4. PICK more : more = AddLocalVariable(before, h, size, out)
    OBVIOUS
  <2>5. Added(before, more, h, size, out)
    BY <2>4, AddAdds
  <2>6. Described(before, h, out) /\ (~before.moved => Splits(before, r))
    BY <1>7, <2>1, <2>2
  <2>7. more \in Local
    BY <2>5 DEF Added
  <2>0. PICK at \in Nat : at = out /\ at <= at
    OBVIOUS
  <2>8. /\ Described(more, h + size, out)
        /\ ~more.moved => ~before.moved /\ \A d \in 0 .. h : Splits(before, d) => Splits(more, d)
    <3>1. Described(before, h, at) /\ Added(before, more, h, size, at)
      BY <2>0, <2>5, <2>6
    <3>2. before \in Local /\ h \in Nat /\ size \in Nat /\ at \in Nat
      BY <2>0, <2>1, <2>2, <2>3
    <3> QED BY <2>0, <3>1, <3>2, AddKeeps
  <2>9. r \in 0 .. h
    BY <1>7, <2>2
  <2>10. ~more.moved => Splits(more, r)
    BY <2>6, <2>8, <2>9
  <2>11. s[n].l = more /\ s[n].nOffset = h + size
    <3>1. s[n] = AddArgument(s[n - 1].l, s[n - 1].nOffset, args[n])
      BY <1>5
    <3>2. s[n] = AddArgument(before, h, size)
      BY <2>1, <2>2, <2>3, <3>1
    <3> QED BY <2>4, <3>2 DEF AddArgument
  <2>12. total[n] \in Nat /\ h + size = r + total[n]
    <3>1. total[n] = total[n - 1] + args[n]
      BY <1>4
    <3>2. total[n] = total[n - 1] + size /\ size \in Nat
      BY <2>3, <3>1
    <3>3. total[n - 1] \in Nat
      BY <1>7
    <3> QED BY <2>2, <3>2, <3>3
  <2> QED BY <2>7, <2>8, <2>10, <2>11, <2>12
<1> HIDE DEF Stacked
<1>8. T = {}
  <2> SUFFICES ASSUME T # {} PROVE FALSE
    OBVIOUS
  <2>1. PICK n \in T : \A y \in T : n <= y
    <3>1. T \subseteq Nat
      OBVIOUS
    <3> HIDE DEF T
    <3> QED BY <3>1, Least
  <2>2. n \in 0 .. K /\ ~Stacked(n)
    OBVIOUS
  <2>3. n # 0
    BY <1>6, <2>2
  <2>4. n \in 1 .. K /\ n - 1 \in 0 .. K /\ ~(n <= n - 1)
    BY <2>2, <2>3
  <2>5. n - 1 \notin T
    BY <2>1, <2>4
  <2> QED BY <1>7, <2>2, <2>4, <2>5
<1>9. Stacked(K)
  BY <1>1, <1>8
<1> QED BY <1>2, <1>3, <1>9 DEF Stacked

(* What was described is so a while later, and no open variable lies       *)
(* across the ends of the frame. *)
LEMMA DescribedLater ==
    ASSUME NEW l, NEW h \in Nat, NEW at \in Nat, NEW later \in Nat, at <= later, Described(l, h, at)
    PROVE  Described(l, h, later)
<1>1. CASE l.moved
  BY <1>1 DEF Described
<1>2. CASE ~l.moved
  <2>1. l \in Local /\ InFrame(l, h) /\ InTime(l, at)
    BY <1>2 DEF Described
  <2>2. \A k \in 1 .. Len(l.variables) : l.variables[k].symbol \in 1 .. Len(l.symbols)
    BY <2>1 DEF InFrame
  <2>3. \A n \in 1 .. Len(l.symbols) : l.symbols[n].end \in Int
    BY <2>1, <2>2, PlaceType DEF Symbol, Unset
  <2>4. \A n \in 1 .. Len(l.symbols) : l.symbols[n].end <= later
    BY <2>1, <2>3 DEF InTime
  <2>5. InTime(l, later)
    BY <2>1, <2>4 DEF InTime
  <2> QED BY <2>1, <2>5 DEF Described
<1> QED BY <1>1, <1>2

LEMMA EndsSplit ==
    ASSUME NEW l, NEW h \in Nat, NEW at \in Nat, Described(l, h, at), ~l.moved
    PROVE  Splits(l, h) /\ Splits(l, 0)
<1>1. l \in Local /\ InFrame(l, h)
  BY DEF Described
<1>2. \A k \in 1 .. Len(l.variables) : /\ l.variables[k].symbol \in 1 .. Len(l.symbols)
                                       /\ To(l, k) <= h
  BY <1>1 DEF InFrame
<1>3. \A k \in 1 .. Len(l.variables) : From(l, k) \in Nat
  BY <1>1, <1>2, PlaceType
<1>4. \A k \in 1 .. Len(l.variables) : 0 <= From(l, k)
  BY <1>3
<1> QED BY <1>2, <1>4 DEF Splits

-----------------------------------------------------------------------------
LEMMA DebugInvInit == DebugInit => DebugInv
<1> SUFFICES ASSUME DebugInit PROVE DebugInv
  OBVIOUS
<1>1. out = 0 /\ routine = NoRoutine /\ nSPDepth = 0 /\ scopes = <<>> /\ local = Empty
  BY DEF DebugInit
<1>2. Empty \in Local
  <2>1. <<>> \in Seq(Symbol) /\ <<>> \in Seq(Variable)
    OBVIOUS
  <2> QED BY <2>1 DEF Empty, Local
<1>3. Len(Empty.symbols) = 0 /\ Len(Empty.variables) = 0
  BY DEF Empty
<1>4. InFrame(Empty, 0) /\ InTime(Empty, 0)
  BY <1>3 DEF InFrame, InTime
<1>5. Described(Empty, 0, 0)
  BY <1>2, <1>4 DEF Described
<1>6. scopes \in Seq(Nat) /\ Len(scopes) = 0
  BY <1>1
<1>7. Height = 0
  BY <1>1 DEF Height
<1> QED BY <1>1, <1>5, <1>6, <1>7 DEF DebugInv

(* A routine with its value and its arguments. *)
LEMMA BeginRoutineKeeps ==
    ASSUME DebugInv, NEW ret \in Nat, NEW args \in Arguments, BeginRoutine(ret, args)
    PROVE  DebugInv'
<1>1. PICK at \in Nat : at = out /\ at <= at
  BY DEF DebugInv
<1>2. PICK l \in Local : l = local /\ Described(l, 0, at)
  <2>1. routine = NoRoutine
    BY DEF BeginRoutine
  <2>2. Described(local, 0, out)
    BY <2>1 DEF DebugInv, Height
  <2> QED BY <1>1, <2>2 DEF Described
<1>3. PICK retval : /\ retval = AddLocalVariable(l, 0, ret, at) \/ (ret = 0 /\ retval = l)
                    /\ local' = AddArguments(retval, ret, args)
  <2>1. PICK v \in {AddLocalVariable(local, 0, ret, out)} \cup (IF ret = 0 THEN {local} ELSE {}) :
          local' = AddArguments(v, ret, args)
    BY DEF BeginRoutine
  <2>2. v = AddLocalVariable(local, 0, ret, out) \/ (ret = 0 /\ v = local)
    <3>1. CASE ret = 0
      BY <2>1, <3>1
    <3>2. CASE ret # 0
      <4>1. v \in {AddLocalVariable(local, 0, ret, out)} \cup {}
        BY <2>1, <3>2
      <4> QED BY <4>1
    <3> QED BY <3>1, <3>2
  <2> QED BY <1>1, <1>2, <2>1, <2>2
<1>4. retval \in Local /\ Described(retval, ret, at)
  <2>1. CASE ret = 0 /\ retval = l
    BY <1>2, <2>1
  <2>2. CASE retval = AddLocalVariable(l, 0, ret, at)
    <3>1. Added(l, retval, 0, ret, at) /\ 0 \in Nat
      BY <2>2, AddAdds
    <3>2. Described(retval, 0 + ret, at)
      BY <1>1, <1>2, <3>1, AddKeeps
    <3>3. 0 + ret = ret
      OBVIOUS
    <3> QED BY <3>1, <3>2, <3>3 DEF Added
  <2> QED BY <1>3, <2>1, <2>2
<1>5. ~retval.moved => Splits(retval, ret)
  BY <1>4, EndsSplit
<1>6. args \in Seq(Sizes)
  BY DebugAssumption
<1>7. /\ Total(args) \in Nat
      /\ Described(AddArguments(retval, ret, args), ret + Total(args), out)
      /\ ~AddArguments(retval, ret, args).moved => Splits(AddArguments(retval, ret, args), ret)
  BY <1>1, <1>4, <1>5, <1>6, ArgumentsKeep
<1>8. PICK total \in Nat : total = Total(args)
  BY <1>7
<1>9. /\ routine' = [ret |-> ret, args |-> total] /\ nSPDepth' = total /\ out' = at /\ scopes' = <<>>
      /\ local' = AddArguments(retval, ret, args)
  <2>1. scopes = <<>>
    BY DEF DebugInv, BeginRoutine
  <2> QED BY <1>1, <1>3, <1>8, <2>1 DEF BeginRoutine
<1>10. routine' \in [ret : Nat, args : Nat] /\ routine' # NoRoutine /\ routine'.ret = ret
  BY <1>9 DEF NoRoutine
<1>11. Height' = ret + total
  BY <1>9, <1>10 DEF Height
<1>12. Described(local', Height', out') /\ (~local'.moved => Splits(local', routine'.ret))
  BY <1>1, <1>7, <1>8, <1>9, <1>10, <1>11
<1>13. scopes' \in Seq(Nat) /\ Len(scopes') = 0
  BY <1>9
<1> QED BY <1>9, <1>10, <1>12, <1>13 DEF DebugInv

(* The facts that the steps within a routine need, about numbers. *)
LEMMA WithinRoutine ==
    ASSUME DebugInv, routine # NoRoutine
    PROVE  \E ret \in Nat, args \in Nat, h \in Nat, at \in Nat, K \in Nat, l \in Local :
             /\ routine = [ret |-> ret, args |-> args] /\ routine.ret = ret /\ routine.args = args
             /\ nSPDepth \in Nat /\ h = ret + nSPDepth
             /\ at = out /\ at <= at /\ l = local
             /\ Described(l, h, at) /\ Height = h
             /\ scopes \in Seq(Nat) /\ K = Len(scopes)
             /\ \A k \in 1 .. K : scopes[k] \in Nat /\ scopes[k] <= nSPDepth
             /\ ~l.moved => Splits(l, ret) /\ \A k \in 1 .. K : Splits(l, ret + scopes[k])
<1>1. PICK r \in [ret : Nat, args : Nat] : r = routine
  BY DEF DebugInv
<1>2. PICK ret \in Nat, args \in Nat : r = [ret |-> ret, args |-> args]
  <2>1. r.ret \in Nat /\ r.args \in Nat /\ r = [ret |-> r.ret, args |-> r.args]
    OBVIOUS
  <2> QED BY <2>1
<1>3. nSPDepth \in Nat /\ out \in Nat /\ scopes \in Seq(Nat)
  BY DEF DebugInv
<1>4. PICK h \in Nat : h = ret + nSPDepth
  BY <1>3
<1>5. Height = h /\ routine.ret = ret /\ routine.args = args
  BY <1>1, <1>2, <1>4 DEF Height
<1>6. PICK at \in Nat : at = out /\ at <= at
  BY <1>3
<1>7. PICK l \in Local : l = local /\ Described(l, h, at)
  BY <1>5, <1>6 DEF DebugInv, Described
<1>8. PICK K \in Nat : K = Len(scopes) /\ \A k \in 1 .. K : scopes[k] \in Nat
  BY <1>3
<1>9. \A k \in 1 .. K : scopes[k] <= nSPDepth
  BY <1>8 DEF DebugInv
<1>10. ~l.moved => Splits(l, ret) /\ \A k \in 1 .. K : Splits(l, ret + scopes[k])
  BY <1>5, <1>7, <1>8 DEF DebugInv
<1> QED BY <1>1, <1>2, <1>3, <1>4, <1>5, <1>6, <1>7, <1>8, <1>9, <1>10

(* A declaration makes the frame higher. *)
LEMMA DeclareKeeps ==
    ASSUME DebugInv, NEW size \in Sizes, Declare(size)
    PROVE  DebugInv'
<1>1. routine # NoRoutine /\ size \in Nat
  <2>1. scopes # <<>>
    BY DEF Declare
  <2> QED BY <2>1, DebugAssumption DEF DebugInv
<1>2. PICK ret \in Nat, args \in Nat, h \in Nat, at \in Nat, K \in Nat, l \in Local :
        /\ routine = [ret |-> ret, args |-> args] /\ routine.ret = ret /\ routine.args = args
        /\ nSPDepth \in Nat /\ h = ret + nSPDepth
        /\ at = out /\ at <= at /\ l = local
        /\ Described(l, h, at) /\ Height = h
        /\ scopes \in Seq(Nat) /\ K = Len(scopes)
        /\ \A k \in 1 .. K : scopes[k] \in Nat /\ scopes[k] <= nSPDepth
        /\ ~l.moved => Splits(l, ret) /\ \A k \in 1 .. K : Splits(l, ret + scopes[k])
  BY <1>1, WithinRoutine
<1>3. PICK start \in {at, at + 1} : local' = AddLocalVariable(l, h, size, start)
  <2>1. nSPDepth + routine.ret = h
    BY <1>2
  <2> QED BY <1>2, <2>1 DEF Declare
<1>4. /\ routine' = routine /\ scopes' = scopes
      /\ out' = at + 1 /\ nSPDepth' = nSPDepth + size
  BY <1>2 DEF Declare
<1>5. start \in Nat /\ at <= start /\ at + 1 \in Nat /\ at <= at + 1
  BY <1>2
<1>6. PICK n : n = local'
  OBVIOUS
<1>7. Added(l, n, h, size, start)
  BY <1>1, <1>2, <1>3, <1>5, <1>6, AddAdds
<1>8. /\ Described(n, h + size, at + 1)
      /\ ~n.moved => ~l.moved /\ \A d \in 0 .. h : Splits(l, d) => Splits(n, d)
  BY <1>1, <1>2, <1>5, <1>7, AddKeeps
<1>9. Height' = h + size
  BY <1>1, <1>2, <1>4 DEF Height
<1>10. ret \in 0 .. h /\ \A k \in 1 .. K : ret + scopes[k] \in 0 .. h
  BY <1>2
<1>11. ~n.moved => Splits(n, ret) /\ \A k \in 1 .. K : Splits(n, ret + scopes[k])
  BY <1>2, <1>8, <1>10
<1>12. \A k \in 1 .. K : scopes[k] <= nSPDepth + size
  BY <1>1, <1>2
<1>13. nSPDepth + size \in Nat
  BY <1>1, <1>2
<1>14. Described(local', Height', out')
  BY <1>4, <1>6, <1>8, <1>9
<1>15. ~local'.moved => /\ routine' # NoRoutine => Splits(local', routine'.ret)
                        /\ \A k \in 1 .. Len(scopes') : Splits(local', routine'.ret + scopes'[k])
  BY <1>2, <1>4, <1>6, <1>11
<1>16. routine' \in [ret : Nat, args : Nat]
  BY <1>2, <1>4
<1>17. \A k \in 1 .. Len(scopes') : scopes'[k] <= nSPDepth'
  BY <1>2, <1>4, <1>12
<1>18. \A k \in 1 .. Len(scopes') : \A j \in 1 .. k - 1 : scopes'[j] <= scopes'[k]
  BY <1>4 DEF DebugInv
<1>19. scopes' \in Seq(Nat) /\ out' \in Nat /\ nSPDepth' \in Nat /\ routine' # NoRoutine
  BY <1>1, <1>2, <1>4, <1>5, <1>13
<1> QED BY <1>14, <1>15, <1>16, <1>17, <1>18, <1>19 DEF DebugInv

(* A statement begins on top of the frame. *)
LEMMA BeginStatementKeeps ==
    ASSUME DebugInv, BeginStatement
    PROVE  DebugInv'
<1>1. routine # NoRoutine
  BY DEF BeginStatement
<1>2. PICK ret \in Nat, args \in Nat, h \in Nat, at \in Nat, K \in Nat, l \in Local :
        /\ routine = [ret |-> ret, args |-> args] /\ routine.ret = ret /\ routine.args = args
        /\ nSPDepth \in Nat /\ h = ret + nSPDepth
        /\ at = out /\ at <= at /\ l = local
        /\ Described(l, h, at) /\ Height = h
        /\ scopes \in Seq(Nat) /\ K = Len(scopes)
        /\ \A k \in 1 .. K : scopes[k] \in Nat /\ scopes[k] <= nSPDepth
        /\ ~l.moved => Splits(l, ret) /\ \A k \in 1 .. K : Splits(l, ret + scopes[k])
  BY <1>1, WithinRoutine
<1>3. /\ routine' = routine /\ nSPDepth' = nSPDepth /\ local' = l
      /\ out' = at + 1 /\ scopes' = Append(scopes, nSPDepth)
  BY <1>2 DEF BeginStatement
<1>4. /\ scopes' \in Seq(Nat) /\ Len(scopes') = K + 1
      /\ scopes'[K + 1] = nSPDepth /\ \A k \in 1 .. K : scopes'[k] = scopes[k]
  BY <1>2, <1>3
<1>5. \A k \in 1 .. K + 1 : k \in 1 .. K \/ k = K + 1
  BY <1>2
<1>6. \A k \in 1 .. Len(scopes') : scopes'[k] <= nSPDepth'
  BY <1>2, <1>3, <1>4, <1>5
<1>7. \A k \in 1 .. Len(scopes') : \A j \in 1 .. k - 1 : scopes'[j] <= scopes'[k]
  <2> SUFFICES ASSUME NEW k \in 1 .. K + 1, NEW j \in 1 .. k - 1 PROVE scopes'[j] <= scopes'[k]
    BY <1>4
  <2>1. j \in 1 .. K
    BY <1>2
  <2>2. CASE k = K + 1
    BY <1>2, <1>4, <2>1, <2>2
  <2>3. CASE k \in 1 .. K
    <3>1. scopes[j] <= scopes[k]
      BY <1>2, <2>3 DEF DebugInv
    <3> QED BY <1>4, <2>1, <2>3, <3>1
  <2> QED BY <1>5, <2>2, <2>3
<1>8. Height' = h
  BY <1>1, <1>2, <1>3 DEF Height
<1>9. Described(l, h, at + 1)
  <2>1. at + 1 \in Nat /\ at <= at + 1
    BY <1>2
  <2> QED BY <1>2, <2>1, DescribedLater
<1>10. Described(local', Height', out')
  BY <1>3, <1>8, <1>9
<1>11. ~l.moved => Splits(l, h)
  BY <1>2, EndsSplit
<1>12. ~l.moved => \A k \in 1 .. K + 1 : Splits(l, ret + scopes'[k])
  <2> SUFFICES ASSUME ~l.moved, NEW k \in 1 .. K + 1 PROVE Splits(l, ret + scopes'[k])
    OBVIOUS
  <2>1. CASE k = K + 1
    <3>1. ret + scopes'[k] = h
      BY <1>2, <1>4, <2>1
    <3> QED BY <1>11, <3>1
  <2>2. CASE k \in 1 .. K
    BY <1>2, <1>4, <2>2
  <2> QED BY <1>5, <2>1, <2>2
<1>13. ~local'.moved => /\ routine' # NoRoutine => Splits(local', routine'.ret)
                        /\ \A k \in 1 .. Len(scopes') : Splits(local', routine'.ret + scopes'[k])
  <2>1. routine'.ret = ret /\ local' = l /\ Len(scopes') = K + 1
    BY <1>2, <1>3, <1>4
  <2> QED BY <1>2, <1>12, <2>1
<1>14. routine' \in [ret : Nat, args : Nat] /\ routine' # NoRoutine
  BY <1>1, <1>2, <1>3
<1>15. out' \in Nat /\ nSPDepth' \in Nat
  BY <1>2, <1>3
<1> QED BY <1>4, <1>6, <1>7, <1>10, <1>13, <1>14, <1>15 DEF DebugInv

(* What a statement declared goes with it. *)
LEMMA EndStatementKeeps ==
    ASSUME DebugInv, EndStatement
    PROVE  DebugInv'
<1>1. routine # NoRoutine /\ scopes # <<>>
  BY DEF DebugInv, EndStatement
<1>2. PICK ret \in Nat, args \in Nat, h \in Nat, at \in Nat, K \in Nat, l \in Local :
        /\ routine = [ret |-> ret, args |-> args] /\ routine.ret = ret /\ routine.args = args
        /\ nSPDepth \in Nat /\ h = ret + nSPDepth
        /\ at = out /\ at <= at /\ l = local
        /\ Described(l, h, at) /\ Height = h
        /\ scopes \in Seq(Nat) /\ K = Len(scopes)
        /\ \A k \in 1 .. K : scopes[k] \in Nat /\ scopes[k] <= nSPDepth
        /\ ~l.moved => Splits(l, ret) /\ \A k \in 1 .. K : Splits(l, ret + scopes[k])
  BY <1>1, WithinRoutine
<1>3. K \in 1 .. K /\ K # 0
  BY <1>1, <1>2
<1>4. PICK b \in Nat : b = scopes[K] /\ b <= nSPDepth /\ b = Last(scopes)
  BY <1>2, <1>3 DEF Last
<1>5. PICK d \in Nat : d = ret + b /\ d <= h
  BY <1>2, <1>4
<1>6. PICK nLocals \in Nat : nLocals = nSPDepth - b
  BY <1>2, <1>4
<1>7. nSPDepth - nLocals = b /\ ret + nSPDepth - nLocals = d
  BY <1>2, <1>4, <1>5, <1>6
<1>8. /\ routine' = routine /\ nSPDepth' = b /\ scopes' = Front(scopes)
      /\ IF nLocals = 0 THEN out' = at /\ local' = l
         ELSE local' \in PurgeVariables(l, d, at) /\ out' = at + 1
  <2>1. nLocals = nSPDepth - Last(scopes)
    BY <1>4, <1>6
  <2>2. /\ routine' = routine /\ nSPDepth' = nSPDepth - nLocals /\ scopes' = Front(scopes)
        /\ IF nLocals = 0 THEN out' = out /\ local' = local
           ELSE local' \in PurgeVariables(local, routine.ret + nSPDepth - nLocals, out) /\ out' = out + 1
    BY <2>1 DEF EndStatement
  <2>3. routine.ret + nSPDepth - nLocals = d
    BY <1>2, <1>7
  <2> QED BY <1>2, <1>7, <2>2, <2>3
<1>9. /\ scopes' \in Seq(Nat) /\ Len(scopes') = K - 1
      /\ \A k \in 1 .. K - 1 : scopes'[k] = scopes[k]
  <2>1. Front(scopes) = SubSeq(scopes, 1, K - 1)
    BY <1>2 DEF Front
  <2> QED BY <1>2, <1>3, <1>8, <2>1
<1>10. \A k \in 1 .. K - 1 : k \in 1 .. K
  BY <1>2
<1>11. \A k \in 1 .. Len(scopes') : scopes'[k] <= nSPDepth'
  <2> SUFFICES ASSUME NEW k \in 1 .. K - 1 PROVE scopes'[k] <= b
    BY <1>8, <1>9
  <2>1. scopes[k] <= scopes[K]
    BY <1>2, <1>3 DEF DebugInv
  <2> QED BY <1>4, <1>9, <2>1
<1>12. \A k \in 1 .. Len(scopes') : \A j \in 1 .. k - 1 : scopes'[j] <= scopes'[k]
  <2> SUFFICES ASSUME NEW k \in 1 .. K - 1, NEW j \in 1 .. k - 1 PROVE scopes'[j] <= scopes'[k]
    BY <1>9
  <2>1. j \in 1 .. K - 1 /\ k \in 1 .. K
    BY <1>2
  <2>2. scopes[j] <= scopes[k]
    BY <1>2, <2>1 DEF DebugInv
  <2> QED BY <1>9, <2>1, <2>2
<1>13. Height' = d
  BY <1>1, <1>2, <1>5, <1>8 DEF Height
<1>14. PICK n : n = local'
  OBVIOUS
<1>15. /\ Described(n, d, out') /\ out' \in Nat /\ (n.moved <=> l.moved)
       /\ ~n.moved => \A c \in Nat : Splits(l, c) => Splits(n, c)
  <2>1. CASE nLocals = 0
    <3>1. d = h
      BY <1>2, <1>7, <2>1
    <3> QED BY <1>2, <1>8, <1>14, <2>1, <3>1
  <2>2. CASE nLocals # 0
    <3>1. n \in PurgeVariables(l, d, at) /\ out' = at + 1
      BY <1>8, <1>14, <2>2
    <3>2. d \in 0 .. h /\ (~l.moved => Splits(l, d))
      <4>1. ~l.moved => Splits(l, ret + scopes[K])
        BY <1>2, <1>3
      <4>2. ret + scopes[K] = d
        BY <1>4, <1>5
      <4>3. d \in 0 .. h
        BY <1>5
      <4> QED BY <4>1, <4>2, <4>3
    <3>3. /\ Described(n, d, at) /\ (n.moved <=> l.moved)
          /\ ~n.moved => \A c \in Nat : Splits(l, c) => Splits(n, c)
      BY <1>2, <3>1, <3>2, PurgeKeeps
    <3>4. at + 1 \in Nat /\ at <= at + 1
      BY <1>2
    <3>5. Described(n, d, at + 1)
      BY <1>2, <3>3, <3>4, DescribedLater
    <3> QED BY <3>1, <3>3, <3>4, <3>5
  <2> QED BY <2>1, <2>2
<1>16. Described(local', Height', out')
  BY <1>13, <1>14, <1>15
<1>17. ~n.moved => Splits(n, ret) /\ \A k \in 1 .. K - 1 : Splits(n, ret + scopes[k])
  <2>1. \A k \in 1 .. K - 1 : ret + scopes[k] \in Nat
    BY <1>2, <1>10
  <2> QED BY <1>2, <1>10, <1>15, <2>1
<1>18. ~local'.moved => /\ routine' # NoRoutine => Splits(local', routine'.ret)
                        /\ \A k \in 1 .. Len(scopes') : Splits(local', routine'.ret + scopes'[k])
  <2>1. routine'.ret = ret /\ local' = n /\ Len(scopes') = K - 1
    BY <1>2, <1>8, <1>9, <1>14
  <2> QED BY <1>9, <1>17, <2>1
<1>19. routine' \in [ret : Nat, args : Nat] /\ routine' # NoRoutine /\ nSPDepth' \in Nat
  BY <1>1, <1>2, <1>4, <1>8
<1> QED BY <1>9, <1>11, <1>12, <1>15, <1>16, <1>18, <1>19 DEF DebugInv

(* The arguments go, and then the value returned. *)
LEMMA EndRoutineKeeps ==
    ASSUME DebugInv, EndRoutine
    PROVE  DebugInv'
<1>1. routine # NoRoutine /\ scopes = <<>>
  BY DEF EndRoutine
<1>2. PICK ret \in Nat, args \in Nat, h \in Nat, at \in Nat, K \in Nat, l \in Local :
        /\ routine = [ret |-> ret, args |-> args] /\ routine.ret = ret /\ routine.args = args
        /\ nSPDepth \in Nat /\ h = ret + nSPDepth
        /\ at = out /\ at <= at /\ l = local
        /\ Described(l, h, at) /\ Height = h
        /\ scopes \in Seq(Nat) /\ K = Len(scopes)
        /\ \A k \in 1 .. K : scopes[k] \in Nat /\ scopes[k] <= nSPDepth
        /\ ~l.moved => Splits(l, ret) /\ \A k \in 1 .. K : Splits(l, ret + scopes[k])
  BY <1>1, WithinRoutine
<1>3. PICK movsp \in {0, 1} : movsp = IF args = 0 THEN 0 ELSE 1
  OBVIOUS
<1>4. PICK m : /\ m \in PurgeVariables(l, ret, at)
               /\ local' \in PurgeVariables(m, 0, at + movsp)
  BY <1>2, <1>3 DEF EndRoutine
<1>5. /\ out' = at + movsp + 1 /\ routine' = NoRoutine /\ nSPDepth' = 0 /\ scopes' = <<>>
  BY <1>1, <1>2, <1>3 DEF EndRoutine
<1>6. ret \in 0 .. h
  BY <1>2
<1>7. Described(m, ret, at)
  BY <1>2, <1>4, <1>6, PurgeKeeps
<1>8. PICK n : n = local'
  OBVIOUS
<1>9. at + movsp \in Nat /\ at <= at + movsp /\ at + movsp + 1 \in Nat /\ at + movsp <= at + movsp + 1
  BY <1>2, <1>3
<1>10. Described(n, 0, at + movsp)
  <2>1. m \in Local
    BY <1>7 DEF Described
  <2>2. ~m.moved => Splits(m, 0)
    BY <1>7, EndsSplit
  <2>3. 0 \in 0 .. ret
    OBVIOUS
  <2>4. n \in PurgeVariables(m, 0, at + movsp)
    BY <1>4, <1>8
  <2> QED BY <1>7, <1>9, <2>1, <2>2, <2>3, <2>4, PurgeKeeps
<1>11. Described(n, 0, at + movsp + 1)
  BY <1>9, <1>10, DescribedLater
<1>12. Height' = 0
  BY <1>5 DEF Height
<1>13. Described(local', Height', out')
  BY <1>5, <1>8, <1>11, <1>12
<1>14. scopes' \in Seq(Nat) /\ Len(scopes') = 0
  BY <1>5
<1>15. out' \in Nat /\ nSPDepth' \in Nat
  BY <1>5, <1>9
<1> QED BY <1>5, <1>13, <1>14, <1>15 DEF DebugInv

LEMMA DebugInvStep == DebugInv /\ [DebugNext]_debugVars => DebugInv'
<1> SUFFICES ASSUME DebugInv, [DebugNext]_debugVars PROVE DebugInv'
  OBVIOUS
<1>1. ASSUME NEW ret \in Sizes \cup {0}, NEW args \in Arguments, BeginRoutine(ret, args)
      PROVE  DebugInv'
  <2>1. ret \in Nat
    BY DebugAssumption
  <2> QED BY <1>1, <2>1, BeginRoutineKeeps
<1>2. ASSUME NEW size \in Sizes \ {0}, Declare(size) PROVE DebugInv'
  BY <1>2, DeclareKeeps
<1>3. CASE BeginStatement
  BY <1>3, BeginStatementKeeps
<1>4. CASE EndStatement
  BY <1>4, EndStatementKeeps
<1>5. CASE EndRoutine
  BY <1>5, EndRoutineKeeps
<1>6. CASE UNCHANGED debugVars
  BY <1>6 DEF debugVars, DebugInv, Height
<1> QED BY <1>1, <1>2, <1>3, <1>4, <1>5, <1>6 DEF DebugNext

THEOREM DebugInvariant == DebugSpec => []DebugInv
BY DebugInvInit, DebugInvStep, PTL DEF DebugSpec

(* The open variables are the frame, and no variable starts where another  *)
(* is open. *)
LEMMA InvDescribes == DebugInv => VariablesDescribed
<1> SUFFICES ASSUME DebugInv, ~local.moved PROVE VariablesDescribed
  BY DEF VariablesDescribed
<1> DEFINE K == Len(local.variables)
           N == Len(local.symbols)
<1>1. PICK h \in Nat : h = Height
  BY DEF DebugInv, Height
<1>2. local \in Local /\ InFrame(local, h) /\ InTime(local, out)
  BY <1>1 DEF DebugInv, Described
<1>3. \A k \in 1 .. K : local.variables[k].symbol \in 1 .. N /\ To(local, k) <= h
  BY <1>2 DEF InFrame
<1>4. /\ K \in Nat /\ N \in Nat
      /\ \A k \in 1 .. K : From(local, k) \in Nat /\ To(local, k) \in Nat /\ From(local, k) <= To(local, k)
      /\ \A n \in 1 .. N : local.symbols[n] \in Symbol
  BY <1>2, <1>3, PlaceType
<1>5. DOMAIN local.symbols = 1 .. N
  BY <1>2 DEF Local
<1>6. \A n \in 1 .. N : n \in Open <=> \E k \in 1 .. K : local.variables[k].symbol = n
  BY <1>2, <1>5 DEF InFrame, Open
<1>7. \A n \in Open : n \in 1 .. N
  BY <1>5 DEF Open
<1>8. \A k \in 1 .. K : Cells(local.variables[k].symbol) = From(local, k) .. To(local, k) - 1
  <2> SUFFICES ASSUME NEW k \in 1 .. K
               PROVE  Cells(local.variables[k].symbol) = From(local, k) .. To(local, k) - 1
    OBVIOUS
  <2>1. PICK n \in 1 .. N : n = local.variables[k].symbol
    BY <1>3
  <2>2. PICK s \in Symbol : s = local.symbols[n]
    BY <1>4
  <2>3. PICK a \in Nat, b \in Nat : a = s.offset /\ b = s.size
    BY DEF Symbol
  <2>4. From(local, k) = a /\ To(local, k) = a + b
    <3>1. From(local, k) = a
      BY <2>1, <2>2, <2>3 DEF From
    <3> QED BY <2>1, <2>2, <2>3, <3>1 DEF To
  <2>5. Cells(n) = a .. a + b - 1
    BY <2>2, <2>3 DEF Cells
  <2> HIDE DEF K, N
  <2> QED BY <2>1, <2>4, <2>5
<1>9. Frame = 0 .. h - 1
  <2>1. CASE routine = NoRoutine
    <3>1. h = 0 /\ Frame = {}
      BY <1>1, <2>1 DEF Frame, Height
    <3> QED BY <3>1
  <2>2. CASE routine # NoRoutine
    <3>1. h = routine.ret + nSPDepth
      BY <1>1, <2>2 DEF Height
    <3>2. PICK ret \in Nat, depth \in Nat : ret = routine.ret /\ depth = nSPDepth
      BY <2>2 DEF DebugInv
    <3>3. Frame = 0 .. ret + depth - 1
      BY <2>2, <3>2 DEF Frame
    <3> QED BY <3>1, <3>2, <3>3
  <2> QED BY <2>1, <2>2
<1>10. ASSUME NEW x \in Frame PROVE x \in UNION {Cells(n) : n \in Open}
  <2>1. PICK k \in 1 .. K : From(local, k) <= x /\ x < To(local, k)
    BY <1>2, <1>9 DEF InFrame
  <2>2. local.variables[k].symbol \in Open
    BY <1>3, <1>6
  <2>3. x \in From(local, k) .. To(local, k) - 1
    BY <1>4, <1>9, <2>1
  <2> QED BY <1>8, <2>2, <2>3
<1>11. ASSUME NEW n \in Open, NEW x \in Cells(n) PROVE x \in Frame
  <2>1. PICK k \in 1 .. K : local.variables[k].symbol = n
    BY <1>6, <1>7
  <2>2. x \in From(local, k) .. To(local, k) - 1
    BY <1>8, <2>1
  <2> QED BY <1>3, <1>4, <1>9, <2>2
<1>12. UNION {Cells(n) : n \in Open} = Frame
  BY <1>10, <1>11
<1>13. ASSUME NEW m \in 1 .. N, NEW n \in 1 .. N, m < n, Cells(m) \cap Cells(n) # {}
       PROVE  m \notin Open /\ local.symbols[m].end <= local.symbols[n].start
  <2>1. PICK s \in Symbol, t \in Symbol : s = local.symbols[m] /\ t = local.symbols[n]
    BY <1>4
  <2>2. PICK x : x \in Cells(m) /\ x \in Cells(n)
    BY <1>13
  <2>3. x \in s.offset .. s.offset + s.size - 1 /\ x \in t.offset .. t.offset + t.size - 1
    BY <2>1, <2>2 DEF Cells
  <2>4. s.offset \in Nat /\ s.size \in Nat /\ t.offset \in Nat /\ t.size \in Nat
    BY DEF Symbol
  <2>5. Meet(s, t)
    BY <2>3, <2>4 DEF Meet
  <2>6. m \in 1 .. n - 1
    BY <1>13
  <2>7. s.end # Unset /\ s.end <= t.start
    BY <1>2, <2>1, <2>5, <2>6 DEF InTime
  <2> QED BY <2>1, <2>7 DEF Open
<1> QED BY <1>5, <1>12, <1>13 DEF VariablesDescribed

(* VariablesDescribed, for all sizes, arguments and lengths of code: unless *)
(* symbols moved with variables open, the debug file has at every place the *)
(* variables that are on the stack there (Declaration, Statement and        *)
(* CodeRoutine of NscCodeGenerator.cpp, with PurgeVariables). *)
THEOREM VariablesAreDescribed == DebugSpec => []VariablesDescribed
BY DebugInvariant, InvDescribes, PTL
=============================================================================
