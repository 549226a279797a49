----------------------------- MODULE NwnscProofs -----------------------------
(***************************************************************************)
(* Proofs about Nwnsc and NscCompiler, for any command lines, directories, *)
(* texts and failures: every file that is named is processed in its turn,  *)
(* and the exit code tells how it went; the result and the code of a       *)
(* script of a batch are those it would have alone, and its dependencies   *)
(* what it put into the cache; and the outputs of a run that succeeds      *)
(* agree.                                                                  *)
(***************************************************************************)
EXTENDS Nwnsc, SequenceTheorems, FiniteSetTheorems, WellFoundedInduction, TLAPS

(* Every non-empty set of natural numbers has a least element. *)
LEMMA LessThanWellFounded == IsWellFoundedOn({ss \in Nat \X Nat : ss[1] < ss[2]}, Nat)
BY NatLessThanWellFounded DEF OpToRel

LEMMA Least ==
    ASSUME NEW T, T \subseteq Nat, T # {}
    PROVE  \E x \in T : \A y \in T : x <= y
<1> DEFINE R == {ss \in Nat \X Nat : ss[1] < ss[2]}
<1>1. \A x, y \in Nat : y < x => <<y, x>> \in R
  OBVIOUS
<1>2. IsWellFoundedOn(R, Nat)
  BY LessThanWellFounded
<1> HIDE DEF R
<1>3. PICK x \in T : \A y \in T : ~ (<<y, x>> \in R)
  BY <1>2, WFMin, Zenon
<1>4. ASSUME NEW y \in T PROVE ~ (y < x)
  <2>1. x \in Nat /\ y \in Nat
    OBVIOUS
  <2> QED BY <1>1, <1>3, <2>1, Zenon
<1>5. ASSUME NEW y \in T PROVE x <= y
  BY <1>4
<1> QED BY <1>5

-----------------------------------------------------------------------------
(* Filed, from one argument to the next. *)
FileAfter(args, n, files_) ==
    IF args[n].kind = "file" THEN Append(files_, args[n].value) ELSE files_

Filing(args, N, s) == s = [n \in 0 .. N |-> IF n = 0 THEN <<>> ELSE FileAfter(args, n, s[n - 1])]

LEMMA FilingExists ==
    ASSUME NEW args, NEW K \in Nat
    PROVE  \E s : Filing(args, K, s)
<1> DEFINE T == {m \in Nat : ~ \E s : Filing(args, m, s)}
<1>1. SUFFICES ASSUME T # {} PROVE FALSE
  OBVIOUS
<1>2. PICK m \in T : \A y \in T : m <= y
  <2>1. T \subseteq Nat
    OBVIOUS
  <2> HIDE DEF T
  <2> QED BY <1>1, <2>1, Least
<1>3. m \in Nat /\ ~ \E s : Filing(args, m, s)
  OBVIOUS
<1>4. CASE m = 0
  <2> DEFINE s == [n \in 0 .. 0 |-> <<>>]
  <2>1. s = [n \in 0 .. 0 |-> IF n = 0 THEN <<>> ELSE FileAfter(args, n, s[n - 1])]
    OBVIOUS
  <2> QED BY <1>3, <1>4, <2>1 DEF Filing
<1>5. CASE m # 0
  <2>1. m - 1 \in Nat /\ m - 1 \notin T
    BY <1>2, <1>3, <1>5
  <2>2. PICK g : Filing(args, m - 1, g)
    BY <2>1
  <2> DEFINE f == [n \in 0 .. m |-> IF n = m THEN FileAfter(args, m, g[m - 1]) ELSE g[n]]
             h == [n \in 0 .. m |-> IF n = 0 THEN <<>> ELSE FileAfter(args, n, f[n - 1])]
  <2>3. ASSUME NEW n \in 0 .. m PROVE f[n] = h[n]
    <3>1. CASE n = m
      <4>1. n - 1 \in 0 .. m /\ n - 1 # m
        BY <1>3, <1>5, <3>1
      <4>2. f[n - 1] = g[n - 1]
        BY <4>1
      <4> QED BY <1>5, <3>1, <4>2
    <3>2. CASE n # m /\ n # 0
      <4>1. n \in 0 .. m - 1 /\ n - 1 \in 0 .. m /\ n - 1 # m
        BY <1>3, <3>2
      <4>2. f[n - 1] = g[n - 1] /\ f[n] = g[n]
        BY <3>2, <4>1
      <4>3. g[n] = FileAfter(args, n, g[n - 1])
        BY <2>2, <3>2, <4>1 DEF Filing
      <4> QED BY <3>2, <4>2, <4>3
    <3>3. CASE n = 0
      <4>1. g[0] = <<>>
        <5>1. 0 \in 0 .. m - 1
          BY <1>3, <1>5
        <5> QED BY <2>2, <5>1 DEF Filing
      <4> QED BY <1>5, <3>3, <4>1
    <3> QED BY <3>1, <3>2, <3>3
  <2>4. f = h
    <3>1. f = [n \in 0 .. m |-> f[n]] /\ h = [n \in 0 .. m |-> h[n]]
      OBVIOUS
    <3> HIDE DEF f, h
    <3> QED BY <2>3, <3>1
  <2>5. Filing(args, m, f)
    <3>1. h = [n \in 0 .. m |-> IF n = 0 THEN <<>> ELSE FileAfter(args, n, f[n - 1])]
      OBVIOUS
    <3> HIDE DEF f, h
    <3> QED BY <2>4, <3>1 DEF Filing
  <2> QED BY <1>3, <2>5
<1> QED BY <1>4, <1>5

LEMMA FiledSteps ==
    ASSUME NEW args, Len(args) \in Nat
    PROVE  /\ Filed(args, 0) = <<>>
           /\ \A n \in 1 .. Len(args) : Filed(args, n) = FileAfter(args, n, Filed(args, n - 1))
<1> DEFINE s == CHOOSE f : Filing(args, Len(args), f)
<1>1. Filing(args, Len(args), s)
  BY FilingExists
<1>2. \A n : Filed(args, n) = s[n]
  BY DEF Filed, Filing, FileAfter
<1> HIDE DEF s
<1>3. s[0] = <<>> /\ \A n \in 1 .. Len(args) : s[n] = FileAfter(args, n, s[n - 1])
  BY <1>1 DEF Filing
<1>4. ASSUME NEW n \in 1 .. Len(args) PROVE Filed(args, n) = s[n] /\ Filed(args, n - 1) = s[n - 1]
  BY <1>2, Zenon
<1> QED BY <1>2, <1>3, <1>4

(* Paths, from one input to the next. *)
Path2(names, N, s) == s = [n \in 0 .. N |-> IF n = 0 THEN <<>> ELSE s[n - 1] \o Expand(names[n])]

LEMMA PathsExist ==
    ASSUME NEW names, NEW K \in Nat
    PROVE  \E s : Path2(names, K, s)
<1> DEFINE T == {m \in Nat : ~ \E s : Path2(names, m, s)}
<1>1. SUFFICES ASSUME T # {} PROVE FALSE
  OBVIOUS
<1>2. PICK m \in T : \A y \in T : m <= y
  <2>1. T \subseteq Nat
    OBVIOUS
  <2> HIDE DEF T
  <2> QED BY <1>1, <2>1, Least
<1>3. m \in Nat /\ ~ \E s : Path2(names, m, s)
  OBVIOUS
<1>4. CASE m = 0
  <2> DEFINE s == [n \in 0 .. 0 |-> <<>>]
  <2>1. s = [n \in 0 .. 0 |-> IF n = 0 THEN <<>> ELSE s[n - 1] \o Expand(names[n])]
    OBVIOUS
  <2> QED BY <1>3, <1>4, <2>1 DEF Path2
<1>5. CASE m # 0
  <2>1. m - 1 \in Nat /\ m - 1 \notin T
    BY <1>2, <1>3, <1>5
  <2>2. PICK g : Path2(names, m - 1, g)
    BY <2>1
  <2> DEFINE f == [n \in 0 .. m |-> IF n = m THEN g[m - 1] \o Expand(names[m]) ELSE g[n]]
             h == [n \in 0 .. m |-> IF n = 0 THEN <<>> ELSE f[n - 1] \o Expand(names[n])]
  <2>3. ASSUME NEW n \in 0 .. m PROVE f[n] = h[n]
    <3>1. CASE n = m
      <4>1. n - 1 \in 0 .. m /\ n - 1 # m
        BY <1>3, <1>5, <3>1
      <4>2. f[n - 1] = g[n - 1]
        BY <4>1
      <4> QED BY <1>5, <3>1, <4>2
    <3>2. CASE n # m /\ n # 0
      <4>1. n \in 0 .. m - 1 /\ n - 1 \in 0 .. m /\ n - 1 # m
        BY <1>3, <3>2
      <4>2. f[n - 1] = g[n - 1] /\ f[n] = g[n]
        BY <3>2, <4>1
      <4>3. g[n] = g[n - 1] \o Expand(names[n])
        BY <2>2, <3>2, <4>1 DEF Path2
      <4> QED BY <3>2, <4>2, <4>3
    <3>3. CASE n = 0
      <4>1. g[0] = <<>>
        <5>1. 0 \in 0 .. m - 1
          BY <1>3, <1>5
        <5> QED BY <2>2, <5>1 DEF Path2
      <4> QED BY <1>5, <3>3, <4>1
    <3> QED BY <3>1, <3>2, <3>3
  <2>4. f = h
    <3>1. f = [n \in 0 .. m |-> f[n]] /\ h = [n \in 0 .. m |-> h[n]]
      OBVIOUS
    <3> HIDE DEF f, h
    <3> QED BY <2>3, <3>1
  <2>5. Path2(names, m, f)
    <3>1. h = [n \in 0 .. m |-> IF n = 0 THEN <<>> ELSE f[n - 1] \o Expand(names[n])]
      OBVIOUS
    <3> HIDE DEF f, h
    <3> QED BY <2>4, <3>1 DEF Path2
  <2> QED BY <1>3, <2>5
<1> QED BY <1>4, <1>5

LEMMA PathsSteps ==
    ASSUME NEW names, Len(names) \in Nat
    PROVE  /\ Paths(names, 0) = <<>>
           /\ \A n \in 1 .. Len(names) : Paths(names, n) = Paths(names, n - 1) \o Expand(names[n])
<1> DEFINE s == CHOOSE f : Path2(names, Len(names), f)
<1>1. Path2(names, Len(names), s)
  BY PathsExist
<1>2. \A n : Paths(names, n) = s[n]
  BY DEF Paths, Path2
<1> HIDE DEF s
<1>3. s[0] = <<>> /\ \A n \in 1 .. Len(names) : s[n] = s[n - 1] \o Expand(names[n])
  BY <1>1 DEF Path2
<1>4. ASSUME NEW n \in 1 .. Len(names) PROVE Paths(names, n) = s[n] /\ Paths(names, n - 1) = s[n - 1]
  BY <1>2, Zenon
<1> QED BY <1>2, <1>3, <1>4

-----------------------------------------------------------------------------
(* A command line and the lines of its response file are sequences. *)
LEMMA SequenceFacts ==
    ASSUME NEW s, IsSequence(s)
    PROVE  Len(s) \in Nat /\ DOMAIN s = 1 .. Len(s)
BY DEF IsSequence

(* The files of a sequence are a sequence of values. *)
Values(args) == {args[n].value : n \in 1 .. Len(args)}

LEMMA FiledType ==
    ASSUME NEW args, Len(args) \in Nat
    PROVE  \A n \in 0 .. Len(args) : Filed(args, n) \in Seq(Values(args))
<1> DEFINE V == Values(args)
           T == {n \in 0 .. Len(args) : Filed(args, n) \notin Seq(V)}
<1>1. ASSUME T # {} PROVE FALSE
  <2>1. PICK n \in T : \A y \in T : n <= y
    <3>1. T \subseteq Nat
      OBVIOUS
    <3> HIDE DEF T
    <3> QED BY <1>1, <3>1, Least
  <2>2. n \in 0 .. Len(args) /\ Filed(args, n) \notin Seq(V)
    OBVIOUS
  <2>3. CASE n = 0
    <3>1. Filed(args, 0) = <<>>
      BY FiledSteps
    <3>2. <<>> \in Seq(V)
      OBVIOUS
    <3> QED BY <2>2, <2>3, <3>1, <3>2
  <2>4. CASE n # 0
    <3>1. n \in 1 .. Len(args) /\ n - 1 \in 0 .. Len(args) /\ ~(n <= n - 1)
      BY <2>2, <2>4
    <3>2. n - 1 \notin T
      BY <2>1, <3>1
    <3>3. PICK before \in Seq(V) : before = Filed(args, n - 1)
      BY <3>1, <3>2
    <3>4. Filed(args, n) = FileAfter(args, n, before)
      BY <3>1, <3>3, FiledSteps
    <3>5. args[n].value \in V
      BY <3>1 DEF Values
    <3> HIDE DEF V
    <3>6. FileAfter(args, n, before) \in Seq(V)
      BY <3>3, <3>5 DEF FileAfter
    <3> QED BY <2>2, <3>4, <3>6
  <2> QED BY <2>3, <2>4
<1> QED BY <1>1

LEMMA EmptyFiled == Filed(<<>>, 0) = <<>>
<1>1. Len(<<>>) = 0
  OBVIOUS
<1> QED BY <1>1, FiledSteps

-----------------------------------------------------------------------------
(* The paths that names stand for, and where in them those of one name are. *)
PathType(names) == (Dirs \X Names) \cup {names[n] : n \in 1 .. Len(names)}

LEMMA ExpandFacts ==
    ASSUME NEW names, NEW n \in 1 .. Len(names)
    PROVE  LET f == names[n] IN
           /\ Expand(f) \in Seq(PathType(names)) /\ Len(Expand(f)) \in Nat
           /\ Matching(f) => Expand(f) = Matches[f]
           /\ ~Matching(f) => Len(Expand(f)) = 1 /\ Expand(f)[1] = f
           /\ Wild(f) => Matches[f] \in Seq(PathType(names))
<1> DEFINE f == names[n]
           P == PathType(names)
<1>1. f \in P /\ (Dirs \X Names) \subseteq P
  BY DEF PathType
<1>2. ASSUME Wild(f) PROVE Matches[f] \in Seq(P)
  <2>1. Matches[f] \in Seq(Dirs \X Names)
    BY <1>2, DriverAssumption DEF Wild
  <2> HIDE DEF P, f
  <2> QED BY <1>1, <2>1
<1> HIDE DEF P, f
<1>3. CASE Matching(f)
  <2>1. Expand(f) = Matches[f]
    BY <1>3 DEF Expand
  <2>2. Matches[f] \in Seq(P)
    BY <1>2, <1>3 DEF Matching
  <2>3. Len(Matches[f]) \in Nat
    BY <2>2
  <2> QED BY <1>2, <1>3, <2>1, <2>2, <2>3 DEF P, f
<1>4. CASE ~Matching(f)
  <2>1. Expand(f) = <<f>>
    BY <1>4 DEF Expand
  <2>2. <<f>> \in Seq(P) /\ Len(<<f>>) = 1 /\ <<f>>[1] = f
    BY <1>1
  <2> QED BY <1>2, <1>4, <2>1, <2>2 DEF P, f
<1> QED BY <1>3, <1>4

LEMMA PathsType ==
    ASSUME NEW names, Len(names) \in Nat
    PROVE  \A n \in 0 .. Len(names) : Paths(names, n) \in Seq(PathType(names))
<1> DEFINE P == PathType(names)
           T == {n \in 0 .. Len(names) : Paths(names, n) \notin Seq(P)}
<1>1. ASSUME T # {} PROVE FALSE
  <2>1. PICK n \in T : \A y \in T : n <= y
    <3>1. T \subseteq Nat
      OBVIOUS
    <3> HIDE DEF T
    <3> QED BY <1>1, <3>1, Least
  <2>2. n \in 0 .. Len(names) /\ Paths(names, n) \notin Seq(P)
    OBVIOUS
  <2>3. CASE n = 0
    <3>1. Paths(names, 0) = <<>>
      BY PathsSteps
    <3>2. <<>> \in Seq(P)
      OBVIOUS
    <3> QED BY <2>2, <2>3, <3>1, <3>2
  <2>4. CASE n # 0
    <3>1. n \in 1 .. Len(names) /\ n - 1 \in 0 .. Len(names) /\ ~(n <= n - 1)
      BY <2>2, <2>4
    <3>2. n - 1 \notin T
      BY <2>1, <3>1
    <3>3. PICK before \in Seq(P) : before = Paths(names, n - 1)
      BY <3>1, <3>2
    <3>4. PICK more \in Seq(P) : more = Expand(names[n])
      BY <3>1, ExpandFacts
    <3>5. Paths(names, n) = before \o more
      BY <3>1, <3>3, <3>4, PathsSteps
    <3> HIDE DEF P
    <3>6. before \o more \in Seq(P)
      BY <3>3, <3>4
    <3> QED BY <2>2, <3>5, <3>6
  <2> QED BY <2>3, <2>4
<1> QED BY <1>1

LEMMA PathsNext ==
    ASSUME NEW names, Len(names) \in Nat, NEW n \in 1 .. Len(names)
    PROVE  LET before == Paths(names, n - 1)
               more == Expand(names[n])
               after == Paths(names, n)
           IN /\ Len(before) \in Nat /\ Len(more) \in Nat
              /\ Len(after) = Len(before) + Len(more)
              /\ \A k \in 1 .. Len(before) : after[k] = before[k]
              /\ \A k \in 1 .. Len(more) : after[Len(before) + k] = more[k]
<1> DEFINE P == PathType(names)
<1>1. n - 1 \in 0 .. Len(names)
  OBVIOUS
<1>2. PICK before \in Seq(P) : before = Paths(names, n - 1)
  BY <1>1, PathsType
<1>3. PICK more \in Seq(P) : more = Expand(names[n])
  BY ExpandFacts
<1>4. Paths(names, n) = before \o more
  BY <1>2, <1>3, PathsSteps
<1> HIDE DEF P
<1>5. /\ Len(before) \in Nat /\ Len(more) \in Nat /\ Len(before \o more) = Len(before) + Len(more)
      /\ \A k \in 1 .. Len(before) : (before \o more)[k] = before[k]
      /\ \A k \in 1 .. Len(more) : (before \o more)[Len(before) + k] = more[k]
  OBVIOUS
<1> QED BY <1>2, <1>3, <1>4, <1>5

(* The paths of the first names begin those of all. *)
LEMMA PathsGrow ==
    ASSUME NEW names, Len(names) \in Nat, NEW m \in 0 .. Len(names)
    PROVE  LET all == Paths(names, Len(names)) IN
           /\ Len(Paths(names, m)) \in Nat /\ Len(all) \in Nat /\ Len(Paths(names, m)) <= Len(all)
           /\ \A k \in 1 .. Len(Paths(names, m)) : all[k] = Paths(names, m)[k]
<1> DEFINE p == Paths(names, m)
           Begins(n) == /\ Len(Paths(names, n)) \in Nat /\ Len(p) <= Len(Paths(names, n))
                        /\ \A k \in 1 .. Len(p) : Paths(names, n)[k] = p[k]
           T == {n \in m .. Len(names) : ~Begins(n)}
<1>1. Len(p) \in Nat
  <2>1. p \in Seq(PathType(names))
    BY PathsType
  <2> HIDE DEF p
  <2> QED BY <2>1
<1>2. ASSUME T # {} PROVE FALSE
  <2>1. PICK n \in T : \A y \in T : n <= y
    <3>1. T \subseteq Nat
      OBVIOUS
    <3> HIDE DEF T
    <3> QED BY <1>2, <3>1, Least
  <2>2. n \in m .. Len(names) /\ ~Begins(n)
    OBVIOUS
  <2>3. n # m
    BY <1>1, <2>2
  <2>4. n \in 1 .. Len(names) /\ n - 1 \in m .. Len(names) /\ ~(n <= n - 1)
    BY <2>2, <2>3
  <2>5. n - 1 \notin T
    BY <2>1, <2>4
  <2>6. Begins(n - 1)
    BY <2>4, <2>5
  <2>7. /\ Len(Paths(names, n - 1)) \in Nat /\ Len(Expand(names[n])) \in Nat
        /\ Len(Paths(names, n)) = Len(Paths(names, n - 1)) + Len(Expand(names[n]))
        /\ \A k \in 1 .. Len(Paths(names, n - 1)) : Paths(names, n)[k] = Paths(names, n - 1)[k]
    BY <2>4, PathsNext
  <2> HIDE DEF p
  <2>8. Len(Paths(names, n)) \in Nat /\ Len(p) <= Len(Paths(names, n))
    BY <1>1, <2>6, <2>7
  <2>9. ASSUME NEW k \in 1 .. Len(p) PROVE Paths(names, n)[k] = p[k]
    <3>1. k \in 1 .. Len(Paths(names, n - 1))
      BY <1>1, <2>6, <2>7
    <3> QED BY <2>6, <2>7, <3>1
  <2> QED BY <2>2, <2>8, <2>9
<1>3. Len(names) \in m .. Len(names)
  OBVIOUS
<1> QED BY <1>1, <1>2, <1>3

(* Where the paths of a name are among all. *)
LEMMA WantedAt ==
    ASSUME NEW names, Len(names) \in Nat, NEW n \in 1 .. Len(names),
           NEW k \in 1 .. Len(Expand(names[n]))
    PROVE  LET all == Paths(names, Len(names))
               before == Len(Paths(names, n - 1))
           IN before \in Nat /\ before + k <= Len(all) /\ all[before + k] = Expand(names[n])[k]
<1> DEFINE all == Paths(names, Len(names))
           before == Len(Paths(names, n - 1))
           more == Len(Expand(names[n]))
           p == Paths(names, n)
<1>1. /\ before \in Nat /\ more \in Nat /\ Len(p) = before + more
      /\ p[before + k] = Expand(names[n])[k]
  BY PathsNext
<1>2. n \in 0 .. Len(names)
  OBVIOUS
<1>3. /\ Len(p) \in Nat /\ Len(all) \in Nat /\ Len(p) <= Len(all)
      /\ \A j \in 1 .. Len(p) : all[j] = p[j]
  BY <1>2, PathsGrow
<1>4. k \in 1 .. more
  OBVIOUS
<1> HIDE DEF all, before, more, p
<1>5. before + k \in 1 .. Len(p)
  BY <1>1, <1>4
<1> QED BY <1>1, <1>3, <1>5 DEF all, before, more

-----------------------------------------------------------------------------
(* What has been read of the arguments: those given, of which one may have *)
(* been a response file, and then its lines. *)
Seen(args, count, r) ==
    LET seen == {n \in 1 .. count : args[n].kind = "response"} IN
    \/ seen = {} /\ r.read = FALSE
    \/ \E n \in seen : seen = {n} /\ r.read = TRUE /\ r.args = args[n].lines

FirstPass == /\ argv = line /\ i <= Len(line) + 1
             /\ InFiles = Filed(line, i - 1)
             /\ Seen(line, i - 1, response)

SecondPass == /\ argv = Lines /\ i <= Len(Lines) + 1
              /\ response.read = TRUE /\ response.args = Lines
              /\ InFiles = Filed(line, Len(line)) \o Filed(Lines, i - 1)

Arguments ==
    /\ i \in Nat \ {0}
    /\ outcomes = <<>> /\ it = 1 /\ match = 0 /\ ReturnCode = 0
    /\ Error \/ FirstPass \/ SecondPass

(* The inputs: how many paths were processed before the one at hand, and   *)
(* whether it was. *)
Matched == IF match = 0 THEN 0 ELSE match - 1

InTurn(more) ==
    /\ it \in 1 .. Len(Named) + 1 /\ match \in Nat
    /\ match # 0 => it <= Len(Named) /\ Wild(Named[it]) /\ match <= Len(Matches[Named[it]])
    /\ Len(outcomes) = Len(Paths(Named, it - 1)) + Matched + more

(* There is a path at hand. *)
AtPath == /\ it <= Len(Named)
          /\ match # 0 \/ ~Matching(Named[it])

Stopped == /\ it = Len(Named) + 1 /\ match = 0 /\ StopOnError
           /\ outcomes # <<>> /\ Failed(Len(outcomes))

Along ==
    /\ \E S : outcomes \in Seq(S)
    /\ \A n \in 1 .. Len(outcomes) : outcomes[n].ok \in BOOLEAN
    /\ Len(outcomes) <= Len(Wanted)
    /\ \A n \in 1 .. Len(outcomes) : outcomes[n].path = Wanted[n]

Fine(results, count) == \A n \in 1 .. count : results[n].ok

Going ==
    /\ InTurn(0) /\ (StopOnError => Fine(outcomes, Len(outcomes)))
    /\ phase \in {"compiling", "writing"} => AtPath

(* Before an input, while it is taken, after it and after the last.  The   *)
(* exit code is that of those that were taken. *)
UnderWay ==
    /\ Going \/ (phase = "inputs" /\ Stopped)
    /\ (ReturnCode = 0) <=> Fine(outcomes, Len(outcomes))

AfterPath ==
    /\ InTurn(1) /\ AtPath /\ Len(outcomes) > 0
    /\ Status = outcomes[Len(outcomes)].ok
    /\ (ReturnCode = 0) <=> Fine(outcomes, Len(outcomes) - 1)

(* After a wildcard that matches directories only. *)
AfterFolders ==
    /\ InTurn(0) /\ match = 0 /\ it <= Len(Named)
    /\ Matching(Named[it]) /\ Matches[Named[it]] = <<>>
    /\ Status = TRUE /\ (StopOnError => Fine(outcomes, Len(outcomes)))
    /\ (ReturnCode = 0) <=> Fine(outcomes, Len(outcomes))

AfterInput == AfterPath \/ AfterFolders

AtExit ==
    /\ \/ InTurn(0) /\ it = Len(Named) + 1 /\ (StopOnError => Fine(outcomes, Len(outcomes)))
       \/ Stopped
    /\ (ReturnCode = 0) <=> Fine(outcomes, Len(outcomes))

Inputs ==
    /\ ~Error /\ InFiles = Named /\ Named # <<>>
    /\ Along /\ ReturnCode \in {0, -1}
    /\ StopOnError => Fine(outcomes, Len(outcomes) - 1)
    /\ phase \in {"inputs", "compiling", "writing"} => UnderWay
    /\ phase = "processed" => AfterInput
    /\ phase = "exited" => AtExit

Quit == /\ phase = "exited" /\ ReturnCode = -1 /\ outcomes = <<>>
        /\ Error \/ Named = <<>>

DriverInv ==
    /\ line \in CommandLines
    /\ phase \in {"arguments", "inputs", "compiling", "writing", "processed", "exited"}
    /\ Error \in BOOLEAN
    /\ phase = "arguments" => Arguments
    /\ phase # "arguments" => Inputs \/ Quit

LEMMA LineFacts ==
    ASSUME line \in CommandLines
    PROVE  /\ IsSequence(line) /\ Len(line) \in Nat /\ DOMAIN line = 1 .. Len(line)
           /\ IsSequence(Lines) /\ Len(Lines) \in Nat /\ DOMAIN Lines = 1 .. Len(Lines)
           /\ \A n \in Responses : line[n].lines # line
<1>1. /\ IsSequence(line)
      /\ \A n \in DOMAIN line : line[n].kind = "response" => IsSequence(line[n].lines)
                                                             /\ line[n].lines # line
  BY DriverAssumption
<1>2. \A n \in Responses : IsSequence(line[n].lines) /\ line[n].lines # line
  BY <1>1 DEF Responses
<1>3. Len(line) \in Nat /\ DOMAIN line = 1 .. Len(line)
  BY <1>1, SequenceFacts
<1>4. IsSequence(Lines)
  <2>1. CASE Responses = {}
    <3>1. Lines = <<>>
      BY <2>1 DEF Lines
    <3>2. IsSequence(<<>>)
      BY DEF IsSequence
    <3> QED BY <3>1, <3>2
  <2>2. CASE Responses # {}
    <3>1. \E n \in Responses : \A m \in Responses : n <= m
      <4>1. Responses \subseteq Nat
        BY <1>3 DEF Responses
      <4> QED BY <2>2, <4>1, Least
    <3>2. PICK n \in Responses : Lines = line[n].lines
      BY <2>2, <3>1 DEF Lines
    <3> QED BY <1>2, <3>2
  <2> QED BY <2>1, <2>2
<1>5. Len(Lines) \in Nat /\ DOMAIN Lines = 1 .. Len(Lines)
  BY <1>4, SequenceFacts
<1> QED BY <1>1, <1>2, <1>3, <1>4, <1>5

LEMMA NamedType ==
    ASSUME line \in CommandLines
    PROVE  /\ Len(Named) \in Nat
           /\ Filed(line, Len(line)) \o <<>> = Filed(line, Len(line))
           /\ \A v : \A n \in 0 .. Len(Lines) :
                Append(Filed(line, Len(line)) \o Filed(Lines, n), v)
                  = Filed(line, Len(line)) \o Append(Filed(Lines, n), v)
<1> DEFINE V == Values(line) \cup Values(Lines)
           first == Filed(line, Len(line))
<1>1. Len(line) \in 0 .. Len(line) /\ Len(Lines) \in 0 .. Len(Lines)
  BY LineFacts
<1>2. first \in Seq(Values(line)) /\ \A n \in 0 .. Len(Lines) : Filed(Lines, n) \in Seq(Values(Lines))
  BY <1>1, LineFacts, FiledType
<1> HIDE DEF first
<1>3. first \in Seq(V) /\ \A n \in 0 .. Len(Lines) : Filed(Lines, n) \in Seq(V)
  BY <1>2
<1>4. first \o <<>> = first
  BY <1>2
<1>5. ASSUME NEW n \in 0 .. Len(Lines), NEW v
      PROVE  Append(first \o Filed(Lines, n), v) = first \o Append(Filed(Lines, n), v)
  <2> DEFINE W == V \cup {v}
  <2>1. PICK second \in Seq(V) : second = Filed(Lines, n)
    BY <1>3
  <2>2. first \in Seq(W) /\ second \in Seq(W) /\ v \in W
    BY <1>3
  <2> HIDE DEF W, V
  <2>3. Append(first \o second, v) = first \o Append(second, v)
    BY <2>2
  <2> QED BY <2>1, <2>3
<1>6. Len(Named) \in Nat
  <2>1. PICK second \in Seq(V) : second = Filed(Lines, Len(Lines))
    BY <1>1, <1>3
  <2> HIDE DEF V
  <2>2. Named = first \o second
    BY <2>1 DEF Named, first
  <2>3. Len(first \o second) \in Nat
    BY <1>3
  <2> QED BY <2>2, <2>3
<1> QED BY <1>4, <1>5, <1>6 DEF first

LEMMA NamedDomain ==
    ASSUME line \in CommandLines
    PROVE  Len(Named) \in Nat /\ DOMAIN Named = 1 .. Len(Named)
<1> DEFINE V == Values(line) \cup Values(Lines)
<1>1. Len(line) \in 0 .. Len(line) /\ Len(Lines) \in 0 .. Len(Lines)
  BY LineFacts
<1>2. PICK first \in Seq(Values(line)) : first = Filed(line, Len(line))
  BY <1>1, LineFacts, FiledType
<1>3. PICK second \in Seq(Values(Lines)) : second = Filed(Lines, Len(Lines))
  BY <1>1, LineFacts, FiledType
<1>4. first \in Seq(V) /\ second \in Seq(V)
  OBVIOUS
<1> HIDE DEF V
<1>5. first \o second \in Seq(V)
  BY <1>4
<1>6. Named = first \o second
  BY <1>2, <1>3 DEF Named
<1> QED BY <1>5, <1>6

(* An argument that is read. *)
LEMMA ReadKeeps ==
    ASSUME DriverInv, ReadArgument
    PROVE  DriverInv'
<1>1. /\ phase = "arguments" /\ phase' = phase /\ i \in DOMAIN argv /\ ~Error /\ i' = i + 1
      /\ line' = line /\ argv' = argv
      /\ outcomes' = outcomes /\ it' = it /\ match' = match /\ ReturnCode' = ReturnCode
      /\ Error' = (Argument.kind = "bad" \/ (Argument.kind = "response" /\ response.read))
      /\ response' = IF Argument.kind = "response" /\ ~response.read
                     THEN LoadResponseFile(Argument) ELSE response
  BY DEF ReadArgument, progress, ending
<1>2. InFiles' = FileAfter(argv, i, InFiles)
  BY DEF ReadArgument, TakeOption, FileAfter, Argument
<1>3. line \in CommandLines /\ i \in Nat \ {0} /\ (FirstPass \/ SecondPass)
      /\ outcomes = <<>> /\ it = 1 /\ match = 0 /\ ReturnCode = 0
  BY <1>1 DEF DriverInv, Arguments
<1>4. Error' \/ FirstPass' \/ SecondPass'
  <2>1. CASE FirstPass
    <3>1. argv = line /\ InFiles = Filed(line, i - 1) /\ Seen(line, i - 1, response) /\ i \in 1 .. Len(line)
      BY <1>1, <1>3, <2>1, LineFacts DEF FirstPass
    <3>2. i + 1 - 1 = i /\ i + 1 <= Len(line) + 1
      BY <1>3, <3>1, LineFacts
    <3>3. InFiles' = Filed(line, i)
      BY <1>2, <1>3, <3>1, LineFacts, FiledSteps
    <3>4. ASSUME ~Error' PROVE Seen(line, i, response')
      <4> DEFINE R(n) == line[n].kind = "response"
                 old == {n \in 1 .. i - 1 : R(n)}
                 new == {n \in 1 .. i : R(n)}
      <4>1. \/ old = {} /\ response.read = FALSE
            \/ \E n \in old : old = {n} /\ response.read = TRUE /\ response.args = line[n].lines
        BY <3>1 DEF Seen
      <4>2. new = IF R(i) THEN old \cup {i} ELSE old
        BY <1>3
      <4>3. CASE R(i)
        <5>1. response.read # TRUE
          BY <1>1, <3>1, <3>4, <4>3 DEF Argument
        <5>2. old = {} /\ response.read = FALSE
          BY <4>1, <5>1
        <5>3. response' = [read |-> TRUE, args |-> line[i].lines]
          BY <1>1, <3>1, <4>3, <5>2 DEF Argument, LoadResponseFile
        <5>4. new = {i}
          BY <4>2, <4>3, <5>2
        <5>5. response'.read = TRUE /\ response'.args = line[i].lines
          BY <5>3
        <5> HIDE DEF R, old
        <5>6. i \in new /\ new = {i} /\ response'.read = TRUE /\ response'.args = line[i].lines
          BY <5>4, <5>5
        <5> QED BY <5>6 DEF Seen, R
      <4>4. CASE ~R(i)
        <5>1. response' = response /\ new = old
          BY <1>1, <3>1, <4>2, <4>4 DEF Argument
        <5> HIDE DEF old
        <5>2. \/ new = {} /\ response'.read = FALSE
              \/ \E n \in new : new = {n} /\ response'.read = TRUE /\ response'.args = line[n].lines
          BY <4>1, <5>1
        <5> QED BY <5>2 DEF Seen
      <4> QED BY <4>3, <4>4
    <3>5. ASSUME ~Error' PROVE FirstPass'
      <4>1. i' - 1 = i /\ i' <= Len(line) + 1
        BY <1>1, <1>3, <3>2
      <4>2. Seen(line', i' - 1, response')
        BY <1>1, <3>4, <3>5, <4>1
      <4>3. InFiles' = Filed(line', i' - 1)
        BY <1>1, <3>3, <4>1
      <4> QED BY <1>1, <3>1, <4>1, <4>2, <4>3 DEF FirstPass
    <3> QED BY <3>5
  <2>2. CASE SecondPass
    <3>1. /\ argv = Lines /\ response.read = TRUE /\ response.args = Lines
          /\ InFiles = Filed(line, Len(line)) \o Filed(Lines, i - 1) /\ i \in 1 .. Len(Lines)
      BY <1>1, <1>3, <2>2, LineFacts DEF SecondPass
    <3>2. i + 1 - 1 = i /\ i + 1 <= Len(Lines) + 1 /\ i - 1 \in 0 .. Len(Lines)
      BY <1>3, <3>1, LineFacts
    <3>3. Lines' = Lines
      BY <1>1 DEF Lines, Responses
    <3>4. Filed(Lines, i) = FileAfter(Lines, i, Filed(Lines, i - 1))
      BY <1>3, <3>1, LineFacts, FiledSteps
    <3>5. InFiles' = Filed(line, Len(line)) \o Filed(Lines, i)
      <4>1. CASE Lines[i].kind = "file"
        <5>1. InFiles' = Append(InFiles, Lines[i].value)
              /\ Filed(Lines, i) = Append(Filed(Lines, i - 1), Lines[i].value)
          BY <1>2, <3>1, <3>4, <4>1 DEF FileAfter
        <5>2. Append(Filed(line, Len(line)) \o Filed(Lines, i - 1), Lines[i].value)
                = Filed(line, Len(line)) \o Append(Filed(Lines, i - 1), Lines[i].value)
          BY <1>3, <3>2, NamedType
        <5> QED BY <3>1, <5>1, <5>2
      <4>2. CASE Lines[i].kind # "file"
        BY <1>2, <3>1, <3>4, <4>2 DEF FileAfter
      <4> QED BY <4>1, <4>2
    <3>6. response' = response
      BY <1>1, <3>1
    <3>7. i' - 1 = i /\ i' <= Len(Lines) + 1
      BY <1>1, <1>3, <3>2
    <3>8. InFiles' = Filed(line', Len(line')) \o Filed(Lines', i' - 1)
      BY <1>1, <3>3, <3>5, <3>7
    <3> QED BY <1>1, <3>1, <3>3, <3>6, <3>7, <3>8 DEF SecondPass
  <2> QED BY <1>3, <2>1, <2>2
<1>5. Error' \in BOOLEAN
  BY <1>1
<1>6. i' \in Nat \ {0}
  BY <1>1, <1>3
<1> QED BY <1>1, <1>3, <1>4, <1>5, <1>6 DEF DriverInv, Arguments

(* The end of the arguments: the response file is read next, or there is   *)
(* nothing to do, or the inputs are those that were named. *)
LEMMA EndKeeps ==
    ASSUME DriverInv, EndOfArguments
    PROVE  DriverInv'
<1>1. /\ phase = "arguments" /\ (Error \/ i \notin DOMAIN argv)
      /\ line' = line /\ Error' = Error /\ InFiles' = InFiles /\ response' = response
      /\ outcomes' = outcomes /\ it' = it /\ match' = match
  BY DEF EndOfArguments, options, progress
<1>2. line \in CommandLines /\ i \in Nat \ {0} /\ (Error \/ FirstPass \/ SecondPass)
      /\ outcomes = <<>> /\ it = 1 /\ match = 0 /\ ReturnCode = 0 /\ Error \in BOOLEAN
  BY <1>1 DEF DriverInv, Arguments
<1>3. Lines' = Lines /\ Named' = Named
  BY <1>1 DEF Lines, Responses, Named
(* Where an error did not end it, all was read. *)
<1>4. ASSUME ~Error
      PROVE  \/ /\ argv = Lines /\ response.args = Lines /\ InFiles = Named
             \/ /\ argv = line /\ InFiles = Filed(line, Len(line))
                /\ response.read = FALSE /\ Lines = <<>>
             \/ /\ argv = line /\ InFiles = Filed(line, Len(line)) /\ Lines # line
                /\ response.read = TRUE /\ response.args = Lines
  <2>1. CASE SecondPass
    <3>1. argv = Lines /\ response.args = Lines /\ i <= Len(Lines) + 1 /\ i \notin 1 .. Len(Lines)
          /\ InFiles = Filed(line, Len(line)) \o Filed(Lines, i - 1)
      BY <1>1, <1>2, <1>4, <2>1, LineFacts DEF SecondPass
    <3>2. i - 1 = Len(Lines)
      BY <1>2, <3>1, LineFacts
    <3> QED BY <3>1, <3>2 DEF Named
  <2>2. CASE FirstPass
    <3>1. argv = line /\ i <= Len(line) + 1 /\ i \notin 1 .. Len(line)
          /\ InFiles = Filed(line, i - 1) /\ Seen(line, i - 1, response)
      BY <1>1, <1>2, <1>4, <2>2, LineFacts DEF FirstPass
    <3>2. i - 1 = Len(line)
      BY <1>2, <3>1, LineFacts
    <3>3. InFiles = Filed(line, Len(line)) /\ Seen(line, Len(line), response)
      BY <3>1, <3>2
    <3>4. \/ Responses = {} /\ response.read = FALSE
          \/ \E n \in Responses : Responses = {n} /\ response.read = TRUE /\ response.args = line[n].lines
      BY <1>2, <3>3, LineFacts DEF Seen, Responses
    <3>5. CASE Responses = {}
      <4>1. Lines = <<>>
        BY <3>5 DEF Lines
      <4> QED BY <3>1, <3>3, <3>4, <3>5, <4>1
    <3>6. CASE Responses # {}
      <4>1. PICK n \in Responses : Responses = {n} /\ response.read = TRUE /\ response.args = line[n].lines
        BY <3>4, <3>6
      <4>2. n \in Nat
        BY <1>2, LineFacts DEF Responses
      <4>3. Lines = line[n].lines
        <5>1. (CHOOSE k \in Responses : \A m \in Responses : k <= m) = n
          BY <4>1, <4>2
        <5> QED BY <3>6, <5>1 DEF Lines
      <4>4. Lines # line
        BY <1>2, <4>3, LineFacts
      <4> QED BY <3>1, <3>3, <4>1, <4>3, <4>4
    <3> QED BY <3>5, <3>6
  <2> QED BY <1>2, <1>4, <2>1, <2>2
<1>5. Filed(line, Len(line)) \o <<>> = Filed(line, Len(line)) /\ Len(Named) \in Nat
  BY <1>2, NamedType
<1>6. Lines = <<>> => Named = Filed(line, Len(line))
  <2>1. Lines = <<>> => Len(Lines) = 0 /\ Filed(Lines, Len(Lines)) = <<>>
    BY EmptyFiled
  <2> QED BY <1>5, <2>1 DEF Named
<1>7. CASE ~Error /\ response.read /\ Again(response.args)
  <2>1. argv' = response.args /\ i' = 1 /\ phase' = phase /\ ReturnCode' = ReturnCode
    BY <1>7 DEF EndOfArguments
  <2>2. InFiles = Filed(line, Len(line)) /\ response.read = TRUE /\ response.args = Lines
    BY <1>4, <1>7 DEF Again
  <2>3. InFiles = Filed(line, Len(line)) \o Filed(Lines, 0)
    <3>1. Filed(Lines, 0) = <<>>
      BY <1>2, LineFacts, FiledSteps
    <3> QED BY <1>5, <2>2, <3>1
  <2>4. i' - 1 = 0 /\ i' <= Len(Lines) + 1 /\ i' \in Nat \ {0}
    BY <1>2, <2>1, LineFacts
  <2>5. InFiles' = Filed(line', Len(line')) \o Filed(Lines', i' - 1)
    BY <1>1, <1>3, <2>3, <2>4
  <2>6. SecondPass'
    BY <1>1, <1>3, <2>1, <2>2, <2>4, <2>5 DEF SecondPass
  <2> QED BY <1>1, <1>2, <2>1, <2>4, <2>6 DEF DriverInv, Arguments
<1>8. CASE ~(~Error /\ response.read /\ Again(response.args))
  <2>1. ReturnCode' = (IF Usage THEN -1 ELSE 0) /\ phase' = (IF Usage THEN "exited" ELSE "inputs")
    BY <1>8 DEF EndOfArguments
  <2>2. ~Error => InFiles = Named
    <3> SUFFICES ASSUME ~Error PROVE InFiles = Named
      OBVIOUS
    <3>1. CASE argv = line /\ InFiles = Filed(line, Len(line)) /\ Lines = <<>>
      BY <1>6, <3>1
    <3>2. CASE /\ argv = line /\ InFiles = Filed(line, Len(line)) /\ Lines # line
               /\ response.read = TRUE /\ response.args = Lines
      <4>1. Lines = <<>>
        BY <1>8, <3>2 DEF Again
      <4> QED BY <1>6, <3>2, <4>1
    <3> QED BY <1>4, <3>1, <3>2
  <2>3. CASE Usage
    <3>1. Error \/ Named = <<>>
      BY <2>2, <2>3 DEF Usage
    <3>2. Quit'
      BY <1>1, <1>2, <1>3, <2>1, <2>3, <3>1 DEF Quit
    <3> QED BY <1>1, <1>2, <2>1, <2>3, <3>2 DEF DriverInv
  <2>4. CASE ~Usage
    <3>1. ~Error /\ InFiles = Named /\ Named # <<>> /\ phase' = "inputs" /\ ReturnCode' = 0
      BY <2>1, <2>2, <2>4 DEF Usage
    <3>2. Along'
      <4>1. outcomes' \in Seq({}) /\ Len(outcomes') = 0
        BY <1>1, <1>2
      <4>2. Len(Wanted') \in Nat
        <5>1. Len(Named) \in 0 .. Len(Named)
          BY <1>5
        <5>2. Len(Paths(Named, Len(Named))) \in Nat
          BY <1>5, <5>1, PathsGrow
        <5> QED BY <1>3, <5>2 DEF Wanted
      <4> QED BY <4>1, <4>2 DEF Along
    <3>3. InTurn(0)'
      <4>1. Paths(Named, 0) = <<>>
        BY <1>5, PathsSteps
      <4>2. /\ it' = 1 /\ match' = 0 /\ it' - 1 = 0 /\ Len(outcomes') = 0
        BY <1>1, <1>2
      <4>3. Paths(Named', it' - 1) = <<>>
        BY <1>3, <4>1, <4>2
      <4>4. it' \in 1 .. Len(Named') + 1
        BY <1>3, <1>5, <4>2
      <4> QED BY <4>2, <4>3, <4>4 DEF InTurn, Matched
    <3>4. Len(outcomes') = 0
      BY <1>1, <1>2
    <3>5. Fine(outcomes', Len(outcomes')) /\ Fine(outcomes', Len(outcomes') - 1)
      BY <3>4 DEF Fine
    <3>6. UnderWay'
      BY <3>1, <3>3, <3>5 DEF UnderWay, Going
    <3>7. Inputs'
      BY <1>1, <1>3, <3>1, <3>2, <3>5, <3>6 DEF Inputs
    <3> QED BY <1>1, <1>2, <3>1, <3>7 DEF DriverInv
  <2> QED BY <2>3, <2>4
<1> QED BY <1>7, <1>8

-----------------------------------------------------------------------------
(* The path at hand is the next of those wanted. *)
LEMMA PathIsNext ==
    ASSUME DriverInv, Inputs, InTurn(0), AtPath
    PROVE  /\ Len(outcomes) \in Nat /\ Len(outcomes) + 1 <= Len(Wanted)
           /\ Path = Wanted[Len(outcomes) + 1]
<1> DEFINE f == Named[it]
           k == Matched + 1
<1>1. line \in CommandLines /\ InFiles = Named /\ (\E S : outcomes \in Seq(S))
  BY DEF DriverInv, Inputs, Along
<1>2. Len(Named) \in Nat /\ it \in 1 .. Len(Named)
  BY <1>1, NamedType DEF AtPath, InTurn
<1>3. Len(outcomes) \in Nat
  <2>1. PICK S : outcomes \in Seq(S)
    BY <1>1
  <2> QED BY <2>1
<1>4. /\ Len(Expand(f)) \in Nat
      /\ Matching(f) => Expand(f) = Matches[f]
      /\ ~Matching(f) => Len(Expand(f)) = 1 /\ Expand(f)[1] = f
      /\ Wild(f) => Matches[f] \in Seq(PathType(Named))
  BY <1>2, ExpandFacts
<1>5. match \in Nat /\ (match # 0 => Wild(f) /\ match <= Len(Matches[f]))
      /\ (match # 0 \/ ~Matching(f))
  BY DEF InTurn, AtPath
<1> HIDE DEF f
<1>6. k \in 1 .. Len(Expand(f)) /\ Path = Expand(f)[k]
  <2>1. CASE match = 0
    <3>1. k = 1 /\ Path = f /\ Len(Expand(f)) = 1 /\ Expand(f)[1] = f
      BY <1>1, <1>4, <1>5, <2>1 DEF Matched, Path, f
    <3> QED BY <3>1
  <2>2. CASE match # 0
    <3>1. k = match /\ Path = Matches[f][match] /\ Wild(f) /\ match <= Len(Matches[f])
      BY <1>1, <1>5, <2>2 DEF Matched, Path, f
    <3>2. Matching(f)
      BY <1>5, <2>2, <3>1 DEF Matching
    <3>3. Expand(f) = Matches[f]
      BY <1>4, <3>2
    <3> QED BY <1>4, <1>5, <2>2, <3>1, <3>3
  <2> QED BY <2>1, <2>2
<1> DEFINE before == Len(Paths(Named, it - 1))
<1>7. before \in Nat /\ before + k <= Len(Wanted) /\ Wanted[before + k] = Expand(f)[k]
  BY <1>2, <1>6, WantedAt DEF Wanted, f
<1>8. Len(outcomes) = before + Matched + 0 /\ Matched \in Nat
  BY <1>5 DEF InTurn, Matched
<1> HIDE DEF before
<1>9. before + k = Len(outcomes) + 1
  BY <1>7, <1>8
<1> QED BY <1>3, <1>6, <1>7, <1>9

(* What one input came to. *)
LEMMA OutcomeKeeps ==
    ASSUME DriverInv, Inputs, phase \in {"inputs", "compiling", "writing"}, Going, AtPath,
           NEW ok \in BOOLEAN, Outcome(Path, ok),
           line' = line, Error' = Error, InFiles' = InFiles, switches' = switches,
           it' = it, match' = match, ReturnCode' = ReturnCode
    PROVE  DriverInv'
<1> DEFINE N == Len(outcomes)
           new == [path |-> Path, ok |-> ok]
<1>1. outcomes' = Append(outcomes, new) /\ phase' = "processed" /\ Status' = ok
  BY DEF Outcome
<1>2. /\ line \in CommandLines /\ Error \in BOOLEAN /\ ~Error /\ InFiles = Named /\ Named # <<>>
      /\ ReturnCode \in {0, -1}
      /\ \A n \in 1 .. N : outcomes[n].ok \in BOOLEAN
      /\ \A n \in 1 .. N : outcomes[n].path = Wanted[n]
  BY DEF DriverInv, Inputs, Along
<1>3. Named' = Named /\ Wanted' = Wanted
  BY DEF Named, Lines, Responses, Wanted
<1>4. N \in Nat /\ N + 1 <= Len(Wanted) /\ Path = Wanted[N + 1]
  BY PathIsNext DEF Going
<1>5. PICK S : outcomes \in Seq(S)
  BY DEF Inputs, Along
<1>6. new.path = Path /\ new.ok = ok
  OBVIOUS
<1> HIDE DEF new
<1>7. /\ outcomes' \in Seq(S \cup {new}) /\ Len(outcomes') = N + 1
      /\ \A n \in 1 .. N : outcomes'[n] = outcomes[n]
      /\ outcomes'[N + 1] = new
  <2>1. outcomes \in Seq(S \cup {new}) /\ new \in S \cup {new}
    BY <1>5
  <2> QED BY <1>1, <2>1
<1> HIDE DEF N
<1>8. \A n \in 1 .. N + 1 : n = N + 1 \/ n \in 1 .. N
  BY <1>4
<1>9. Along'
  <2>1. \A n \in 1 .. N + 1 : outcomes'[n].ok \in BOOLEAN
    BY <1>2, <1>6, <1>7, <1>8 DEF N
  <2>2. \A n \in 1 .. N + 1 : outcomes'[n].path = Wanted[n]
    BY <1>2, <1>4, <1>6, <1>7, <1>8 DEF N
  <2> QED BY <1>3, <1>4, <1>7, <2>1, <2>2 DEF Along
<1>10. InTurn(1)' /\ AtPath'
  <2>1. Len(outcomes) = Len(Paths(Named, it - 1)) + Matched + 0 /\ Matched' = Matched
        /\ Matched \in Nat
    BY DEF Going, InTurn, Matched
  <2>2. Len(Paths(Named, it - 1)) \in Nat
    <3>1. Len(Named) \in Nat /\ it - 1 \in 0 .. Len(Named)
      BY <1>2, NamedType DEF Going, InTurn
    <3> QED BY <3>1, PathsGrow
  <2>3. N + 1 = Len(Paths(Named, it - 1)) + Matched + 1
    BY <2>1, <2>2 DEF N
  <2>4. Len(outcomes') = Len(Paths(Named', it' - 1)) + Matched' + 1
    BY <1>3, <1>7, <2>1, <2>3
  <2> QED BY <1>3, <2>4 DEF Going, InTurn, AtPath, Matching, Wild
<1>11. Fine(outcomes, N) <=> Fine(outcomes', Len(outcomes') - 1)
  <2>1. Len(outcomes') - 1 = N
    BY <1>4, <1>7
  <2>2. Fine(outcomes, N) <=> Fine(outcomes', N)
    BY <1>7, ZenonT(20) DEF Fine
  <2> QED BY <2>1, <2>2
<1>12. /\ StopOnError' = StopOnError /\ (StopOnError => Fine(outcomes, N))
       /\ ((ReturnCode = 0) <=> Fine(outcomes, N))
  BY DEF StopOnError, Going, Inputs, UnderWay, N
<1>13. /\ Len(outcomes') > 0 /\ Status' = outcomes'[Len(outcomes')].ok
  BY <1>1, <1>4, <1>6, <1>7
<1>14. AfterInput'
  BY <1>10, <1>11, <1>12, <1>13 DEF AfterInput, AfterPath
<1>15. StopOnError' => Fine(outcomes', Len(outcomes') - 1)
  BY <1>11, <1>12
<1>16. Inputs'
  BY <1>1, <1>2, <1>3, <1>9, <1>14, <1>15 DEF Inputs
<1> QED BY <1>1, <1>2, <1>16 DEF DriverInv

(* A step of an input that leaves it where it is. *)
LEMMA ProgressKeeps ==
    ASSUME DriverInv, Inputs, phase \in {"inputs", "compiling", "writing"}, Going,
           phase' \in {"inputs", "compiling", "writing"},
           phase' \in {"compiling", "writing"} => AtPath,
           line' = line, Error' = Error, InFiles' = InFiles, switches' = switches,
           it' = it, match' = match, ReturnCode' = ReturnCode, outcomes' = outcomes
    PROVE  DriverInv'
<1>1. Named' = Named /\ Wanted' = Wanted
  BY DEF Named, Lines, Responses, Wanted
<1>2. InTurn(0)' /\ (AtPath <=> AtPath') /\ StopOnError' = StopOnError
  BY <1>1 DEF Going, InTurn, Matched, AtPath, Matching, Wild, StopOnError
<1>4. Along'
  BY <1>1 DEF Inputs, Along
<1>5. UnderWay'
  <2>1. Going'
    BY <1>2 DEF Going
  <2> QED BY <2>1 DEF UnderWay, Inputs
<1>6. Inputs'
  <2>1. ~Error /\ InFiles = Named /\ Named # <<>> /\ ReturnCode \in {0, -1}
        /\ (StopOnError => Fine(outcomes, Len(outcomes) - 1))
    BY DEF Inputs
  <2> QED BY <1>1, <1>2, <1>4, <1>5, <2>1 DEF Inputs
<1> QED BY <1>6 DEF DriverInv

LEMMA WildcardKeeps ==
    ASSUME DriverInv, ProcessWildcardInputFile
    PROVE  DriverInv'
<1>1. /\ phase = "inputs" /\ it \in DOMAIN InFiles /\ match = 0 /\ Wild(InFiles[it])
      /\ line' = line /\ Error' = Error /\ InFiles' = InFiles /\ switches' = switches
      /\ it' = it /\ ReturnCode' = ReturnCode
  BY DEF ProcessWildcardInputFile, parsing, options
<1>2. Inputs
  BY <1>1 DEF DriverInv, Quit
<1>3. InFiles = Named /\ line \in CommandLines
  BY <1>2 DEF Inputs, DriverInv
<1>4. Len(Named) \in Nat /\ DOMAIN Named = 1 .. Len(Named)
  BY <1>3, NamedDomain
<1>5. it <= Len(Named) /\ it \in 1 .. Len(Named)
  BY <1>1, <1>3, <1>4
<1>6. Going
  <2>1. ~Stopped
    BY <1>4, <1>5 DEF Stopped
  <2> QED BY <1>1, <1>2, <2>1 DEF Inputs, UnderWay
<1>7. CASE Matches[InFiles[it]] = <<>> /\ InFiles[it] \notin Folders
  <2>1. Outcome(Path, FALSE) /\ match' = match
    BY <1>1, <1>7 DEF ProcessWildcardInputFile, Path
  <2>2. AtPath
    BY <1>3, <1>5, <1>7 DEF AtPath, Matching
  <2> QED BY <1>1, <1>2, <1>6, <2>1, <2>2, OutcomeKeeps
<1>8. CASE Matches[InFiles[it]] = <<>> /\ InFiles[it] \in Folders
  <2>1. match' = match /\ phase' = "processed" /\ Status' = TRUE /\ outcomes' = outcomes
    BY <1>1, <1>8 DEF ProcessWildcardInputFile
  <2>2. Named' = Named /\ Wanted' = Wanted /\ StopOnError' = StopOnError
    BY <1>1 DEF Named, Lines, Responses, Wanted, StopOnError
  <2>3. InTurn(0)'
    BY <1>1, <1>6, <2>1, <2>2 DEF Going, InTurn, Matched, Wild
  <2>4. Matching(Named'[it'])
    BY <1>1, <1>3, <1>8, <2>2 DEF Matching
  <2>5. Fine(outcomes', Len(outcomes')) <=> Fine(outcomes, Len(outcomes))
    BY <2>1
  <2>6. ((ReturnCode' = 0) <=> Fine(outcomes', Len(outcomes')))
    BY <1>1, <1>2, <2>5 DEF Inputs, UnderWay
  <2>7. StopOnError' => Fine(outcomes', Len(outcomes'))
    BY <1>6, <2>2, <2>5 DEF Going
  <2>8. AfterFolders'
    BY <1>1, <1>3, <1>5, <1>8, <2>1, <2>2, <2>3, <2>4, <2>6, <2>7 DEF AfterFolders, Matching, Wild
  <2>9. Along'
    BY <1>2, <2>1, <2>2 DEF Inputs, Along
  <2>10. ~Error /\ InFiles = Named /\ Named # <<>> /\ ReturnCode \in {0, -1}
         /\ (StopOnError => Fine(outcomes, Len(outcomes) - 1))
    BY <1>2 DEF Inputs
  <2>11. Inputs'
    BY <1>1, <2>1, <2>2, <2>8, <2>9, <2>10 DEF Inputs, AfterInput
  <2> QED BY <1>1, <2>1, <2>11 DEF DriverInv
<1>9. CASE Matches[InFiles[it]] # <<>>
  <2>1. match' = 1 /\ phase' = phase /\ outcomes' = outcomes /\ Status' = Status
    BY <1>9 DEF ProcessWildcardInputFile
  <2>2. Named' = Named /\ Wanted' = Wanted
    BY <1>1 DEF Named, Lines, Responses, Wanted
  <2>3. Matched' = Matched
    BY <1>1, <2>1 DEF Matched
  <2>4. 1 <= Len(Matches[Named[it]])
    <3>1. Matches[InFiles[it]] \in Seq(Dirs \X Names)
      BY <1>1, DriverAssumption DEF Wild
    <3> QED BY <1>3, <1>9, <3>1, EmptySeq
  <2>5. InTurn(0)'
    BY <1>1, <1>3, <1>5, <1>6, <2>1, <2>2, <2>3, <2>4 DEF Going, InTurn, Wild
  <2>6. StopOnError' = StopOnError
    BY <1>1 DEF StopOnError
  <2>7. Along'
    BY <1>2, <2>1, <2>2 DEF Inputs, Along
  <2>8. Going'
    BY <1>1, <1>6, <2>1, <2>5, <2>6 DEF Going
  <2>9. UnderWay'
    BY <1>1, <1>2, <2>1, <2>8 DEF UnderWay, Inputs
  <2>10. ~Error /\ InFiles = Named /\ Named # <<>> /\ ReturnCode \in {0, -1}
         /\ (StopOnError => Fine(outcomes, Len(outcomes) - 1))
    BY <1>2 DEF Inputs
  <2>11. Inputs'
    BY <1>1, <2>1, <2>2, <2>6, <2>7, <2>9, <2>10 DEF Inputs
  <2> QED BY <1>1, <2>1, <2>11 DEF DriverInv
<1> QED BY <1>7, <1>8, <1>9

LEMMA ProcessKeeps ==
    ASSUME DriverInv, ProcessInputFile
    PROVE  DriverInv'
<1>1. /\ phase = "inputs" /\ it \in DOMAIN InFiles /\ (match # 0 \/ ~Wild(InFiles[it]))
      /\ line' = line /\ Error' = Error /\ InFiles' = InFiles /\ switches' = switches
      /\ it' = it /\ match' = match /\ ReturnCode' = ReturnCode
  BY DEF ProcessInputFile, parsing, options
<1>2. Inputs
  BY <1>1 DEF DriverInv, Quit
<1>3. InFiles = Named /\ line \in CommandLines
  BY <1>2 DEF Inputs, DriverInv
<1>4. it <= Len(Named) /\ it \in 1 .. Len(Named) /\ Len(Named) \in Nat
  BY <1>1, <1>3, NamedDomain
<1>5. Going
  <2>1. ~Stopped
    BY <1>4 DEF Stopped
  <2> QED BY <1>1, <1>2, <2>1 DEF Inputs, UnderWay
<1>6. AtPath
  BY <1>1, <1>3, <1>4 DEF AtPath, Matching
<1>7. Outcome(Path, FALSE) \/ (phase' \in {"compiling", "writing"} /\ outcomes' = outcomes)
  BY DEF ProcessInputFile
<1>8. CASE Outcome(Path, FALSE)
  BY <1>1, <1>2, <1>5, <1>6, <1>8, OutcomeKeeps
<1>9. CASE phase' \in {"compiling", "writing"} /\ outcomes' = outcomes
  BY <1>1, <1>2, <1>5, <1>6, <1>9, ProgressKeeps
<1> QED BY <1>7, <1>8, <1>9

LEMMA CompilingKeeps ==
    ASSUME DriverInv, Compiling \/ CompileSourceFile \/ WriteOutput
    PROVE  DriverInv'
<1>1. /\ phase \in {"compiling", "writing"}
      /\ line' = line /\ Error' = Error /\ InFiles' = InFiles /\ switches' = switches
      /\ it' = it /\ match' = match /\ ReturnCode' = ReturnCode
  BY DEF Compiling, CompileSourceFile, WriteOutput, parsing, options, progress, ending, driverVars
<1>2. Inputs
  BY <1>1 DEF DriverInv, Quit
<1>3. Going /\ AtPath
  BY <1>1, <1>2 DEF Inputs, UnderWay, Going
<1>4. \/ \E ok \in BOOLEAN : Outcome(Path, ok)
      \/ phase' \in {"compiling", "writing"} /\ outcomes' = outcomes
  <2>1. CASE Compiling
    BY <1>1, <2>1 DEF Compiling, driverVars, ending
  <2>2. CASE CompileSourceFile
    BY <2>2 DEF CompileSourceFile
  <2>3. CASE WriteOutput
    BY <1>1, <2>3 DEF WriteOutput, Write
  <2> QED BY <2>1, <2>2, <2>3
<1>5. CASE \E ok \in BOOLEAN : Outcome(Path, ok)
  <2>1. PICK ok \in BOOLEAN : Outcome(Path, ok)
    BY <1>5
  <2> QED BY <1>1, <1>2, <1>3, <2>1, OutcomeKeeps
<1>6. CASE phase' \in {"compiling", "writing"} /\ outcomes' = outcomes
  BY <1>1, <1>2, <1>3, <1>6, ProgressKeeps
<1> QED BY <1>4, <1>5, <1>6

(* The results up to one are fine when those before it are and it is. *)
LEMMA FineStep ==
    ASSUME NEW results, NEW N \in Nat, N > 0
    PROVE  Fine(results, N) <=> (Fine(results, N - 1) /\ results[N].ok)
<1>1. N \in 1 .. N /\ \A n \in 1 .. N : n = N \/ n \in 1 .. N - 1
  OBVIOUS
<1>2. \A n \in 1 .. N - 1 : n \in 1 .. N
  OBVIOUS
<1>3. ASSUME Fine(results, N) PROVE Fine(results, N - 1) /\ results[N].ok
  BY <1>1, <1>2, <1>3, Zenon DEF Fine
<1>4. ASSUME Fine(results, N - 1), results[N].ok PROVE Fine(results, N)
  BY <1>1, <1>4, Zenon DEF Fine
<1> QED BY <1>3, <1>4

(* The loops go on to the next path, or leave. *)
LEMMA NextAfterPath ==
    ASSUME DriverInv, NextInput, AfterPath
    PROVE  DriverInv'
<1> DEFINE N == Len(outcomes)
           f == Named[it]
           before == Len(Paths(Named, it - 1))
<1>1. /\ phase = "processed" /\ phase' = "inputs" /\ ReturnCode' = CodeAfter
      /\ line' = line /\ Error' = Error /\ InFiles' = InFiles /\ switches' = switches
      /\ outcomes' = outcomes
      /\ IF Stops THEN it' = Len(InFiles) + 1 /\ match' = 0
         ELSE IF MoreMatches THEN it' = it /\ match' = match + 1
         ELSE it' = it + 1 /\ match' = 0
  BY DEF NextInput, parsing, options
<1>2. Inputs
  BY <1>1 DEF DriverInv, Quit
<1>3. /\ line \in CommandLines /\ Error \in BOOLEAN /\ ~Error /\ InFiles = Named /\ Named # <<>>
      /\ ReturnCode \in {0, -1} /\ Along /\ (StopOnError => Fine(outcomes, N - 1))
  BY <1>2 DEF DriverInv, Inputs
<1>4. Named' = Named /\ Wanted' = Wanted /\ StopOnError' = StopOnError
  BY <1>1 DEF Named, Lines, Responses, Wanted, StopOnError
<1>5. N \in Nat /\ N > 0
  <2>1. PICK S : outcomes \in Seq(S)
    BY <1>3 DEF Along
  <2> QED BY <1>2, <2>1 DEF AfterPath
<1>6. Status = outcomes[N].ok /\ ((ReturnCode = 0) <=> Fine(outcomes, N - 1))
  BY <1>2 DEF AfterPath
<1>7. Fine(outcomes, N) <=> (Fine(outcomes, N - 1) /\ outcomes[N].ok)
  BY <1>5, FineStep
<1>8. Status \in BOOLEAN
  BY <1>3, <1>5, <1>6 DEF Along
<1>9. ReturnCode' \in {0, -1} /\ ((ReturnCode' = 0) <=> Fine(outcomes, N))
  <2>1. CASE Status
    BY <1>1, <1>3, <1>6, <1>7, <2>1 DEF CodeAfter
  <2>2. CASE ~Status
    BY <1>1, <1>6, <1>7, <2>2 DEF CodeAfter
  <2> QED BY <2>1, <2>2
<1>10. /\ Len(Named) \in Nat /\ it \in 1 .. Len(Named) /\ match \in Nat
       /\ (match # 0 => Wild(f) /\ match <= Len(Matches[f]))
       /\ (match # 0 \/ ~Matching(f))
       /\ N = before + Matched + 1
  BY <1>2, <1>3, NamedDomain DEF AfterPath, InTurn, AtPath
<1>11. before \in Nat
  BY <1>10, PathsGrow
<1>12. Along'
  BY <1>1, <1>3, <1>4 DEF Along
<1>13. CASE Stops
  <2>1. it' = Len(Named') + 1 /\ match' = 0 /\ ~Status /\ StopOnError
    BY <1>1, <1>3, <1>4, <1>13 DEF Stops
  <2>2. outcomes # <<>> /\ ~outcomes[N].ok
    BY <1>5, <1>6, <2>1
  <2>3. Stopped'
    BY <1>1, <1>4, <2>1, <2>2 DEF Stopped, Failed
  <2>4. UnderWay'
    BY <1>1, <1>9, <2>3 DEF UnderWay
  <2>5. Inputs'
    BY <1>1, <1>3, <1>4, <1>9, <1>12, <2>4 DEF Inputs
  <2> QED BY <1>1, <1>3, <2>5 DEF DriverInv
<1>14. CASE ~Stops
  <2>1. StopOnError => Fine(outcomes, N)
    BY <1>3, <1>6, <1>7, <1>14 DEF Stops
  <2>2. InTurn(0)'
    <3>1. CASE MoreMatches
      <4>1. it' = it /\ match' = match + 1 /\ match # 0 /\ match < Len(Matches[f])
        BY <1>1, <1>3, <1>14, <3>1 DEF MoreMatches
      <4>2. Wild(f) /\ Len(Matches[f]) \in Nat
        <5>1. Wild(f)
          BY <1>10, <4>1
        <5>2. Matches[f] \in Seq(Dirs \X Names)
          BY <5>1, DriverAssumption DEF Wild
        <5> QED BY <5>1, <5>2
      <4> HIDE DEF f, before, N
      <4>3. match' \in Nat /\ match' # 0 /\ match' <= Len(Matches[f]) /\ it <= Len(Named)
        BY <1>10, <4>1, <4>2
      <4>4. N = before + Matched' + 0
        BY <1>10, <1>11, <4>1, <4>3 DEF Matched
      <4> QED BY <1>1, <1>4, <1>10, <4>1, <4>2, <4>3, <4>4 DEF InTurn, f, before, N, Wild
    <3>2. CASE ~MoreMatches
      <4>1. it' = it + 1 /\ match' = 0
        BY <1>1, <1>14, <3>2
      <4>2. /\ Len(Expand(f)) \in Nat
            /\ Matching(f) => Expand(f) = Matches[f]
            /\ ~Matching(f) => Len(Expand(f)) = 1
            /\ Wild(f) => Matches[f] \in Seq(PathType(Named))
        BY <1>10, ExpandFacts
      <4>3. Len(Expand(f)) = Matched + 1
        <5>1. CASE match = 0
          BY <1>10, <4>2, <5>1 DEF Matched
        <5>2. CASE match # 0
          <6>1. Wild(f) /\ match <= Len(Matches[f]) /\ ~(match < Len(Matches[f]))
            BY <1>3, <1>10, <3>2, <5>2 DEF MoreMatches
          <6> HIDE DEF f
          <6>2. Len(Matches[f]) \in Nat
            BY <4>2, <6>1
          <6>3. match = Len(Matches[f])
            BY <1>10, <6>1, <6>2
          <6>4. Matching(f)
            BY <5>2, <6>1, <6>3 DEF Matching
          <6>5. Len(Expand(f)) = match
            BY <4>2, <6>3, <6>4
          <6> QED BY <1>10, <5>2, <6>5 DEF Matched
        <5> QED BY <5>1, <5>2
      <4>4. Len(Paths(Named, it)) = before + Len(Expand(f))
        BY <1>10, PathsNext
      <4>5. it' - 1 = it /\ it' \in 1 .. Len(Named) + 1
        BY <1>10, <4>1
      <4>6. Matched \in Nat
        BY <1>10 DEF Matched
      <4> HIDE DEF before, f
      <4>7. N = Len(Paths(Named, it)) + 0 + 0
        BY <1>10, <1>11, <4>3, <4>4, <4>6
      <4>8. Len(outcomes') = Len(Paths(Named', it' - 1)) + Matched' + 0
        BY <1>1, <1>4, <4>1, <4>5, <4>7 DEF Matched
      <4> QED BY <1>4, <4>1, <4>5, <4>8 DEF InTurn
    <3> QED BY <3>1, <3>2
  <2>3. Going'
    BY <1>1, <1>4, <2>1, <2>2 DEF Going
  <2>4. UnderWay'
    BY <1>1, <1>9, <2>3 DEF UnderWay
  <2>5. Inputs'
    BY <1>1, <1>3, <1>4, <1>9, <1>12, <2>4 DEF Inputs
  <2> QED BY <1>1, <1>3, <2>5 DEF DriverInv
<1> QED BY <1>13, <1>14

(* After a wildcard that matches directories only they go on. *)
LEMMA NextAfterFolders ==
    ASSUME DriverInv, NextInput, AfterFolders
    PROVE  DriverInv'
<1> DEFINE N == Len(outcomes)
           f == Named[it]
           before == Len(Paths(Named, it - 1))
<1>1. /\ phase = "processed" /\ phase' = "inputs"
      /\ line' = line /\ Error' = Error /\ InFiles' = InFiles /\ switches' = switches
      /\ outcomes' = outcomes
  BY DEF NextInput, parsing, options
<1>2. it' = it + 1 /\ match' = 0 /\ ReturnCode' = ReturnCode
  BY DEF NextInput, AfterFolders, Stops, MoreMatches, CodeAfter
<1>3. Inputs
  BY <1>1 DEF DriverInv, Quit
<1>4. /\ line \in CommandLines /\ Error \in BOOLEAN /\ ~Error /\ InFiles = Named /\ Named # <<>>
      /\ ReturnCode \in {0, -1} /\ Along /\ (StopOnError => Fine(outcomes, N - 1))
  BY <1>3 DEF DriverInv, Inputs
<1>5. Named' = Named /\ Wanted' = Wanted /\ StopOnError' = StopOnError
  BY <1>1 DEF Named, Lines, Responses, Wanted, StopOnError
<1>6. /\ Len(Named) \in Nat /\ it \in 1 .. Len(Named) /\ Matching(f) /\ Matches[f] = <<>>
      /\ N = before + 0 + 0
  BY <1>4, NamedDomain DEF AfterFolders, InTurn, Matched
<1>7. before \in Nat
  BY <1>6, PathsGrow
<1>8. Len(Paths(Named, it)) = before + 0
  <2>1. Expand(f) = <<>>
    BY <1>6 DEF Expand
  <2>2. Len(Expand(f)) = 0
    BY <2>1
  <2>3. Len(Paths(Named, it)) = before + Len(Expand(f))
    BY <1>6, PathsNext
  <2> QED BY <2>2, <2>3
<1>9. InTurn(0)'
  <2>1. it' - 1 = it /\ it' \in 1 .. Len(Named) + 1
    BY <1>2, <1>6
  <2> HIDE DEF before, f
  <2>2. Len(outcomes') = Len(Paths(Named', it' - 1)) + Matched' + 0
    BY <1>1, <1>2, <1>5, <1>6, <1>7, <1>8, <2>1 DEF Matched
  <2> QED BY <1>2, <1>5, <2>1, <2>2 DEF InTurn
<1>10. /\ StopOnError' => Fine(outcomes', Len(outcomes'))
       /\ (ReturnCode' = 0) <=> Fine(outcomes', Len(outcomes'))
  BY <1>1, <1>2, <1>5 DEF AfterFolders
<1>11. UnderWay'
  BY <1>1, <1>9, <1>10 DEF UnderWay, Going
<1>12. Along'
  BY <1>1, <1>4, <1>5 DEF Along
<1>13. Inputs'
  BY <1>1, <1>2, <1>4, <1>5, <1>11, <1>12 DEF Inputs
<1> QED BY <1>1, <1>4, <1>13 DEF DriverInv

LEMMA NextKeeps ==
    ASSUME DriverInv, NextInput
    PROVE  DriverInv'
<1>1. AfterInput
  BY DEF NextInput, DriverInv, Quit, Inputs
<1> QED BY <1>1, NextAfterPath, NextAfterFolders DEF AfterInput

LEMMA ExitKeeps ==
    ASSUME DriverInv, Exit
    PROVE  DriverInv'
<1>1. /\ phase = "inputs" /\ it \notin DOMAIN InFiles /\ phase' = "exited"
      /\ line' = line /\ Error' = Error /\ InFiles' = InFiles /\ switches' = switches
      /\ it' = it /\ match' = match /\ ReturnCode' = ReturnCode /\ outcomes' = outcomes
  BY DEF Exit, parsing, options, progress, ending
<1>2. Inputs /\ UnderWay
  BY <1>1 DEF DriverInv, Quit, Inputs
<1>3. /\ line \in CommandLines /\ Error \in BOOLEAN /\ ~Error /\ InFiles = Named /\ Named # <<>>
      /\ ReturnCode \in {0, -1} /\ Along /\ (StopOnError => Fine(outcomes, Len(outcomes) - 1))
  BY <1>2 DEF DriverInv, Inputs
<1>4. Named' = Named /\ Wanted' = Wanted /\ StopOnError' = StopOnError
  BY <1>1 DEF Named, Lines, Responses, Wanted, StopOnError
<1>5. Along'
  BY <1>1, <1>3, <1>4 DEF Along
<1>6. AtExit'
  <2>1. CASE Stopped
    <3>1. Stopped'
      BY <1>1, <1>4, <2>1 DEF Stopped, Failed
    <3> QED BY <1>1, <1>2, <3>1 DEF AtExit, UnderWay
  <2>2. CASE Going
    <3>1. InTurn(0) /\ (StopOnError => Fine(outcomes, Len(outcomes)))
      BY <2>2 DEF Going
    <3>2. it = Len(Named) + 1
      BY <1>1, <1>3, <3>1, NamedDomain DEF InTurn
    <3>3. InTurn(0)'
      BY <1>1, <1>4, <3>1 DEF InTurn, Matched, Wild
    <3> QED BY <1>1, <1>2, <1>4, <3>1, <3>2, <3>3 DEF AtExit, UnderWay
  <2> QED BY <1>2, <2>1, <2>2 DEF UnderWay
<1>7. Inputs'
  BY <1>1, <1>3, <1>4, <1>5, <1>6 DEF Inputs
<1> QED BY <1>1, <1>3, <1>7 DEF DriverInv

(* The invariant of the driver: what has been read of the arguments, and   *)
(* that the paths processed are the first of those wanted. *)
LEMMA DriverInvariant == DriverSpec => []DriverInv
<1>1. DriverInit => DriverInv
  <2> SUFFICES ASSUME DriverInit PROVE DriverInv
    OBVIOUS
  <2>1. /\ line \in CommandLines /\ argv = line /\ i = 1 /\ Error = FALSE /\ InFiles = <<>>
        /\ response = [read |-> FALSE, args |-> <<>>]
        /\ phase = "arguments" /\ it = 1 /\ match = 0 /\ outcomes = <<>> /\ ReturnCode = 0
    BY DEF DriverInit
  <2>2. Len(line) \in Nat /\ i - 1 = 0
    BY <2>1, LineFacts
  <2>3. Filed(line, 0) = <<>>
    BY <2>2, FiledSteps
  <2>4. Seen(line, 0, response)
    <3>1. response.read = FALSE /\ 1 .. 0 = {}
      BY <2>1
    <3> QED BY <3>1 DEF Seen
  <2>5. FirstPass
    <3>1. InFiles = Filed(line, i - 1) /\ Seen(line, i - 1, response)
      BY <2>1, <2>2, <2>3, <2>4
    <3>2. i <= Len(line) + 1
      BY <2>1, <2>2
    <3> QED BY <2>1, <3>1, <3>2 DEF FirstPass
  <2>6. i \in Nat \ {0}
    BY <2>1
  <2>7. Arguments
    BY <2>1, <2>5, <2>6, Zenon DEF Arguments
  <2> QED BY <2>1, <2>7, Zenon DEF DriverInv
<1>2. DriverInv /\ [DriverNext]_vars => DriverInv'
  <2> SUFFICES ASSUME DriverInv, [DriverNext]_vars PROVE DriverInv'
    OBVIOUS
  <2>1. CASE ReadArgument
    BY <2>1, ReadKeeps
  <2>2. CASE EndOfArguments
    BY <2>2, EndKeeps
  <2>3. CASE ProcessWildcardInputFile
    BY <2>3, WildcardKeeps
  <2>4. CASE ProcessInputFile
    BY <2>4, ProcessKeeps
  <2>5. CASE Compiling \/ CompileSourceFile \/ WriteOutput
    BY <2>5, CompilingKeeps
  <2>6. CASE NextInput
    BY <2>6, NextKeeps
  <2>7. CASE Exit
    BY <2>7, ExitKeeps
  <2>8. CASE UNCHANGED vars
    <3>1. UNCHANGED <<line, argv, i, response, Error, switches, InFiles, phase, it, match,
                      outcomes, Status, ReturnCode>>
      BY <2>8 DEF vars, driverVars, parsing, options, progress, ending
    <3>2. /\ Lines' = Lines /\ Named' = Named /\ Wanted' = Wanted /\ (StopOnError' <=> StopOnError)
          /\ (Stopped' <=> Stopped) /\ Matched' = Matched
      BY <3>1 DEF Lines, Responses, Named, Wanted, StopOnError, Stopped, Failed, Matched
    <3>3. Arguments => Arguments'
      BY <3>1, <3>2 DEF Arguments, FirstPass, SecondPass
    <3>4. (InTurn(0) => InTurn(0)') /\ (InTurn(1) => InTurn(1)') /\ (AtPath => AtPath')
      BY <3>1, <3>2 DEF InTurn, AtPath, Matching, Wild
    <3>5. Going => Going'
      BY <3>1, <3>2, <3>4 DEF Going
    <3>6. (UnderWay => UnderWay') /\ (AfterPath => AfterPath') /\ (AtExit => AtExit')
          /\ (Along => Along')
      BY <3>1, <3>2, <3>4, <3>5 DEF UnderWay, AfterPath, AtExit, Along
    <3>7. AfterFolders => AfterFolders'
      BY <3>1, <3>2, <3>4 DEF AfterFolders, Matching, Wild
    <3>8. Inputs => Inputs'
      BY <3>1, <3>2, <3>6, <3>7 DEF Inputs, AfterInput
    <3>9. Quit => Quit'
      BY <3>1, <3>2 DEF Quit
    <3> QED BY <3>1, <3>3, <3>8, <3>9 DEF DriverInv
  <2> QED BY <2>1, <2>2, <2>3, <2>4, <2>5, <2>6, <2>7, <2>8 DEF DriverNext
<1> QED BY <1>1, <1>2, PTL DEF DriverSpec

(* The paths processed are the first of those wanted, whatever the phase. *)
LEMMA ProcessedFirst ==
    ASSUME DriverInv
    PROVE  /\ Len(Wanted) \in Nat /\ Len(outcomes) \in 0 .. Len(Wanted)
           /\ DOMAIN outcomes = 1 .. Len(outcomes)
           /\ Processed = SubSeq(Wanted, 1, Len(outcomes))
           /\ Len(outcomes) = Len(Wanted) => Processed = Wanted
<1>1. line \in CommandLines
  BY DEF DriverInv
<1>2. Len(Named) \in Nat /\ Len(Named) \in 0 .. Len(Named)
  BY <1>1, NamedDomain
<1>3. PICK all \in Seq(PathType(Named)) : all = Wanted
  BY <1>2, PathsType DEF Wanted
<1>4. /\ \E S : outcomes \in Seq(S)
      /\ Len(outcomes) <= Len(Wanted)
      /\ \A n \in 1 .. Len(outcomes) : outcomes[n].path = Wanted[n]
  <2>1. CASE outcomes = <<>>
    <3>1. outcomes \in Seq({}) /\ Len(outcomes) = 0
      BY <2>1
    <3> QED BY <1>3, <3>1
  <2>2. CASE Inputs
    BY <2>2 DEF Inputs, Along
  <2> QED BY <2>1, <2>2 DEF DriverInv, Arguments, Quit
<1>5. Len(outcomes) \in Nat /\ DOMAIN outcomes = 1 .. Len(outcomes)
  <2>1. PICK S : outcomes \in Seq(S)
    BY <1>4
  <2> QED BY <2>1
<1> DEFINE N == Len(outcomes)
<1>6. Processed = [n \in 1 .. N |-> all[n]]
  BY <1>3, <1>4, <1>5 DEF Processed
<1> HIDE DEF N
<1>7. N \in 0 .. Len(all) /\ Len(all) \in Nat
  BY <1>3, <1>4, <1>5 DEF N
<1>8. SubSeq(all, 1, N) = [n \in 1 .. N |-> all[n]]
  BY <1>7
<1>9. N = Len(all) => [n \in 1 .. N |-> all[n]] = all
  BY <1>7
<1> QED BY <1>3, <1>5, <1>6, <1>7, <1>8, <1>9 DEF N

(* Without a failure that ended the loops, all were processed by the end. *)
LEMMA AllProcessed ==
    ASSUME DriverInv, phase = "exited", Inputs, ~Stopped
    PROVE  Processed = Wanted
<1>1. InTurn(0) /\ it = Len(Named) + 1
  BY DEF Inputs, AtExit
<1>2. Len(Named) \in Nat
  BY NamedDomain DEF DriverInv
<1>3. match = 0 /\ it - 1 = Len(Named)
  BY <1>1, <1>2 DEF InTurn
<1>4. Len(outcomes) = Len(Paths(Named, it - 1)) + 0 + 0
  BY <1>1, <1>3 DEF InTurn, Matched
<1>5. Len(outcomes) = Len(Wanted) + 0 + 0
  BY <1>3, <1>4 DEF Wanted
<1>6. Len(Wanted) \in Nat
  BY ProcessedFirst
<1>7. Len(outcomes) = Len(Wanted)
  BY <1>5, <1>6
<1> QED BY <1>7, ProcessedFirst

(* The exit code is zero just when inputs were named, each of them was a   *)
(* file or matched something, and every file named or matched was          *)
(* processed once without an error: what main and the loops of the         *)
(* wildcards carry over from one input to the next is the code of all of   *)
(* them (nwnsc.cpp:1756), and wildcards that match directories only leave  *)
(* it as it is (nwnsc.cpp:1559-1568). *)
THEOREM ExitCodeTells == DriverSpec => []ExitCode
<1>1. ASSUME DriverInv PROVE ExitCode
  <2> SUFFICES ASSUME phase = "exited"
               PROVE  (ReturnCode = 0) <=> (/\ ~Error /\ Named # <<>> /\ Processed = Wanted
                                            /\ \A n \in DOMAIN outcomes : outcomes[n].ok)
    BY DEF ExitCode
  <2>1. CASE Quit
    BY <2>1 DEF Quit
  <2>2. CASE Inputs
    <3>1. AtExit /\ ~Error /\ Named # <<>>
      BY <2>2 DEF Inputs
    <3>2. DOMAIN outcomes = 1 .. Len(outcomes) /\ Len(outcomes) \in Nat
      BY <1>1, ProcessedFirst
    <3>3. (ReturnCode = 0) <=> (\A n \in DOMAIN outcomes : outcomes[n].ok)
      BY <3>1, <3>2 DEF AtExit, Fine
    <3>4. (\A n \in DOMAIN outcomes : outcomes[n].ok) => ~Stopped
      <4>1. Stopped => Len(outcomes) \in DOMAIN outcomes /\ ~outcomes[Len(outcomes)].ok
        <5>1. PICK S : outcomes \in Seq(S)
          BY <2>2 DEF Inputs, Along
        <5> QED BY <5>1 DEF Stopped, Failed
      <4> QED BY <4>1
    <3>5. (\A n \in DOMAIN outcomes : outcomes[n].ok) => Processed = Wanted
      BY <1>1, <2>2, <3>4, AllProcessed
    <3> QED BY <3>1, <3>3, <3>5
  <2> QED BY <1>1, <2>1, <2>2 DEF DriverInv
<1> QED BY <1>1, DriverInvariant, PTL

(* The files are processed in the order they were named in, each once, and *)
(* none after a failure unless -y asks to go on; then none is left out.    *)
THEOREM StopsAtTheError == DriverSpec => []StopsAtError
<1>1. ASSUME DriverInv PROVE StopsAtError
  <2>1. /\ Len(outcomes) \in Nat /\ DOMAIN outcomes = 1 .. Len(outcomes)
        /\ Processed = SubSeq(Wanted, 1, Len(outcomes))
    BY <1>1, ProcessedFirst
  <2>2. ASSUME StopOnError, NEW n \in DOMAIN outcomes, Failed(n) PROVE n = Len(outcomes)
    <3>1. outcomes # <<>>
      BY <2>2
    <3>2. Inputs
      BY <1>1, <3>1 DEF DriverInv, Arguments, Quit
    <3>3. Fine(outcomes, Len(outcomes) - 1)
      BY <2>2, <3>2 DEF Inputs
    <3>4. n \notin 1 .. Len(outcomes) - 1
      BY <2>2, <3>3 DEF Fine, Failed
    <3> QED BY <2>1, <2>2, <3>4
  <2>3. ASSUME phase = "exited", ~Error, ~(StopOnError /\ \E n \in DOMAIN outcomes : Failed(n))
        PROVE  Processed = Wanted
    <3>1. CASE Inputs
      <4>1. outcomes # <<>> => Len(outcomes) \in DOMAIN outcomes
        <5>1. PICK S : outcomes \in Seq(S)
          BY <3>1 DEF Inputs, Along
        <5> QED BY <5>1
      <4>2. ~Stopped
        BY <2>3, <4>1 DEF Stopped
      <4> QED BY <1>1, <2>3, <3>1, <4>2, AllProcessed
    <3>2. CASE Quit
      <4>1. outcomes = <<>> /\ Named = <<>>
        BY <2>3, <3>2 DEF Quit
      <4>2. Len(outcomes) = 0 /\ Len(Named) = 0
        BY <4>1
      <4>3. Paths(Named, 0) = <<>>
        BY <4>2, PathsSteps
      <4>4. Len(outcomes) = Len(Wanted)
        BY <4>1, <4>2, <4>3 DEF Wanted
      <4> QED BY <1>1, <4>4, ProcessedFirst
    <3> QED BY <1>1, <2>3, <3>1, <3>2 DEF DriverInv
  <2> QED BY <2>1, <2>2, <2>3 DEF StopsAtError
<1> QED BY <1>1, DriverInvariant, PTL

-----------------------------------------------------------------------------
(* The texts that a script reaches: Closure is the least set that has the  *)
(* script and all that its elements include. *)
Widening(script, N, s) == s = [n \in 0 .. N |-> IF n = 0 THEN {script} ELSE Wider(s[n - 1], script)]

LEMMA WideningExists ==
    ASSUME NEW script, NEW K \in Nat
    PROVE  \E s : Widening(script, K, s)
<1> DEFINE T == {m \in Nat : ~ \E s : Widening(script, m, s)}
<1>1. SUFFICES ASSUME T # {} PROVE FALSE
  OBVIOUS
<1>2. PICK m \in T : \A y \in T : m <= y
  <2>1. T \subseteq Nat
    OBVIOUS
  <2> HIDE DEF T
  <2> QED BY <1>1, <2>1, Least
<1>3. m \in Nat /\ ~ \E s : Widening(script, m, s)
  OBVIOUS
<1>4. CASE m = 0
  <2> DEFINE s == [n \in 0 .. 0 |-> {script}]
  <2>1. s = [n \in 0 .. 0 |-> IF n = 0 THEN {script} ELSE Wider(s[n - 1], script)]
    OBVIOUS
  <2> QED BY <1>3, <1>4, <2>1 DEF Widening
<1>5. CASE m # 0
  <2>1. m - 1 \in Nat /\ m - 1 \notin T
    BY <1>2, <1>3, <1>5
  <2>2. PICK g : Widening(script, m - 1, g)
    BY <2>1
  <2> DEFINE f == [n \in 0 .. m |-> IF n = m THEN Wider(g[m - 1], script) ELSE g[n]]
             h == [n \in 0 .. m |-> IF n = 0 THEN {script} ELSE Wider(f[n - 1], script)]
  <2>3. ASSUME NEW n \in 0 .. m PROVE f[n] = h[n]
    <3>1. CASE n = m
      <4>1. n - 1 \in 0 .. m /\ n - 1 # m
        BY <1>3, <1>5, <3>1
      <4>2. f[n - 1] = g[n - 1]
        BY <4>1
      <4> QED BY <1>5, <3>1, <4>2
    <3>2. CASE n # m /\ n # 0
      <4>1. n \in 0 .. m - 1 /\ n - 1 \in 0 .. m /\ n - 1 # m
        BY <1>3, <3>2
      <4>2. f[n - 1] = g[n - 1] /\ f[n] = g[n]
        BY <3>2, <4>1
      <4>3. g[n] = Wider(g[n - 1], script)
        BY <2>2, <3>2, <4>1 DEF Widening
      <4> QED BY <3>2, <4>2, <4>3
    <3>3. CASE n = 0
      <4>1. g[0] = {script}
        <5>1. 0 \in 0 .. m - 1
          BY <1>3, <1>5
        <5> QED BY <2>2, <5>1 DEF Widening
      <4> QED BY <1>5, <3>3, <4>1
    <3> QED BY <3>1, <3>2, <3>3
  <2>4. f = h
    <3>1. f = [n \in 0 .. m |-> f[n]] /\ h = [n \in 0 .. m |-> h[n]]
      OBVIOUS
    <3> HIDE DEF f, h
    <3> QED BY <2>3, <3>1
  <2>5. Widening(script, m, f)
    <3>1. h = [n \in 0 .. m |-> IF n = 0 THEN {script} ELSE Wider(f[n - 1], script)]
      OBVIOUS
    <3> HIDE DEF f, h
    <3> QED BY <2>4, <3>1 DEF Widening
  <2> QED BY <1>3, <2>5
<1> QED BY <1>4, <1>5

Includes(at) == {disk[at].includes[n] : n \in DOMAIN disk[at].includes}

(* A set that has all that is included by its elements. *)
Closed(S, script) ==
    \A at \in S \ {NoWhere} : \A name \in Includes(at) \ {script[2]} : Find(name) \in S

LEMMA WiderFacts ==
    ASSUME NEW S, NEW script
    PROVE  /\ S \subseteq Wider(S, script)
           /\ \A T : S \subseteq T /\ Closed(T, script) => Wider(S, script) \subseteq T
           /\ Wider(S, script) \subseteq S => Closed(S, script)
BY DEF Wider, Closed, Includes

(* What is included is a name, and found on the disk or nowhere. *)
LEMMA TextFacts ==
    ASSUME disk \in Installations, \E S : paths \in Seq(S)
    PROVE  /\ DOMAIN disk \subseteq Locations /\ NoWhere \notin DOMAIN disk
           /\ \A at \in DOMAIN disk : disk[at] \in Text /\ disk[at].includes \in Seq(Names)
                                      /\ Includes(at) \subseteq Names
           /\ \A at \in DOMAIN disk : at[2] \in Names
           /\ \A name : Find(name) # NoWhere => Find(name) \in DOMAIN disk /\ Find(name)[2] = name
<1>1. DOMAIN disk \subseteq Locations /\ \A at \in DOMAIN disk : disk[at] \in Text
  BY CompilerAssumption
<1>2. \A at \in DOMAIN disk : disk[at].includes \in Seq(Names)
  BY <1>1 DEF Text
<1>3. \A s \in Seq(Names) : {s[n] : n \in DOMAIN s} \subseteq Names
  OBVIOUS
<1>4. \A at \in DOMAIN disk : Includes(at) \subseteq Names
  BY <1>2, <1>3 DEF Includes
<1>5. \A at \in Locations : at[2] \in Names /\ at # NoWhere
  BY DEF Locations, NoWhere
<1>6. ASSUME NEW name, Find(name) # NoWhere
      PROVE  Find(name) \in DOMAIN disk /\ Find(name)[2] = name
  <2>1. CASE Holding(name) # {}
    <3> DEFINE d == CHOOSE n \in Holding(name) : \A m \in Holding(name) : n <= m
    <3>1. Find(name) = <<paths[d], name>>
      BY <2>1 DEF Find
    <3>2. d \in Holding(name)
      <4>1. Holding(name) \subseteq Nat
        BY DEF Holding
      <4> QED BY <2>1, <4>1, Least
    <3> QED BY <3>1, <3>2 DEF Holding
  <2>2. CASE Holding(name) = {}
    BY <1>6, <2>2 DEF Find
  <2> QED BY <2>1, <2>2
<1> QED BY <1>1, <1>2, <1>4, <1>5, <1>6

(* The texts that can be found by a name other than the script's: no more  *)
(* than there are names. *)
LEMMA ReachableFinite ==
    ASSUME NEW script, script[2] \in Names
    PROVE  LET U == {script} \cup {Find(name) : name \in Names \ {script[2]}}
           IN IsFiniteSet(U) /\ Cardinality(U) <= Cardinality(Names)
              /\ Cardinality(U) \in Nat /\ Cardinality(Names) \in Nat
<1> DEFINE A == Names \ {script[2]}
           B == {Find(name) : name \in A}
           f == [name \in A |-> Find(name)]
<1>1. IsFiniteSet(Names)
  BY CompilerAssumption
<1>2. IsFiniteSet(A) /\ Cardinality(A) = Cardinality(Names) - 1 /\ Cardinality(Names) \in Nat
      /\ Cardinality(A) \in Nat
  <2>1. IsFiniteSet(A) /\ Cardinality(A) = Cardinality(Names) - 1
    BY <1>1, FS_RemoveElement
  <2> HIDE DEF A
  <2> QED BY <1>1, <2>1, FS_CardinalityType
<1>3. f \in Surjection(A, B)
  BY DEF Surjection
<1>4. IsFiniteSet(B) /\ Cardinality(B) <= Cardinality(A) /\ Cardinality(B) \in Nat
  <2> HIDE DEF A, B, f
  <2>1. IsFiniteSet(B) /\ Cardinality(B) <= Cardinality(A)
    BY <1>2, <1>3, FS_Surjection
  <2> QED BY <2>1, FS_CardinalityType
<1> HIDE DEF A, B
<1>5. /\ IsFiniteSet(B \cup {script})
      /\ Cardinality(B \cup {script}) = IF script \in B THEN Cardinality(B) ELSE Cardinality(B) + 1
  BY <1>4, FS_AddElement
<1>6. {script} \cup B = B \cup {script}
  OBVIOUS
<1>7. /\ IsFiniteSet({script} \cup B) /\ Cardinality({script} \cup B) <= Cardinality(Names)
      /\ Cardinality({script} \cup B) \in Nat
  <2>1. Cardinality(B \cup {script}) <= Cardinality(B) + 1 /\ Cardinality(B \cup {script}) \in Nat
    BY <1>4, <1>5
  <2>2. Cardinality(B \cup {script}) <= Cardinality(Names)
    BY <1>2, <1>4, <2>1
  <2> QED BY <1>5, <1>6, <2>1, <2>2
<1> QED BY <1>2, <1>7 DEF A, B

LEMMA ClosureFacts ==
    ASSUME NEW script, script \in DOMAIN disk, disk \in Installations, \E S : paths \in Seq(S)
    PROVE  /\ script \in Closure(script) /\ Closed(Closure(script), script)
           /\ \A T : script \in T /\ Closed(T, script) => Closure(script) \subseteq T
<1> DEFINE K == Cardinality(Names)
           U == {script} \cup {Find(name) : name \in Names \ {script[2]}}
           w == CHOOSE s : Widening(script, K, s)
<1>1. script[2] \in Names
  BY TextFacts
<1>2. K \in Nat /\ IsFiniteSet(U) /\ Cardinality(U) <= K /\ Cardinality(U) \in Nat
  BY <1>1, ReachableFinite
<1>3. Widening(script, K, w)
  BY <1>2, WideningExists
<1>4. Closure(script) = w[K]
  BY DEF Closure, Widening
<1>5. Closed(U, script)
  BY TextFacts DEF Closed
<1> HIDE DEF K, U, w
<1>6. w[0] = {script} /\ \A n \in 1 .. K : w[n] = Wider(w[n - 1], script)
  <2>1. w = [n \in 0 .. K |-> IF n = 0 THEN {script} ELSE Wider(w[n - 1], script)]
    BY <1>3 DEF Widening
  <2>2. \A n \in 0 .. K : w[n] = IF n = 0 THEN {script} ELSE Wider(w[n - 1], script)
    BY <2>1, Zenon
  <2>3. 0 \in 0 .. K /\ \A n \in 1 .. K : n \in 0 .. K /\ n # 0
    BY <1>2
  <2> QED BY <2>2, <2>3
<1>7. ASSUME NEW T, script \in T, Closed(T, script)
      PROVE  \A n \in 0 .. K : w[n] \subseteq T
  <2> DEFINE Beyond == {n \in 0 .. K : ~(w[n] \subseteq T)}
  <2>1. ASSUME Beyond # {} PROVE FALSE
    <3>1. PICK n \in Beyond : \A m \in Beyond : n <= m
      <4>1. Beyond \subseteq Nat
        BY <1>2
      <4> HIDE DEF Beyond
      <4> QED BY <2>1, <4>1, Least
    <3>2. n \in 0 .. K /\ ~(w[n] \subseteq T) /\ n # 0
      BY <1>6, <1>7
    <3>3. n \in 1 .. K /\ n - 1 \in 0 .. K /\ n - 1 \notin Beyond
      BY <1>2, <3>1, <3>2
    <3>4. w[n - 1] \subseteq T
      BY <3>3
    <3>5. Wider(w[n - 1], script) \subseteq T
      BY <1>7, <3>4, WiderFacts
    <3> QED BY <1>6, <3>2, <3>3, <3>5
  <2> QED BY <2>1
<1>8. script \in w[K]
  <2> DEFINE Without == {n \in 0 .. K : script \notin w[n]}
  <2>1. ASSUME Without # {} PROVE FALSE
    <3>1. PICK n \in Without : \A m \in Without : n <= m
      <4>1. Without \subseteq Nat
        BY <1>2
      <4> HIDE DEF Without
      <4> QED BY <2>1, <4>1, Least
    <3>2. n \in 0 .. K /\ script \notin w[n] /\ n # 0
      BY <1>6
    <3>3. n \in 1 .. K /\ n - 1 \in 0 .. K /\ n - 1 \notin Without
      BY <1>2, <3>1, <3>2
    <3> QED BY <1>6, <3>2, <3>3, WiderFacts
  <2> QED BY <1>2, <2>1
<1>9. \A n \in 0 .. K : w[n] \subseteq U
  BY <1>5, <1>7 DEF U
(* It stops growing: otherwise there would be more texts than names. *)
<1>10. \E n \in 1 .. K : w[n] = w[n - 1]
  <2> SUFFICES ASSUME \A n \in 1 .. K : w[n] # w[n - 1] PROVE FALSE
    OBVIOUS
  <2> DEFINE Few == {n \in 0 .. K : ~(IsFiniteSet(w[n]) /\ Cardinality(w[n]) >= n + 1)}
  <2>1. ASSUME Few # {} PROVE FALSE
    <3>1. PICK n \in Few : \A m \in Few : n <= m
      <4>1. Few \subseteq Nat
        BY <1>2
      <4> HIDE DEF Few
      <4> QED BY <2>1, <4>1, Least
    <3>2. IsFiniteSet({script}) /\ Cardinality({script}) = 1
      BY FS_Singleton
    <3>3. n # 0 /\ n \in 0 .. K
      <4>1. IsFiniteSet(w[0]) /\ Cardinality(w[0]) = 1
        BY <1>6, <3>2
      <4>2. IsFiniteSet(w[0]) /\ Cardinality(w[0]) >= 0 + 1
        BY <4>1
      <4>3. n \in 0 .. K /\ ~(IsFiniteSet(w[n]) /\ Cardinality(w[n]) >= n + 1)
        OBVIOUS
      <4> QED BY <4>2, <4>3
    <3>4. n \in 1 .. K /\ n - 1 \in 0 .. K /\ n - 1 \notin Few
      BY <1>2, <3>1, <3>3
    <3>5. Cardinality(w[n - 1]) >= n /\ IsFiniteSet(w[n - 1])
      BY <3>4
    <3>6. w[n - 1] \subseteq w[n] /\ w[n] # w[n - 1]
      BY <1>6, <3>4, WiderFacts
    <3>7. IsFiniteSet(w[n])
      BY <1>2, <1>9, <3>3, FS_Subset
    <3>8. Cardinality(w[n - 1]) <= Cardinality(w[n]) /\ Cardinality(w[n - 1]) # Cardinality(w[n])
      BY <3>6, <3>7, FS_Subset
    <3>9. Cardinality(w[n - 1]) \in Nat /\ Cardinality(w[n]) \in Nat
      BY <3>5, <3>7, FS_CardinalityType
    <3>10. Cardinality(w[n]) >= n + 1
      BY <3>4, <3>5, <3>8, <3>9
    <3> QED BY <3>7, <3>10
  <2>2. K \in 0 .. K
    BY <1>2
  <2>3. Cardinality(w[K]) >= K + 1 /\ IsFiniteSet(w[K])
    BY <2>1, <2>2
  <2>4. Cardinality(w[K]) <= Cardinality(U)
    BY <1>2, <1>9, <2>2, FS_Subset
  <2>5. Cardinality(w[K]) \in Nat
    BY <2>3, FS_CardinalityType
  <2> QED BY <1>2, <2>3, <2>4, <2>5
<1>11. Wider(w[K], script) = w[K]
  <2>1. PICK n \in 1 .. K : w[n] = w[n - 1]
    BY <1>10
  <2>2. Wider(w[n], script) = w[n]
    BY <1>6, <2>1
  <2> DEFINE Other == {m \in n .. K : w[m] # w[n]}
  <2>3. ASSUME Other # {} PROVE FALSE
    <3>1. PICK m \in Other : \A k \in Other : m <= k
      <4>1. Other \subseteq Nat
        BY <1>2, <2>1
      <4> HIDE DEF Other
      <4> QED BY <2>3, <4>1, Least
    <3>2. m # n /\ m \in n .. K /\ w[m] # w[n]
      OBVIOUS
    <3>3. m \in 1 .. K /\ m - 1 \in n .. K /\ m - 1 \notin Other
      BY <1>2, <2>1, <3>1, <3>2
    <3>4. w[m - 1] = w[n]
      BY <3>3
    <3> QED BY <1>6, <2>2, <3>2, <3>3, <3>4
  <2>4. K \in n .. K
    BY <1>2, <2>1
  <2> QED BY <2>2, <2>3, <2>4
<1>12. Closed(w[K], script)
  BY <1>11, WiderFacts
<1>13. K \in 0 .. K
  BY <1>2
<1> QED BY <1>4, <1>7, <1>8, <1>12, <1>13

-----------------------------------------------------------------------------
(* A text on the stack of streams, and one that still has a name to        *)
(* include. *)
Frame == [at : Locations, rest : Seq(Names)]
OnStack(stack, at) == \E k \in 1 .. Len(stack) : stack[k].at = at
Pending(stack, at, name) ==
    \E k \in 1 .. Len(stack) : /\ stack[k].at = at
                               /\ \E n \in 1 .. Len(stack[k].rest) : stack[k].rest[n] = name

(* What is open has been parsed in part, and includes what its text does. *)
Open(stack, seen) ==
    /\ stack \in Seq(Frame)
    /\ \A k \in 1 .. Len(stack) :
         /\ stack[k].at \in seen
         /\ \A n \in 1 .. Len(stack[k].rest) : stack[k].rest[n] \in Includes(stack[k].at)

Sound(at) == disk[at].fault \notin {"syntax", "semantic"}

(* Where a parse is: what was read is reached by the script, and without   *)
(* an error what it includes has been read or is still to be. *)
ParseAt(script, stack, named, seen, failed, entry) ==
    /\ script \in seen /\ seen \subseteq Closure(script) /\ seen \subseteq DOMAIN disk
    /\ script[2] \in named
    /\ \A name \in named : name = script[2] \/ Find(name) \in seen
    /\ Open(stack, seen)
    /\ failed \in BOOLEAN /\ entry \in BOOLEAN
    /\ ~failed => \A at \in seen : \A name \in Includes(at) :
                    name \in named \/ Pending(stack, at, name)
    /\ ~failed => \A at \in seen :
                    (Sound(at) /\ (disk[at].main => entry)) \/ OnStack(stack, at)
    /\ failed => Broken(Closure(script))
    /\ entry => \E at \in Closure(script) : disk[at].main

ParseInv(script) == ParseAt(script, streams, files, texts, errors, hasMain)

JobInv(j) ==
    /\ stage \in {"idle", "initialize", "begin", "phase1", "phase2", "done"}
    /\ stage # "idle" => j.script \in DOMAIN disk
    /\ stage \in {"begin", "phase1", "phase2"} => initialized
    /\ stage \in {"phase1", "phase2"} => ParseInv(j.script)
    /\ stage = "phase2" => ~j.ignore \/ hasMain
    /\ stage = "done" => /\ result = Alone(j.script, j.ignore)
                         /\ result = "Success" => code = Closure(j.script)

Settled ==
    /\ disk \in Installations /\ \E S : paths \in Seq(S)
    /\ \A name \in DOMAIN cache : cache[name] = Find(name) /\ Find(name) # NoWhere
    /\ initialized \in BOOLEAN /\ (initialized => ~Broken({Find(NwScript)}))

CompilerInv ==
    /\ Settled
    /\ phase = "arguments" => stage = "idle" /\ cache = <<>> /\ initialized = FALSE
    /\ \E j : job = j /\ JobInv(j)

(* Where the disk, the include paths and the archives stay, so does what   *)
(* is found on them. *)
SameFiles == disk' = disk /\ paths' = paths /\ loaded' = loaded

LEMMA SameFound ==
    ASSUME SameFiles
    PROVE  \A name : Find(name)' = Find(name)
BY DEF SameFiles, Find, Holding

LEMMA SameWider ==
    ASSUME SameFiles, NEW S, NEW script
    PROVE  Wider(S, script)' = Wider(S, script)
BY DEF SameFiles, Wider, Find, Holding

LEMMA SameClosure ==
    ASSUME SameFiles, NEW script
    PROVE  Closure(script)' = Closure(script)
BY DEF SameFiles, Closure, Wider, Find, Holding

LEMMA SameBroken ==
    ASSUME SameFiles, NEW S
    PROVE  Broken(S)' <=> Broken(S)
BY DEF SameFiles, Broken

LEMMA SameAlone ==
    ASSUME SameFiles, NEW script, NEW ignore
    PROVE  Alone(script, ignore)' = Alone(script, ignore)
BY DEF SameFiles, Alone, Closure, Broken, Wider, Find, Holding

LEMMA SameParse ==
    ASSUME SameFiles, NEW script, ParseAt(script, streams', files', texts', errors', hasMain')
    PROVE  ParseInv(script)'
<1>1. /\ Closure(script)' = Closure(script) /\ \A name : Find(name)' = Find(name)
      /\ Broken(Closure(script))' <=> Broken(Closure(script))
  <2>1. Closure(script)' = Closure(script) /\ disk' = disk
    BY SameClosure DEF SameFiles
  <2>2. Broken(Closure(script))' <=> Broken(Closure(script))
    BY <2>1 DEF Broken
  <2> QED BY <2>1, <2>2, SameFound
<1>2. (\A at : Includes(at)' = Includes(at)) /\ (\A at : Sound(at)' <=> Sound(at)) /\ disk' = disk
  BY DEF SameFiles, Includes, Sound
<1>3. Open(streams, texts)'
  BY <1>2 DEF ParseAt, Open
<1>4. /\ ~errors' => \A at \in texts' : \A name \in Includes(at)' :
                    name \in files' \/ Pending(streams', at, name)
      /\ ~errors' => \A at \in texts' :
                    (Sound(at)' /\ (disk'[at].main => hasMain')) \/ OnStack(streams', at)
  BY <1>2 DEF ParseAt
<1> QED BY <1>1, <1>2, <1>3, <1>4 DEF ParseAt, ParseInv

(* A parse from the start. *)
LEMMA Starts ==
    ASSUME Settled, NEW script \in DOMAIN disk, NEW entry \in BOOLEAN,
           entry => \E at \in Closure(script) : disk[at].main
    PROVE  ParseAt(script, <<Stream(script)>>, {script[2]}, {script}, FALSE, entry)
<1>1. disk \in Installations /\ \E S : paths \in Seq(S)
  BY DEF Settled
<1>2. script \in Closure(script)
  BY <1>1, ClosureFacts
<1> DEFINE s == <<Stream(script)>>
           incs == disk[script].includes
<1>3. incs \in Seq(Names) /\ script \in Locations
  BY <1>1, TextFacts
<1>4. Stream(script) \in Frame /\ Stream(script).at = script /\ Stream(script).rest = incs
  BY <1>3 DEF Stream, Frame
<1>5. s \in Seq(Frame) /\ Len(s) = 1 /\ s[1] = Stream(script)
  BY <1>4
<1>6. Includes(script) = {incs[n] : n \in 1 .. Len(incs)}
  BY <1>3 DEF Includes
<1> HIDE DEF s, incs
<1>7. s[1].at = script /\ s[1].rest = incs /\ 1 \in 1 .. Len(s) /\ \A k \in 1 .. Len(s) : k = 1
  BY <1>4, <1>5
<1>8. Open(s, {script})
  BY <1>5, <1>6, <1>7 DEF Open
<1>9. \A name \in Includes(script) : Pending(s, script, name)
  BY <1>6, <1>7 DEF Pending
<1>10. OnStack(s, script)
  BY <1>7 DEF OnStack
<1> QED BY <1>2, <1>8, <1>9, <1>10 DEF ParseAt, s

(* A parse that has ended well has read all that the script reaches. *)
LEMMA Ends ==
    ASSUME Settled, NEW script \in DOMAIN disk, NEW named, NEW seen, NEW entry,
           ParseAt(script, <<>>, named, seen, FALSE, entry)
    PROVE  /\ seen = Closure(script) /\ ~Broken(Closure(script))
           /\ entry <=> \E at \in Closure(script) : disk[at].main
<1>1. disk \in Installations /\ \E S : paths \in Seq(S)
  BY DEF Settled
<1>2. /\ script \in seen /\ seen \subseteq Closure(script) /\ seen \subseteq DOMAIN disk
      /\ \A name \in named : name = script[2] \/ Find(name) \in seen
      /\ \A at \in seen : \A name \in Includes(at) : name \in named
      /\ \A at \in seen : Sound(at) /\ (disk[at].main => entry)
      /\ entry => \E at \in Closure(script) : disk[at].main
  <2>1. \A at, name : ~Pending(<<>>, at, name) /\ ~OnStack(<<>>, at)
    BY DEF Pending, OnStack
  <2> QED BY <2>1 DEF ParseAt
<1>3. Closed(seen, script)
  BY <1>2 DEF Closed
<1>4. seen = Closure(script)
  BY <1>1, <1>2, <1>3, ClosureFacts
<1>5. NoWhere \notin seen
  BY <1>1, <1>2, TextFacts
<1>6. ~Broken(seen)
  BY <1>2, <1>5 DEF Broken, Sound
<1> QED BY <1>2, <1>4, <1>6

(* The stack without its top. *)
LEMMA StackTop ==
    ASSUME NEW stack \in Seq(Frame), stack # <<>>
    PROVE  LET N == Len(stack)
               p == SubSeq(stack, 1, N - 1)
           IN /\ N \in Nat /\ N \in 1 .. N /\ stack[N] \in Frame
              /\ p \in Seq(Frame) /\ Len(p) = N - 1
              /\ \A k \in 1 .. N - 1 : k \in 1 .. N /\ p[k] = stack[k]
              /\ \A k \in 1 .. N : k = N \/ k \in 1 .. N - 1
<1> DEFINE N == Len(stack)
           p == SubSeq(stack, 1, N - 1)
<1>1. N \in Nat \ {0}
  BY EmptySeq
<1>2. p \in Seq(Frame) /\ Len(p) = N - 1 /\ \A k \in 1 .. N - 1 : p[k] = stack[k]
  <2>1. PICK m \in Nat : m = N - 1 /\ m <= Len(stack)
    <3>1. N - 1 \in Nat /\ N - 1 <= N
      BY <1>1
    <3> QED BY <3>1
  <2>2. SubSeq(stack, 1, m) \in Seq(Frame) /\ Len(SubSeq(stack, 1, m)) = m
        /\ \A k \in 1 .. m : SubSeq(stack, 1, m)[k] = stack[k]
    BY <2>1
  <2> HIDE DEF N
  <2> QED BY <2>1, <2>2
<1>3. stack[N] \in Frame
  BY <1>1
<1> HIDE DEF N, p
<1>4. N \in 1 .. N /\ (\A k \in 1 .. N - 1 : k \in 1 .. N) /\ \A k \in 1 .. N : k = N \/ k \in 1 .. N - 1
  BY <1>1
<1> QED BY <1>1, <1>2, <1>3, <1>4 DEF N, p

LEMMA StackPush ==
    ASSUME NEW stack \in Seq(Frame), NEW e \in Frame
    PROVE  LET N == Len(stack)
               s == Append(stack, e)
           IN /\ N \in Nat /\ s \in Seq(Frame) /\ Len(s) = N + 1
              /\ (\A k \in 1 .. N : k \in 1 .. N + 1 /\ s[k] = stack[k]) /\ s[N + 1] = e
              /\ N + 1 \in 1 .. N + 1 /\ \A k \in 1 .. N + 1 : k = N + 1 \/ k \in 1 .. N
OBVIOUS

(* The end of a text. *)
LEMMA Pops ==
    ASSUME NEW script, NEW stack, NEW named, NEW seen, NEW failed, NEW entry,
           NEW failed2 \in BOOLEAN, NEW entry2 \in BOOLEAN,
           Settled, ParseAt(script, stack, named, seen, failed, entry),
           stack # <<>>, stack[Len(stack)].rest = <<>>,
           failed2 <=> (failed \/ ~Sound(stack[Len(stack)].at)),
           entry2 <=> (entry \/ disk[stack[Len(stack)].at].main)
    PROVE  /\ stack[Len(stack)].at \in DOMAIN disk
           /\ ParseAt(script, SubSeq(stack, 1, Len(stack) - 1), named, seen, failed2, entry2)
           /\ failed2 => ParseAt(script, <<>>, named, seen, failed2, entry2)
<1> DEFINE N == Len(stack)
           p == SubSeq(stack, 1, N - 1)
           at == stack[N].at
<1>1. Open(stack, seen) /\ stack \in Seq(Frame)
  BY DEF ParseAt, Open
<1>2. /\ N \in Nat /\ N \in 1 .. N
      /\ p \in Seq(Frame) /\ Len(p) = N - 1
      /\ \A k \in 1 .. N - 1 : k \in 1 .. N /\ p[k] = stack[k]
      /\ \A k \in 1 .. N : k = N \/ k \in 1 .. N - 1
  BY <1>1, StackTop
<1> HIDE DEF N, p
<1>3. at \in seen /\ at \in Closure(script) /\ at \in DOMAIN disk
  BY <1>1, <1>2 DEF Open, N, ParseAt
<1>4. Open(p, seen) /\ Open(<<>>, seen)
  <2>1. <<>> \in Seq(Frame) /\ Len(<<>>) = 0
    OBVIOUS
  <2>2. Open(<<>>, seen)
    BY <2>1 DEF Open
  <2>3. ASSUME NEW k \in 1 .. N - 1
        PROVE  p[k].at \in seen /\ \A n \in 1 .. Len(p[k].rest) : p[k].rest[n] \in Includes(p[k].at)
    <3>1. k \in 1 .. Len(stack) /\ p[k] = stack[k]
      BY <1>2, <2>3 DEF N
    <3> QED BY <1>1, <3>1, Zenon DEF Open
  <2>4. Open(p, seen)
    BY <1>2, <2>3 DEF Open
  <2> QED BY <2>2, <2>4
<1>5. failed2 => Broken(Closure(script))
  BY <1>3 DEF ParseAt, Broken, Sound, N
<1>6. entry2 => \E a \in Closure(script) : disk[a].main
  BY <1>3 DEF ParseAt, N
<1>7. ASSUME ~failed2
      PROVE  /\ \A a \in seen : \A name \in Includes(a) : name \in named \/ Pending(p, a, name)
             /\ \A a \in seen : (Sound(a) /\ (disk[a].main => entry2)) \/ OnStack(p, a)
  <2>1. ~failed /\ Sound(at)
    BY <1>7 DEF N
  <2>2. ASSUME NEW a, NEW name, Pending(stack, a, name) PROVE Pending(p, a, name)
    <3>1. PICK k \in 1 .. N : stack[k].at = a /\ \E n \in 1 .. Len(stack[k].rest) : stack[k].rest[n] = name
      BY <2>2 DEF Pending, N
    <3>2. k # N
      <4>1. Len(stack[N].rest) = 0
        BY DEF N
      <4> QED BY <3>1, <4>1
    <3>3. k \in 1 .. N - 1 /\ p[k] = stack[k]
      BY <1>2, <3>2
    <3> QED BY <1>2, <3>1, <3>3 DEF Pending
  <2>3. ASSUME NEW a, OnStack(stack, a) PROVE OnStack(p, a) \/ a = at
    <3>1. PICK k \in 1 .. N : stack[k].at = a
      BY <2>3 DEF OnStack, N
    <3> QED BY <1>2, <3>1 DEF OnStack
  <2>4. \A a \in seen : \A name \in Includes(a) : name \in named \/ Pending(p, a, name)
    BY <2>1, <2>2 DEF ParseAt
  <2>5. \A a \in seen : (Sound(a) /\ (disk[a].main => entry2)) \/ OnStack(p, a)
    <3>1. entry => entry2 /\ (disk[at].main => entry2)
      BY DEF N
    <3>2. disk[at].main => entry2
      BY DEF N
    <3> HIDE DEF at
    <3> QED BY <2>1, <2>3, <3>1, <3>2 DEF ParseAt
  <2> QED BY <2>4, <2>5
<1>8. ParseAt(script, p, named, seen, failed2, entry2)
  BY <1>4, <1>5, <1>6, <1>7 DEF ParseAt
<1>9. failed2 => ParseAt(script, <<>>, named, seen, failed2, entry2)
  BY <1>4, <1>5, <1>6 DEF ParseAt
<1> QED BY <1>3, <1>8, <1>9 DEF N, p

(* The top of the stack with one include less. *)
Onward(stack) == Append(SubSeq(stack, 1, Len(stack) - 1),
                        [stack[Len(stack)] EXCEPT !.rest = Tail(@)])

LEMMA OnwardFacts ==
    ASSUME NEW stack \in Seq(Frame), stack # <<>>, stack[Len(stack)].rest # <<>>
    PROVE  LET N == Len(stack)
               r == stack[N].rest
               s == Onward(stack)
           IN /\ N \in Nat /\ N \in 1 .. N /\ s \in Seq(Frame) /\ Len(s) = N
              /\ \A k \in 1 .. N : s[k].at = stack[k].at
              /\ \A k \in 1 .. N : k # N => s[k] = stack[k]
              /\ \A n \in 1 .. Len(s[N].rest) : \E m \in 1 .. Len(r) : s[N].rest[n] = r[m]
              /\ \A m \in 1 .. Len(r) : r[m] = Head(r) \/ \E n \in 1 .. Len(s[N].rest) : s[N].rest[n] = r[m]
              /\ \E m \in 1 .. Len(r) : r[m] = Head(r)
<1> DEFINE N == Len(stack)
           p == SubSeq(stack, 1, N - 1)
           top == stack[N]
           e == [top EXCEPT !.rest = Tail(@)]
           s == Onward(stack)
<1>1. /\ N \in Nat /\ N \in 1 .. N /\ top \in Frame
      /\ p \in Seq(Frame) /\ Len(p) = N - 1
      /\ \A k \in 1 .. N - 1 : k \in 1 .. N /\ p[k] = stack[k]
      /\ \A k \in 1 .. N : k = N \/ k \in 1 .. N - 1
  BY StackTop
<1>2. top.rest \in Seq(Names) /\ top.rest # <<>> /\ top.at \in Locations
  BY <1>1 DEF Frame
<1>3. e = [at |-> top.at, rest |-> Tail(top.rest)]
  <2>1. ASSUME NEW f \in Frame PROVE [f EXCEPT !.rest = Tail(@)] = [at |-> f.at, rest |-> Tail(f.rest)]
    <3>1. PICK a \in Locations, rs \in Seq(Names) : f = [at |-> a, rest |-> rs]
      BY DEF Frame
    <3>2. \A t : [[at |-> a, rest |-> rs] EXCEPT !.rest = t] = [at |-> a, rest |-> t]
      OBVIOUS
    <3>3. f.at = a /\ f.rest = rs
      BY <3>1
    <3>4. [f EXCEPT !.rest = Tail(@)] = [f EXCEPT !.rest = Tail(f.rest)]
      OBVIOUS
    <3>5. [f EXCEPT !.rest = Tail(f.rest)] = [at |-> a, rest |-> Tail(f.rest)]
      BY <3>1, <3>2, Zenon
    <3> QED BY <3>3, <3>4, <3>5, Zenon
  <2> HIDE DEF top
  <2> QED BY <1>1, <2>1, Zenon
<1>4. s = Append(p, e)
  BY DEF Onward
<1> DEFINE r == top.rest
<1> HIDE DEF N, p, e, s, top
<1>5. Tail(r) \in Seq(Names) /\ Len(r) \in Nat /\ Len(r) > 0 /\ Len(Tail(r)) = Len(r) - 1
      /\ Head(r) = r[1] /\ \A n \in 1 .. Len(r) - 1 : Tail(r)[n] = r[n + 1]
  BY <1>2
<1>6. e \in Frame /\ e.at = top.at /\ e.rest = Tail(r)
  BY <1>2, <1>3, <1>5 DEF Frame
<1>7. /\ N - 1 \in Nat /\ s \in Seq(Frame) /\ Len(s) = N - 1 + 1
      /\ (\A k \in 1 .. N - 1 : s[k] = p[k]) /\ s[N - 1 + 1] = e
  BY <1>1, <1>4, <1>6, StackPush
<1>8. N - 1 + 1 = N
  BY <1>1
<1>9. Len(s) = N /\ s[N] = e /\ \A k \in 1 .. N : k # N => s[k] = stack[k]
  BY <1>1, <1>7, <1>8
<1>10. \A k \in 1 .. N : s[k].at = stack[k].at
  BY <1>6, <1>9 DEF top
<1>11. s[N].rest = Tail(r)
  BY <1>6, <1>9
<1>12. \A n \in 1 .. Len(s[N].rest) : \E m \in 1 .. Len(r) : s[N].rest[n] = r[m]
  <2>1. \A n \in 1 .. Len(r) - 1 : n + 1 \in 1 .. Len(r)
    BY <1>5
  <2> QED BY <1>5, <1>11, <2>1
<1>13. \A m \in 1 .. Len(r) : r[m] = Head(r) \/ \E n \in 1 .. Len(s[N].rest) : s[N].rest[n] = r[m]
  <2> SUFFICES ASSUME NEW m \in 1 .. Len(r), m # 1
               PROVE  \E n \in 1 .. Len(Tail(r)) : Tail(r)[n] = r[m]
    BY <1>5, <1>11
  <2>1. m - 1 \in 1 .. Len(r) - 1 /\ m - 1 + 1 = m
    BY <1>5
  <2>2. Tail(r)[m - 1] = r[m]
    BY <1>5, <2>1
  <2> QED BY <1>5, <2>1, <2>2
<1>14. 1 \in 1 .. Len(r)
  BY <1>5
<1> QED BY <1>1, <1>5, <1>7, <1>9, <1>10, <1>12, <1>13, <1>14 DEF N, s, top

(* A name that has been read already. *)
LEMMA Skips ==
    ASSUME NEW script, NEW stack, NEW named, NEW seen, NEW failed, NEW entry,
           ParseAt(script, stack, named, seen, failed, entry),
           stack # <<>>, stack[Len(stack)].rest # <<>>
    PROVE  /\ Open(Onward(stack), seen)
           /\ \A at : OnStack(stack, at) => OnStack(Onward(stack), at)
           /\ \A at, name : Pending(stack, at, name) =>
                name = Head(stack[Len(stack)].rest) \/ Pending(Onward(stack), at, name)
           /\ Head(stack[Len(stack)].rest) \in Includes(stack[Len(stack)].at)
           /\ stack[Len(stack)].at \in seen
           /\ Head(stack[Len(stack)].rest) \in named =>
                ParseAt(script, Onward(stack), named, seen, failed, entry)
<1> DEFINE N == Len(stack)
           r == stack[N].rest
           s == Onward(stack)
<1>1. Open(stack, seen) /\ stack \in Seq(Frame)
  BY DEF ParseAt, Open
<1>2. /\ N \in Nat /\ N \in 1 .. N /\ s \in Seq(Frame) /\ Len(s) = N
      /\ \A k \in 1 .. N : s[k].at = stack[k].at
      /\ \A k \in 1 .. N : k # N => s[k] = stack[k]
      /\ \A n \in 1 .. Len(s[N].rest) : \E m \in 1 .. Len(r) : s[N].rest[n] = r[m]
      /\ \A m \in 1 .. Len(r) : r[m] = Head(r) \/ \E n \in 1 .. Len(s[N].rest) : s[N].rest[n] = r[m]
      /\ \E m \in 1 .. Len(r) : r[m] = Head(r)
  BY <1>1, OnwardFacts
<1> HIDE DEF N, r, s
<1>3. /\ \A k \in 1 .. N : stack[k].at \in seen
      /\ \A k \in 1 .. N : \A n \in 1 .. Len(stack[k].rest) : stack[k].rest[n] \in Includes(stack[k].at)
  BY <1>1 DEF Open, N
<1>4. ASSUME NEW k \in 1 .. N, NEW n \in 1 .. Len(s[k].rest)
      PROVE  s[k].rest[n] \in Includes(s[k].at)
  <2>1. CASE k = N
    BY <1>2, <1>3, <1>4, <2>1 DEF r
  <2>2. CASE k # N
    BY <1>2, <1>3, <1>4, <2>2
  <2> QED BY <2>1, <2>2
<1>5. Open(s, seen)
  BY <1>2, <1>3, <1>4 DEF Open
<1>6. \A at : OnStack(stack, at) => OnStack(s, at)
  BY <1>2 DEF OnStack, N
<1>7. ASSUME NEW at, NEW name, Pending(stack, at, name), name # Head(r)
      PROVE  Pending(s, at, name)
  <2>1. PICK k \in 1 .. N : stack[k].at = at /\ \E n \in 1 .. Len(stack[k].rest) : stack[k].rest[n] = name
    BY <1>7 DEF Pending, N
  <2>2. s[k].at = at
    BY <1>2, <2>1
  <2>3. \E n \in 1 .. Len(s[k].rest) : s[k].rest[n] = name
    <3>1. CASE k = N
      <4>1. PICK n \in 1 .. Len(r) : r[n] = name
        BY <2>1, <3>1 DEF r
      <4> QED BY <1>2, <1>7, <3>1, <4>1
    <3>2. CASE k # N
      BY <1>2, <2>1, <3>2
    <3> QED BY <3>1, <3>2
  <2> QED BY <1>2, <2>2, <2>3 DEF Pending
<1>8. Head(r) \in Includes(stack[N].at) /\ stack[N].at \in seen
  BY <1>2, <1>3 DEF r
<1>9. Head(r) \in named => ParseAt(script, s, named, seen, failed, entry)
  BY <1>5, <1>6, <1>7 DEF ParseAt
<1> QED BY <1>5, <1>6, <1>7, <1>8, <1>9 DEF N, r, s

(* A name that has not been read: its text is opened, or missing. *)
LEMMA Enters ==
    ASSUME NEW script \in DOMAIN disk, NEW stack, NEW named, NEW seen, NEW failed, NEW entry,
           Settled, ParseAt(script, stack, named, seen, failed, entry),
           stack # <<>>, stack[Len(stack)].rest # <<>>,
           NEW name, name = Head(stack[Len(stack)].rest), name \notin named
    PROVE  /\ Find(name) # NoWhere =>
                ParseAt(script, Append(Onward(stack), Stream(Find(name))), named \cup {name},
                        seen \cup {Find(name)}, failed, entry)
           /\ Find(name) = NoWhere => ParseAt(script, <<>>, named, seen, TRUE, entry)
<1> DEFINE s == Onward(stack)
           found == Find(name)
           t == Append(s, Stream(found))
           all == Closure(script)
<1>1. disk \in Installations /\ \E S : paths \in Seq(S)
  BY DEF Settled
<1>2. Open(stack, seen) /\ stack \in Seq(Frame)
  BY DEF ParseAt, Open
<1>3. /\ Open(s, seen) /\ s \in Seq(Frame)
      /\ \A at : OnStack(stack, at) => OnStack(s, at)
      /\ \A at, x : Pending(stack, at, x) => x = name \/ Pending(s, at, x)
      /\ name \in Includes(stack[Len(stack)].at) /\ stack[Len(stack)].at \in seen
  BY <1>2, Skips, OnwardFacts
<1>4. found \in all
  <2>1. stack[Len(stack)].at \in all \ {NoWhere}
    <3>1. stack[Len(stack)].at \in all /\ stack[Len(stack)].at \in DOMAIN disk
      BY <1>3 DEF ParseAt
    <3> QED BY <1>1, <3>1, TextFacts
  <2>2. name # script[2]
    BY DEF ParseAt
  <2>3. Closed(all, script)
    BY <1>1, ClosureFacts
  <2> QED BY <1>3, <2>1, <2>2, <2>3 DEF Closed
<1>5. CASE found = NoWhere
  <2>1. Broken(all)
    BY <1>4, <1>5 DEF Broken
  <2>2. Open(<<>>, seen)
    <3>1. <<>> \in Seq(Frame) /\ Len(<<>>) = 0
      OBVIOUS
    <3> QED BY <3>1 DEF Open
  <2> QED BY <1>5, <2>1, <2>2 DEF ParseAt
<1>6. CASE found # NoWhere
  <2> DEFINE incs == disk[found].includes
             e == Stream(found)
  <2>1. found \in DOMAIN disk /\ found \in Locations /\ incs \in Seq(Names)
    BY <1>1, <1>6, TextFacts
  <2>2. e \in Frame /\ e.at = found /\ e.rest = incs
    BY <2>1 DEF Stream, Frame
  <2>3. Includes(found) = {incs[n] : n \in 1 .. Len(incs)}
    BY <2>1 DEF Includes
  <2> HIDE DEF incs, e
  <2>4. /\ Len(s) \in Nat /\ t \in Seq(Frame) /\ Len(t) = Len(s) + 1
        /\ (\A k \in 1 .. Len(s) : k \in 1 .. Len(s) + 1 /\ t[k] = s[k]) /\ t[Len(s) + 1] = e
        /\ Len(s) + 1 \in 1 .. Len(s) + 1 /\ \A k \in 1 .. Len(s) + 1 : k = Len(s) + 1 \/ k \in 1 .. Len(s)
    <3> HIDE DEF s
    <3> QED BY <1>3, <2>2, StackPush DEF e
  <2> HIDE DEF s, t, found, all
  <2>5. Open(t, seen \cup {found})
    <3>1. ASSUME NEW k \in 1 .. Len(s) + 1
          PROVE  /\ t[k].at \in seen \cup {found}
                 /\ \A n \in 1 .. Len(t[k].rest) : t[k].rest[n] \in Includes(t[k].at)
      <4>1. CASE k = Len(s) + 1
        BY <2>2, <2>3, <2>4, <4>1
      <4>2. CASE k # Len(s) + 1
        <5>1. k \in 1 .. Len(s) /\ t[k] = s[k]
          BY <2>4, <4>2
        <5>2. s[k].at \in seen /\ \A n \in 1 .. Len(s[k].rest) : s[k].rest[n] \in Includes(s[k].at)
          BY <1>3, <5>1 DEF Open
        <5> QED BY <5>1, <5>2
      <4> QED BY <4>1, <4>2
    <3> QED BY <2>4, <3>1 DEF Open
  <2>6. \A at : OnStack(s, at) => OnStack(t, at)
    BY <2>4, Zenon DEF OnStack
  <2>7. \A at, x : Pending(s, at, x) => Pending(t, at, x)
    BY <2>4, Zenon DEF Pending
  <2>8. OnStack(t, found)
    BY <2>2, <2>4 DEF OnStack
  <2>9. ASSUME NEW x \in Includes(found) PROVE Pending(t, found, x)
    <3>1. PICK n \in 1 .. Len(incs) : incs[n] = x
      BY <2>3, <2>9
    <3> QED BY <2>2, <2>4, <3>1 DEF Pending
  <2>10. ASSUME ~failed
         PROVE  /\ \A at \in seen \cup {found} : \A x \in Includes(at) :
                     x \in named \cup {name} \/ Pending(t, at, x)
                /\ \A at \in seen \cup {found} :
                     (Sound(at) /\ (disk[at].main => entry)) \/ OnStack(t, at)
    <3>1. /\ \A at \in seen : \A x \in Includes(at) : x \in named \/ Pending(stack, at, x)
          /\ \A at \in seen : (Sound(at) /\ (disk[at].main => entry)) \/ OnStack(stack, at)
      BY <2>10 DEF ParseAt
    <3>2. \A at \in seen : \A x \in Includes(at) : x \in named \cup {name} \/ Pending(t, at, x)
      BY <1>3, <2>7, <3>1
    <3>3. \A at \in seen : (Sound(at) /\ (disk[at].main => entry)) \/ OnStack(t, at)
      BY <1>3, <2>6, <3>1
    <3> QED BY <2>8, <2>9, <3>2, <3>3
  <2>11. \A x \in named \cup {name} : x = script[2] \/ Find(x) \in seen \cup {found}
    BY DEF ParseAt, found
  <2>12. /\ script \in seen \cup {found} /\ seen \cup {found} \subseteq all
         /\ seen \cup {found} \subseteq DOMAIN disk /\ script[2] \in named \cup {name}
    BY <1>4, <2>1 DEF ParseAt, all
  <2>13. /\ failed \in BOOLEAN /\ entry \in BOOLEAN /\ failed => Broken(all)
         /\ entry => \E at \in all : disk[at].main
    BY DEF ParseAt, all
  <2>14. ParseAt(script, t, named \cup {name}, seen \cup {found}, failed, entry)
    BY <2>5, <2>10, <2>11, <2>12, <2>13 DEF ParseAt, all
  <2> QED BY <1>6, <2>14 DEF s, t, found
<1> QED BY <1>5, <1>6

(* The cache is transparent: a name is where it would be found without it. *)
LEMMA CacheIsTransparent ==
    ASSUME Settled
    PROVE  \A name : Location(name) = Find(name)
BY DEF Settled, Location

(* What is loaded may be cached. *)
LEMMA LoadKeeps ==
    ASSUME Settled, SameFiles, NEW name, LoadResource(name),
           initialized' \in BOOLEAN, initialized' => ~Broken({Find(NwScript)})
    PROVE  Settled'
<1>1. \A x : Find(x)' = Find(x)
  BY SameFound
<1>2. \A x \in DOMAIN cache' : cache'[x] = Find(x) /\ Find(x) # NoWhere
  <2>1. CASE cache' = cache
    BY <2>1 DEF Settled
  <2>2. CASE ~(name \in DOMAIN cache \/ Find(name) = NoWhere)
    <3>1. cache' = [n \in DOMAIN cache \cup {name} |-> IF n = name THEN Find(name) ELSE cache[n]]
      BY <2>2 DEF LoadResource
    <3> QED BY <2>2, <3>1 DEF Settled
  <2> QED BY <2>1, <2>2 DEF LoadResource
<1>3. Broken({Find(NwScript)})' <=> Broken({Find(NwScript)})
  <2>1. disk' = disk
    BY DEF SameFiles
  <2> QED BY <1>1, <2>1 DEF Broken
<1> QED BY <1>1, <1>2, <1>3 DEF Settled, SameFiles

LEMMA SettledKeeps ==
    ASSUME Settled, SameFiles, UNCHANGED kept
    PROVE  Settled'
<1>1. \A x : Find(x)' = Find(x)
  BY SameFound
<1>2. Broken({Find(NwScript)})' <=> Broken({Find(NwScript)})
  <2>1. disk' = disk
    BY DEF SameFiles
  <2> QED BY <1>1, <2>1 DEF Broken
<1> QED BY <1>1, <1>2 DEF Settled, SameFiles, kept

(* What a script comes to on its own. *)
LEMMA AloneIs ==
    ASSUME NEW script, NEW ignore
    PROVE  LET all == Closure(script)
               entry == \E at \in all : disk[at].main
           IN /\ Broken({Find(NwScript)}) \/ Broken(all) => Alone(script, ignore) = "Failure"
              /\ ~(Broken({Find(NwScript)}) \/ Broken(all)) =>
                   /\ ignore /\ ~entry => Alone(script, ignore) = "Include"
                   /\ ~(ignore /\ ~entry) =>
                        Alone(script, ignore) =
                          IF \E at \in all : disk[at].fault = "late" THEN "Failure"
                          ELSE IF ~entry THEN "Include" ELSE "Success"
BY DEF Alone

-----------------------------------------------------------------------------
(* The arguments of a compilation stay what they are until it is over. *)
Job(script, deps, ignore, known) ==
    [script |-> script, deps |-> deps, ignore |-> ignore, known |-> known]

Recorded == \E script, deps, ignore, known : job = Job(script, deps, ignore, known)

LEMMA BeginsJob ==
    ASSUME Recorded, BeginCompile
    PROVE  /\ Recorded' /\ job'.known = DOMAIN cache
           /\ job'.script = job.script /\ job'.deps = job.deps /\ job'.ignore = job.ignore
<1>1. PICK script, deps, ignore, known : job = Job(script, deps, ignore, known)
  BY DEF Recorded
<1>2. job' = [job EXCEPT !.known = DOMAIN cache]
  BY DEF BeginCompile
<1>3. \A new : [Job(script, deps, ignore, known) EXCEPT !.known = new] = Job(script, deps, ignore, new)
  BY DEF Job
<1>4. job' = Job(script, deps, ignore, DOMAIN cache)
  BY <1>1, <1>2, <1>3
<1>5. Recorded'
  BY <1>4 DEF Recorded
<1> QED BY <1>1, <1>4, <1>5 DEF Job

LEMMA StaysRecorded == DriverSpec => []Recorded
<1>1. DriverInit => Recorded
  BY DEF DriverInit, CompilerInit, Recorded, Job
<1>2. Recorded /\ [DriverNext]_vars => Recorded'
  <2> SUFFICES ASSUME Recorded, [DriverNext]_vars PROVE Recorded'
    OBVIOUS
  <2>1. CASE job' = job
    BY <2>1 DEF Recorded
  <2>2. CASE BeginCompile
    BY <2>2, BeginsJob
  <2>3. CASE ProcessInputFile
    <3>1. CASE NscCompileScript(Path, "M" \in switches, "c" \notin switches)
      BY <3>1 DEF NscCompileScript, Recorded, Job
    <3>2. CASE NscDisassembleScript \/ UNCHANGED compilerVars
      BY <2>1, <3>2 DEF NscDisassembleScript, compilerVars
    <3> QED BY <2>3, <3>1, <3>2 DEF ProcessInputFile
  <2>4. CASE Compiling
    BY <2>1, <2>2, <2>4 DEF Compiling, CompilerStep, NscCompilerInitialize, Include, EndOfText,
                            EndOfPhase1, EndOfPhase2
  <2>5. CASE ReadArgument \/ EndOfArguments \/ CompileSourceFile
    BY <2>1, <2>5 DEF ReadArgument, EndOfArguments, CompileSourceFile
  <2>6. CASE ProcessWildcardInputFile \/ WriteOutput \/ NextInput \/ Exit
    BY <2>1, <2>6 DEF ProcessWildcardInputFile, WriteOutput, NextInput, Exit, compilerVars
  <2>7. CASE UNCHANGED vars
    BY <2>1, <2>7 DEF vars, compilerVars
  <2> QED BY <2>3, <2>4, <2>5, <2>6, <2>7 DEF DriverNext
<1> QED BY <1>1, <1>2, PTL DEF DriverSpec

LEMMA InitializeKeeps ==
    ASSUME CompilerInv, phase' # "arguments", NscCompilerInitialize
    PROVE  CompilerInv'
<1>1. PICK j : job = j /\ JobInv(j)
  BY DEF CompilerInv
<1>2. /\ stage = "initialize" /\ LoadResource(NwScript) /\ SameFiles /\ job' = j
      /\ LET at == Location(NwScript) IN
         \/ /\ at # NoWhere /\ disk[at].fault \notin {"syntax", "semantic"}
            /\ initialized' = TRUE /\ stage' = "begin"
         \/ /\ ~(at # NoWhere /\ disk[at].fault \notin {"syntax", "semantic"})
            /\ initialized' = initialized /\ stage' = "done" /\ result' = "Failure"
  BY <1>1 DEF NscCompilerInitialize, NwScriptParses, Return, SameFiles
<1>3. Settled /\ j.script \in DOMAIN disk /\ j.script \in DOMAIN disk'
  BY <1>1, <1>2 DEF CompilerInv, JobInv, SameFiles
<1>4. Location(NwScript) = Find(NwScript)
  BY <1>3, CacheIsTransparent
<1> DEFINE nw == Find(NwScript)
<1>5. Broken({nw}) <=> ~(nw # NoWhere /\ disk[nw].fault \notin {"syntax", "semantic"})
  BY DEF Broken
<1> HIDE DEF nw
<1>6. CASE ~Broken({nw})
  <2>1. initialized' = TRUE /\ stage' = "begin"
    BY <1>2, <1>4, <1>5, <1>6 DEF nw
  <2>2. Settled'
    BY <1>2, <1>3, <1>6, <2>1, LoadKeeps DEF nw
  <2>3. JobInv(j)'
    BY <1>3, <2>1 DEF JobInv
  <2> QED BY <1>2, <2>2, <2>3 DEF CompilerInv
<1>7. CASE Broken({nw})
  <2>1. initialized' = initialized /\ stage' = "done" /\ result' = "Failure"
    BY <1>2, <1>4, <1>5, <1>7 DEF nw
  <2>2. Settled'
    BY <1>2, <1>3, <2>1, LoadKeeps DEF Settled
  <2>3. Alone(j.script, j.ignore)' = "Failure"
    BY <1>2, <1>7, AloneIs, SameAlone DEF nw
  <2>4. JobInv(j)'
    BY <1>3, <2>1, <2>3 DEF JobInv
  <2> QED BY <1>2, <2>2, <2>4 DEF CompilerInv
<1> QED BY <1>6, <1>7

LEMMA BeginKeeps ==
    ASSUME CompilerInv, Recorded, phase' # "arguments", BeginCompile
    PROVE  CompilerInv'
<1>1. PICK j : job' = j /\ job.script = j.script /\ JobInv(job)
  BY BeginsJob DEF CompilerInv
<1>2. /\ stage = "begin" /\ stage' = "phase1" /\ SameFiles /\ job' = j /\ UNCHANGED kept
      /\ initialized' = initialized
      /\ streams' = <<Stream(j.script)>> /\ files' = {j.script[2]} /\ texts' = {j.script}
      /\ errors' = FALSE /\ hasMain' = FALSE
  BY <1>1 DEF BeginCompile, AddScript, SameFiles, kept
<1>3. Settled /\ j.script \in DOMAIN disk /\ j.script \in DOMAIN disk' /\ initialized
  BY <1>1, <1>2 DEF CompilerInv, JobInv, SameFiles
<1>4. Settled'
  BY <1>2, <1>3, SettledKeeps
<1>5. PICK no \in BOOLEAN : no = FALSE
  OBVIOUS
<1>6. ParseAt(j.script, <<Stream(j.script)>>, {j.script[2]}, {j.script}, FALSE, no)
  BY <1>3, <1>5, Starts
<1>7. ParseAt(j.script, streams', files', texts', errors', hasMain')
  BY <1>2, <1>5, <1>6
<1>8. ParseInv(j.script)'
  BY <1>2, <1>7, SameParse
<1>9. JobInv(j)'
  BY <1>2, <1>3, <1>8 DEF JobInv
<1> QED BY <1>2, <1>4, <1>9 DEF CompilerInv

(* A step of a parse keeps the job if it keeps the parse. *)
LEMMA ParseKeeps ==
    ASSUME CompilerInv, phase' # "arguments", NEW j, job = j, JobInv(j), SameFiles, Settled',
           stage \in {"phase1", "phase2"}, stage' = stage, job' = job, initialized' = initialized,
           hasMain => hasMain', ParseAt(j.script, streams', files', texts', errors', hasMain')
    PROVE  CompilerInv'
<1>1. ParseInv(j.script)'
  BY SameParse
<1>2. j.script \in DOMAIN disk'
  BY DEF JobInv, SameFiles
<1>3. JobInv(j)'
  BY <1>1, <1>2 DEF JobInv
<1> QED BY <1>3 DEF CompilerInv

LEMMA IncludeKeeps ==
    ASSUME CompilerInv, phase' # "arguments", Include
    PROVE  CompilerInv'
<1>1. PICK j : job = j /\ JobInv(j)
  BY DEF CompilerInv
<1>2. PICK name : name = Head(Top.rest)
  OBVIOUS
<1>3. /\ stage \in {"phase1", "phase2"} /\ stage' = stage /\ SameFiles /\ job' = job
      /\ initialized' = initialized /\ hasMain' = hasMain
      /\ streams # <<>> /\ Top.rest # <<>>
      /\ \/ /\ name \in files /\ streams' = PastLine
            /\ UNCHANGED <<cache, files, texts, errors>>
         \/ /\ name \notin files /\ LoadResource(name)
            /\ \/ /\ Location(name) = NoWhere /\ streams' = <<>> /\ errors' = TRUE
                  /\ UNCHANGED <<files, texts>>
               \/ /\ Location(name) # NoWhere
                  /\ streams' = Append(PastLine, Stream(Location(name)))
                  /\ files' = files \cup {name} /\ texts' = texts \cup {Location(name)}
                  /\ errors' = errors
  BY <1>2 DEF Include, Parsing, SameFiles
<1>4. Settled /\ j.script \in DOMAIN disk /\ ParseInv(j.script)
  BY <1>1, <1>3 DEF CompilerInv, JobInv
<1>5. Location(name) = Find(name)
  BY <1>4, CacheIsTransparent
<1>6. PastLine = Onward(streams) /\ Top = streams[Len(streams)]
  BY DEF PastLine, Onward, Top, Popped
<1>7. ParseAt(j.script, streams, files, texts, errors, hasMain)
  BY <1>4 DEF ParseInv
<1>8. initialized' \in BOOLEAN /\ (initialized' => ~Broken({Find(NwScript)}))
  BY <1>3, <1>4 DEF Settled
<1>9. CASE name \in files
  <2>1. streams' = Onward(streams) /\ UNCHANGED <<cache, files, texts, errors>>
    BY <1>3, <1>6, <1>9
  <2>2. Settled'
    BY <1>3, <1>4, <2>1, SettledKeeps DEF kept
  <2>3. ParseAt(j.script, Onward(streams), files, texts, errors, hasMain)
    BY <1>2, <1>3, <1>6, <1>7, <1>9, Skips
  <2>4. ParseAt(j.script, streams', files', texts', errors', hasMain')
    BY <1>3, <2>1, <2>3
  <2> QED BY <1>1, <1>3, <2>2, <2>4, ParseKeeps
<1>10. CASE name \notin files
  <2>1. Settled'
    BY <1>3, <1>4, <1>8, <1>10, LoadKeeps
  <2>2. /\ Find(name) # NoWhere =>
             ParseAt(j.script, Append(Onward(streams), Stream(Find(name))), files \cup {name},
                     texts \cup {Find(name)}, errors, hasMain)
        /\ Find(name) = NoWhere => ParseAt(j.script, <<>>, files, texts, TRUE, hasMain)
    BY <1>2, <1>3, <1>4, <1>6, <1>7, <1>10, Enters
  <2>3. ParseAt(j.script, streams', files', texts', errors', hasMain')
    <3>1. CASE Find(name) = NoWhere
      <4>1. streams' = <<>> /\ errors' = TRUE /\ files' = files /\ texts' = texts
        BY <1>3, <1>5, <1>10, <3>1
      <4> QED BY <1>3, <2>2, <3>1, <4>1
    <3>2. CASE Find(name) # NoWhere
      <4>1. /\ streams' = Append(Onward(streams), Stream(Find(name)))
            /\ files' = files \cup {name} /\ texts' = texts \cup {Find(name)} /\ errors' = errors
        BY <1>3, <1>5, <1>6, <1>10, <3>2
      <4> QED BY <1>3, <2>2, <3>2, <4>1
    <3> QED BY <3>1, <3>2
  <2> QED BY <1>1, <1>3, <2>1, <2>3, ParseKeeps
<1> QED BY <1>9, <1>10

LEMMA EndOfTextKeeps ==
    ASSUME CompilerInv, phase' # "arguments", EndOfText
    PROVE  CompilerInv'
<1>1. PICK j : job = j /\ JobInv(j)
  BY DEF CompilerInv
<1>2. PICK at : at = Top.at
  OBVIOUS
<1>3. /\ stage \in {"phase1", "phase2"} /\ stage' = stage /\ SameFiles /\ job' = job
      /\ UNCHANGED kept /\ initialized' = initialized /\ UNCHANGED <<files, texts>>
      /\ streams # <<>> /\ Top.rest = <<>>
      /\ errors' = (errors \/ disk[at].fault \in {"syntax", "semantic"})
      /\ hasMain' = (hasMain \/ disk[at].main)
      /\ streams' = IF disk[at].fault = "syntax" THEN <<>> ELSE Popped
  BY <1>2 DEF EndOfText, Parsing, SameFiles, kept
<1>4. Settled /\ ParseInv(j.script)
  BY <1>1, <1>3 DEF CompilerInv, JobInv
<1>5. Settled'
  BY <1>3, <1>4, SettledKeeps
<1>6. /\ ParseAt(j.script, streams, files, texts, errors, hasMain)
      /\ Top = streams[Len(streams)] /\ Popped = SubSeq(streams, 1, Len(streams) - 1)
  BY <1>4 DEF ParseInv, Top, Popped
<1>7. PICK failed \in BOOLEAN : failed <=> (errors \/ ~Sound(at))
  OBVIOUS
<1>8. PICK entry \in BOOLEAN : entry <=> (hasMain \/ disk[at].main)
  OBVIOUS
<1>9. errors' = failed /\ hasMain' = entry /\ (disk[at].fault = "syntax" => failed)
  BY <1>3, <1>7, <1>8 DEF Sound
<1>10. /\ ParseAt(j.script, Popped, files, texts, failed, entry)
       /\ failed => ParseAt(j.script, <<>>, files, texts, failed, entry)
  BY <1>2, <1>3, <1>4, <1>6, <1>7, <1>8, Pops
<1>11. ParseAt(j.script, streams', files', texts', errors', hasMain')
  <2>1. CASE disk[at].fault = "syntax"
    BY <1>3, <1>9, <1>10, <2>1
  <2>2. CASE disk[at].fault # "syntax"
    BY <1>3, <1>9, <1>10, <2>2
  <2> QED BY <2>1, <2>2
<1>12. hasMain => hasMain'
  BY <1>3
<1> QED BY <1>1, <1>3, <1>5, <1>11, <1>12, ParseKeeps

LEMMA EndOfPhase1Keeps ==
    ASSUME CompilerInv, phase' # "arguments", EndOfPhase1
    PROVE  CompilerInv'
<1>1. PICK j : job = j /\ JobInv(j)
  BY DEF CompilerInv
<1>2. /\ stage = "phase1" /\ streams = <<>> /\ SameFiles /\ job' = j /\ UNCHANGED kept
      /\ initialized' = initialized
  BY <1>1 DEF EndOfPhase1, SameFiles, kept
<1>3. /\ Settled /\ ParseInv(j.script) /\ j.script \in DOMAIN disk /\ j.script \in DOMAIN disk'
      /\ initialized
  BY <1>1, <1>2 DEF CompilerInv, JobInv, SameFiles
<1>4. Settled'
  BY <1>2, <1>3, SettledKeeps
<1>5. ParseAt(j.script, <<>>, files, texts, errors, hasMain)
      /\ errors \in BOOLEAN /\ hasMain \in BOOLEAN
  BY <1>2, <1>3 DEF ParseInv, ParseAt
<1>6. /\ errors => Broken(Closure(j.script))
      /\ hasMain => \E at \in Closure(j.script) : disk[at].main
  BY <1>5 DEF ParseAt
<1>7. ~errors => /\ ~Broken(Closure(j.script))
                 /\ hasMain <=> \E at \in Closure(j.script) : disk[at].main
  <2> SUFFICES ASSUME errors = FALSE
               PROVE  /\ ~Broken(Closure(j.script))
                      /\ hasMain <=> \E at \in Closure(j.script) : disk[at].main
    BY <1>5
  <2>1. PICK entry \in BOOLEAN : entry <=> hasMain
    BY <1>5
  <2>2. ParseAt(j.script, <<>>, files, texts, FALSE, entry) /\ entry = hasMain
    BY <1>5, <2>1
  <2>3. /\ ~Broken(Closure(j.script))
        /\ entry <=> \E at \in Closure(j.script) : disk[at].main
    BY <1>3, <2>2, Ends
  <2> QED BY <2>1, <2>3
<1>8. ~Broken({Find(NwScript)})
  BY <1>3 DEF Settled
<1>9. CASE errors \/ (j.ignore /\ ~hasMain)
  <2>1. stage' = "done" /\ result' = IF errors THEN "Failure" ELSE "Include"
    BY <1>1, <1>2, <1>9 DEF EndOfPhase1, Return
  <2>2. Alone(j.script, j.ignore) = IF errors THEN "Failure" ELSE "Include"
    <3>1. CASE errors
      BY <1>6, <3>1, AloneIs
    <3>2. CASE ~errors
      BY <1>7, <1>8, <1>9, <3>2, AloneIs
    <3> QED BY <3>1, <3>2
  <2>3. Alone(j.script, j.ignore)' = result' /\ result' # "Success"
    BY <1>2, <2>1, <2>2, SameAlone
  <2>4. JobInv(j)'
    BY <1>3, <2>1, <2>3 DEF JobInv
  <2> QED BY <1>2, <1>4, <2>4 DEF CompilerInv
<1>10. CASE ~(errors \/ (j.ignore /\ ~hasMain))
  <2>1. /\ stage' = "phase2" /\ errors' = errors /\ hasMain' = hasMain
        /\ streams' = <<Stream(j.script)>> /\ files' = {j.script[2]} /\ texts' = {j.script}
    BY <1>1, <1>2, <1>10 DEF EndOfPhase1, AddScript
  <2>2. ParseAt(j.script, <<Stream(j.script)>>, {j.script[2]}, {j.script}, FALSE, hasMain)
    BY <1>3, <1>5, <1>6, Starts
  <2>3. errors' = FALSE
    BY <1>5, <1>10, <2>1
  <2>4. ParseAt(j.script, streams', files', texts', errors', hasMain')
    BY <2>1, <2>2, <2>3
  <2>5. ParseInv(j.script)'
    BY <1>2, <2>4, SameParse
  <2>6. JobInv(j)'
    BY <1>2, <1>3, <1>10, <2>1, <2>5 DEF JobInv
  <2> QED BY <1>2, <1>4, <2>6 DEF CompilerInv
<1> QED BY <1>9, <1>10

LEMMA EndOfPhase2Keeps ==
    ASSUME CompilerInv, phase' # "arguments", EndOfPhase2
    PROVE  CompilerInv'
<1>1. PICK j : job = j /\ JobInv(j)
  BY DEF CompilerInv
<1>2. PICK r : r = IF errors THEN "Failure" ELSE Generated
  OBVIOUS
<1>3. /\ stage = "phase2" /\ streams = <<>> /\ SameFiles /\ job' = j /\ UNCHANGED kept
      /\ initialized' = initialized /\ stage' = "done" /\ result' = r
      /\ code' = IF r = "Success" THEN texts ELSE {}
  BY <1>1, <1>2 DEF EndOfPhase2, SameFiles, kept, Return
<1>4. /\ Settled /\ ParseInv(j.script) /\ j.script \in DOMAIN disk /\ j.script \in DOMAIN disk'
      /\ initialized /\ (~j.ignore \/ hasMain)
  BY <1>1, <1>3 DEF CompilerInv, JobInv, SameFiles
<1>5. Settled'
  BY <1>3, <1>4, SettledKeeps
<1>6. ParseAt(j.script, <<>>, files, texts, errors, hasMain) /\ errors \in BOOLEAN
  BY <1>3, <1>4 DEF ParseInv, ParseAt
<1>7. ~Broken({Find(NwScript)})
  BY <1>4 DEF Settled
<1>8. Alone(j.script, j.ignore) = r /\ (r = "Success" => texts = Closure(j.script))
  <2>1. CASE errors
    <3>1. Broken(Closure(j.script)) /\ r = "Failure"
      BY <1>2, <1>6, <2>1 DEF ParseAt
    <3> QED BY <3>1, AloneIs
  <2>2. CASE ~errors
    <3>1. ParseAt(j.script, <<>>, files, texts, FALSE, hasMain)
      BY <1>6, <2>2
    <3>2. /\ texts = Closure(j.script) /\ ~Broken(Closure(j.script))
          /\ hasMain <=> \E at \in Closure(j.script) : disk[at].main
      BY <1>4, <3>1, Ends
    <3>3. r = IF \E at \in texts : disk[at].fault = "late" THEN "Failure"
              ELSE IF ~j.ignore /\ ~hasMain THEN "Include" ELSE "Success"
      BY <1>1, <1>2, <2>2 DEF Generated
    <3> DEFINE all == Closure(j.script)
               entry == \E at \in all : disk[at].main
               late == \E at \in all : disk[at].fault = "late"
    <3>4. ~(j.ignore /\ ~entry) /\ (entry <=> hasMain)
      BY <1>4, <3>2
    <3>5. Alone(j.script, j.ignore) =
            IF late THEN "Failure" ELSE IF ~entry THEN "Include" ELSE "Success"
      BY <1>7, <3>2, <3>4, AloneIs
    <3>6. r = IF late THEN "Failure" ELSE IF ~j.ignore /\ ~hasMain THEN "Include" ELSE "Success"
      BY <3>2, <3>3
    <3> HIDE DEF late, entry, all
    <3>7. Alone(j.script, j.ignore) = r
      BY <1>4, <3>4, <3>5, <3>6
    <3> QED BY <3>2, <3>7
  <2> QED BY <2>1, <2>2
<1>9. Alone(j.script, j.ignore)' = Alone(j.script, j.ignore)
      /\ Closure(j.script)' = Closure(j.script)
  BY <1>3, SameAlone, SameClosure
<1>10. JobInv(j)'
  BY <1>3, <1>4, <1>8, <1>9 DEF JobInv
<1> QED BY <1>3, <1>5, <1>10 DEF CompilerInv

(* A step that leaves the compiler alone. *)
LEMMA StillKeeps ==
    ASSUME CompilerInv, UNCHANGED compilerVars, phase' = phase \/ phase' # "arguments"
    PROVE  CompilerInv'
<1>1. PICK j : job = j /\ JobInv(j)
  BY DEF CompilerInv
<1>2. /\ SameFiles /\ job' = j /\ UNCHANGED kept /\ initialized' = initialized /\ cache' = cache
      /\ stage' = stage /\ result' = result /\ code' = code /\ UNCHANGED context
  BY <1>1 DEF compilerVars, SameFiles, kept, answer, context
<1>3. Settled'
  BY <1>2, SettledKeeps DEF CompilerInv
<1>4. Alone(j.script, j.ignore)' = Alone(j.script, j.ignore)
      /\ Closure(j.script)' = Closure(j.script)
  BY <1>2, SameAlone, SameClosure
<1>5. ParseInv(j.script) => ParseInv(j.script)'
  <2> SUFFICES ASSUME ParseInv(j.script) PROVE ParseInv(j.script)'
    OBVIOUS
  <2>1. ParseAt(j.script, streams', files', texts', errors', hasMain')
    BY <1>2 DEF ParseInv, context
  <2> QED BY <1>2, <2>1, SameParse
<1>6. disk' = disk
  BY <1>2 DEF SameFiles
<1>7. JobInv(j)'
  <2>1. stage = "phase2" => hasMain' = hasMain
    BY <1>2 DEF context
  <2> QED BY <1>1, <1>2, <1>4, <1>5, <1>6, <2>1 DEF JobInv
<1> QED BY <1>2, <1>3, <1>7 DEF CompilerInv

(* The steps of the command line. *)
LEMMA ArgumentsKeep ==
    ASSUME CompilerInv, ReadArgument \/ EndOfArguments
    PROVE  CompilerInv'
<1>1. PICK j : job = j /\ JobInv(j)
  BY DEF CompilerInv
<1>2. phase = "arguments" /\ disk' = disk /\ UNCHANGED kept /\ stage' = stage /\ job' = j
      /\ cache' = cache /\ initialized' = initialized
  BY <1>1 DEF ReadArgument, EndOfArguments, kept
<1>3. stage = "idle" /\ cache = <<>> /\ initialized = FALSE /\ disk \in Installations
  BY <1>2 DEF CompilerInv, Settled
<1>4. \E S : paths' \in Seq(S)
  <2>1. PICK S : paths \in Seq(S)
    BY DEF CompilerInv, Settled
  <2>2. \A v : Append(paths, v) \in Seq(S \cup {v})
    BY <2>1
  <2>3. CASE ReadArgument
    <3>1. paths' = Append(paths, Argument.value) \/ paths' = paths
      BY <2>3 DEF ReadArgument, TakeOption
    <3> QED BY <2>1, <2>2, <3>1
  <2>4. CASE EndOfArguments
    <3> DEFINE T == S \cup {Here, Override}
    <3>1. \/ paths' = paths
          \/ paths' = <<Here>> \o paths \o IF "l" \in switches THEN <<Override>> ELSE <<>>
      BY <2>4 DEF EndOfArguments
    <3>2. paths \in Seq(T) /\ <<Here>> \in Seq(T) /\ <<Override>> \in Seq(T) /\ <<>> \in Seq(T)
      BY <2>1
    <3>3. PICK last \in Seq(T) : last = IF "l" \in switches THEN <<Override>> ELSE <<>>
      BY <3>2
    <3> HIDE DEF T
    <3>4. <<Here>> \o paths \in Seq(T)
      BY <3>2
    <3>5. (<<Here>> \o paths) \o last \in Seq(T)
      BY <3>4
    <3> QED BY <3>1, <3>2, <3>3, <3>5
  <2> QED BY <2>3, <2>4
<1>5. Settled'
  <2>1. DOMAIN cache' = {}
    BY <1>2, <1>3
  <2>2. initialized' = FALSE /\ initialized' \in BOOLEAN
    BY <1>2, <1>3
  <2> QED BY <1>2, <1>3, <1>4, <2>1, <2>2, Zenon DEF Settled
<1>6. JobInv(j)'
  BY <1>2, <1>3 DEF JobInv
<1> QED BY <1>2, <1>3, <1>5, <1>6 DEF CompilerInv

LEMMA InputKeeps ==
    ASSUME CompilerInv, ProcessInputFile
    PROVE  CompilerInv'
<1>1. phase = "inputs" /\ (phase' = phase \/ phase' # "arguments")
  BY DEF ProcessInputFile, Outcome
<1>2. CASE UNCHANGED compilerVars
  BY <1>1, <1>2, StillKeeps
<1>3. CASE LoadInputFile(Path) /\ NscCompileScript(Path, "M" \in switches, "c" \notin switches)
  <2>1. PICK j : j = [script |-> Path, deps |-> "M" \in switches, ignore |-> "c" \notin switches,
                      known |-> {}]
    OBVIOUS
  <2>2. /\ Path \in DOMAIN disk /\ job' = j /\ SameFiles /\ UNCHANGED kept
        /\ initialized' = initialized /\ stage' = IF initialized THEN "begin" ELSE "initialize"
    BY <1>3, <2>1 DEF NscCompileScript, LoadInputFile, SameFiles, kept
  <2>3. j.script = Path
    BY <2>1
  <2>4. Settled'
    BY <2>2, SettledKeeps DEF CompilerInv
  <2>5. j.script \in DOMAIN disk'
    BY <2>2, <2>3 DEF SameFiles
  <2>6. JobInv(j)'
    BY <2>2, <2>5 DEF JobInv
  <2> QED BY <1>1, <2>2, <2>4, <2>6 DEF CompilerInv
<1>4. CASE NscDisassembleScript /\ ~initialized
  <2>1. PICK j : job = j /\ JobInv(j)
    BY DEF CompilerInv
  <2>2. /\ LoadResource(NwScript) /\ initialized' = NwScriptParses /\ initialized = FALSE
        /\ SameFiles /\ job' = j /\ stage' = stage /\ UNCHANGED answer /\ UNCHANGED context
    BY <1>4, <2>1 DEF NscDisassembleScript, SameFiles, CompilerInv, Settled
  <2>3. Location(NwScript) = Find(NwScript)
    BY CacheIsTransparent DEF CompilerInv
  <2>4. initialized' \in BOOLEAN /\ (initialized' => ~Broken({Find(NwScript)}))
    BY <2>2, <2>3 DEF NwScriptParses, Broken
  <2>5. Settled'
    BY <2>2, <2>4, LoadKeeps DEF CompilerInv
  <2>6. stage \in {"idle", "initialize", "done"}
    BY <2>1, <2>2 DEF JobInv
  <2>7. Alone(j.script, j.ignore)' = Alone(j.script, j.ignore)
        /\ Closure(j.script)' = Closure(j.script) /\ disk' = disk
    BY <2>2, SameAlone, SameClosure DEF SameFiles
  <2>8. JobInv(j)'
    BY <2>1, <2>2, <2>6, <2>7 DEF JobInv, answer
  <2>9. phase' # "arguments"
    BY <1>1
  <2> QED BY <2>2, <2>5, <2>8, <2>9 DEF CompilerInv
<1>5. CASE NscDisassembleScript /\ initialized
  <2>1. UNCHANGED compilerVars
    BY <1>5 DEF NscDisassembleScript, compilerVars
  <2> QED BY <1>1, <2>1, StillKeeps
<1> QED BY <1>2, <1>3, <1>4, <1>5 DEF ProcessInputFile

LEMMA AnsweredKeeps ==
    ASSUME CompilerInv, CompileSourceFile
    PROVE  CompilerInv'
<1>1. PICK j : job = j /\ JobInv(j)
  BY DEF CompilerInv
<1>2. /\ phase' # "arguments" /\ SameFiles /\ job' = j /\ UNCHANGED kept
      /\ initialized' = initialized /\ stage' = "idle"
  BY <1>1 DEF CompileSourceFile, SameFiles, kept, Outcome
<1>3. Settled'
  BY <1>2, SettledKeeps DEF CompilerInv
<1>4. JobInv(j)'
  BY <1>2 DEF JobInv
<1> QED BY <1>2, <1>3, <1>4 DEF CompilerInv

(* The invariant of the compiler: where a parse is, with what it leaves    *)
(* for the scripts after it. *)
LEMMA CompilerInvariant == DriverSpec => []CompilerInv
<1>1. DriverInit => CompilerInv
  <2> SUFFICES ASSUME DriverInit PROVE CompilerInv
    OBVIOUS
  <2>1. /\ disk \in Installations /\ paths = <<>> /\ cache = <<>> /\ initialized = FALSE
        /\ stage = "idle"
    BY DEF DriverInit, CompilerInit
  <2>2. paths \in Seq({})
    BY <2>1
  <2>3. Settled
    <3>1. DOMAIN cache = {}
      BY <2>1
    <3>2. initialized = FALSE /\ initialized \in BOOLEAN
      BY <2>1
    <3> QED BY <2>1, <2>2, <3>1, <3>2, Zenon DEF Settled
  <2>4. JobInv(job)
    BY <2>1 DEF JobInv
  <2> QED BY <2>1, <2>3, <2>4 DEF CompilerInv
<1>2. CompilerInv /\ Recorded /\ [DriverNext]_vars => CompilerInv'
  <2> SUFFICES ASSUME CompilerInv, Recorded, [DriverNext]_vars PROVE CompilerInv'
    OBVIOUS
  <2>1. CASE ReadArgument \/ EndOfArguments
    BY <2>1, ArgumentsKeep
  <2>2. CASE ProcessInputFile
    BY <2>2, InputKeeps
  <2>3. CASE Compiling
    <3>1. phase' # "arguments" /\ CompilerStep
      BY <2>3 DEF Compiling, driverVars
    <3> QED BY <3>1, InitializeKeeps, BeginKeeps, IncludeKeeps, EndOfTextKeeps,
               EndOfPhase1Keeps, EndOfPhase2Keeps DEF CompilerStep
  <2>4. CASE CompileSourceFile
    BY <2>4, AnsweredKeeps
  <2>5. CASE ProcessWildcardInputFile \/ WriteOutput \/ NextInput \/ Exit
    <3>1. UNCHANGED compilerVars
      BY <2>5 DEF ProcessWildcardInputFile, WriteOutput, NextInput, Exit
    <3>2. phase' = phase \/ phase' # "arguments"
      <4>1. CASE ProcessWildcardInputFile
        BY <4>1 DEF ProcessWildcardInputFile, Outcome
      <4>2. CASE WriteOutput
        BY <4>2 DEF WriteOutput, Write, Outcome
      <4>3. CASE NextInput \/ Exit
        BY <4>3 DEF NextInput, Exit
      <4> QED BY <2>5, <4>1, <4>2, <4>3
    <3> QED BY <3>1, <3>2, StillKeeps
  <2>6. CASE UNCHANGED vars
    BY <2>6, StillKeeps DEF vars, driverVars
  <2> QED BY <2>1, <2>2, <2>3, <2>4, <2>5, <2>6 DEF DriverNext
<1> QED BY <1>1, <1>2, StaysRecorded, PTL DEF DriverSpec

-----------------------------------------------------------------------------
(* What a compilation has noted so far: the files it put into the cache    *)
(* itself.  The script includes them all, and what it has read is in the   *)
(* cache. *)
Noting(script, deps, known) ==
    /\ makeDeps = deps /\ script[2] \in files /\ known \subseteq DOMAIN cache
    /\ \A name \in DOMAIN cache \ known : cache[name] \in Closure(script) \ {script}
    /\ \A at \in texts \ {script} : at[2] \in DOMAIN cache /\ cache[at[2]] = at
    /\ \A at : at \in g_Resources <=>
                 deps /\ at[1] # Archive /\ \E name \in DOMAIN cache \ known : cache[name] = at

Noted(script, deps, known) ==
    dependencies = IF deps THEN {at \in Closure(script) \ {script} :
                                   at[1] # Archive /\ at[2] \notin known}
                   ELSE {}

NotedInv ==
    /\ phase # "compiling" => stage = "idle"
    /\ stage \notin {"phase1", "phase2"} => makeDeps = FALSE
    /\ stage \in {"initialize", "begin"} => g_Resources = {}
    /\ \A script, deps, known :
         job.script = script /\ job.deps = deps /\ job.known = known =>
           /\ stage \in {"phase1", "phase2"} => Noting(script, deps, known)
           /\ stage = "done" /\ result = "Success" => Noted(script, deps, known)

LEMMA BeginNotes ==
    ASSUME NotedInv, CompilerInv, Recorded, phase' = "compiling", BeginCompile
    PROVE  NotedInv'
<1>1. /\ stage' = "phase1" /\ makeDeps' = job.deps /\ texts' = {job.script} /\ files' = {job.script[2]}
      /\ cache' = cache /\ g_Resources' = g_Resources /\ g_Resources = {}
  BY DEF BeginCompile, AddScript, kept, NotedInv
<1>2. ASSUME NEW script, NEW deps, NEW known,
             job'.script = script, job'.deps = deps, job'.known = known
      PROVE  Noting(script, deps, known)'
  <2>1. job.script = script /\ job.deps = deps /\ known = DOMAIN cache'
    BY <1>1, <1>2, BeginsJob
  <2>2. DOMAIN cache' \ known = {} /\ texts' \ {script} = {}
    BY <1>1, <2>1
  <2> QED BY <1>1, <2>1, <2>2 DEF Noting
<1> QED BY <1>1, <1>2 DEF NotedInv

(* What is loaded anew is noted, unless it is from an archive. *)
LEMMA IncludeNotes ==
    ASSUME NotedInv, CompilerInv, CompilerInv', phase' = "compiling", Include
    PROVE  NotedInv'
<1>1. PICK name : name = Head(Top.rest)
  OBVIOUS
<1>2. /\ stage \in {"phase1", "phase2"} /\ stage' = stage /\ SameFiles /\ job' = job
      /\ makeDeps' = makeDeps
      /\ \/ /\ name \in files /\ UNCHANGED <<cache, g_Resources, files, texts>>
         \/ /\ name \notin files /\ LoadResource(name)
            /\ \/ Location(name) = NoWhere /\ UNCHANGED <<files, texts>>
               \/ /\ Location(name) # NoWhere
                  /\ files' = files \cup {name} /\ texts' = texts \cup {Location(name)}
  BY <1>1 DEF Include, Parsing, SameFiles
<1>3. ASSUME NEW script, NEW deps, NEW known,
             job'.script = script, job'.deps = deps, job'.known = known
      PROVE  Noting(script, deps, known)'
  <2>1. Noting(script, deps, known)
    BY <1>2, <1>3 DEF NotedInv
  <2>2. Closure(script)' = Closure(script)
    BY <1>2, SameClosure
  <2>3. CASE UNCHANGED <<cache, g_Resources, files, texts>>
    BY <1>2, <2>1, <2>2, <2>3 DEF Noting
  <2>4. CASE ~UNCHANGED <<cache, g_Resources, files, texts>>
    <3>1. PICK at : at = Find(name)
      OBVIOUS
    <3>2. Settled /\ Location(name) = at
      BY <3>1, CacheIsTransparent DEF CompilerInv
    <3>3. name \notin files /\ LoadResource(name)
      BY <1>2, <2>4
    <3>4. at # NoWhere
      BY <1>2, <2>4, <3>1, <3>2, <3>3 DEF LoadResource
    <3>5. files' = files \cup {name} /\ texts' = texts \cup {at}
      BY <1>2, <3>2, <3>3, <3>4
    <3>6. at[2] = name /\ at # script
      <4>1. at[2] = name
        BY <3>1, <3>2, <3>4, TextFacts DEF Settled
      <4> QED BY <2>1, <3>3, <4>1 DEF Noting
    <3>7. at \in Closure(script)
      <4>1. PICK j : job' = j /\ JobInv(j)'
        BY DEF CompilerInv
      <4>2. j.script = script /\ ParseInv(j.script)'
        BY <1>2, <1>3, <4>1 DEF JobInv
      <4>3. texts' \subseteq Closure(script)'
        BY <4>2 DEF ParseInv, ParseAt
      <4> QED BY <2>2, <3>5, <4>3
    <3>8. script[2] \in files' /\ makeDeps' = deps
      BY <1>2, <2>1, <3>5 DEF Noting
    <3>9. CASE name \in DOMAIN cache
      <4>1. cache' = cache /\ g_Resources' = g_Resources /\ cache[name] = at
        BY <3>1, <3>2, <3>3, <3>9 DEF LoadResource, Settled
      <4>2. \A t \in texts' \ {script} : t[2] \in DOMAIN cache' /\ cache'[t[2]] = t
        BY <2>1, <3>5, <3>6, <3>9, <4>1 DEF Noting
      <4> QED BY <2>1, <2>2, <3>8, <4>1, <4>2 DEF Noting
    <3>10. CASE name \notin DOMAIN cache
      <4>1. /\ DOMAIN cache' = DOMAIN cache \cup {name} /\ cache'[name] = at
            /\ \A n \in DOMAIN cache : cache'[n] = cache[n]
            /\ g_Resources' = IF makeDeps /\ at[1] # Archive THEN g_Resources \cup {at} ELSE g_Resources
        BY <3>1, <3>3, <3>4, <3>10 DEF LoadResource
      <4>2. \A t \in texts' \ {script} : t[2] \in DOMAIN cache' /\ cache'[t[2]] = t
        BY <2>1, <3>5, <3>6, <4>1 DEF Noting
      <4>3. \A n \in DOMAIN cache' \ known : cache'[n] \in Closure(script) \ {script}
        BY <2>1, <3>6, <3>7, <4>1 DEF Noting
      <4>4. \A n : n \in DOMAIN cache' \ known <=> n \in DOMAIN cache \ known \/ n = name
        BY <2>1, <3>10, <4>1 DEF Noting
      <4>5. ASSUME NEW t
            PROVE  (\E n \in DOMAIN cache' \ known : cache'[n] = t)
                     <=> (\E n \in DOMAIN cache \ known : cache[n] = t) \/ t = at
        BY <4>1, <4>4
      <4>6. ASSUME NEW t
            PROVE  t \in g_Resources' <=>
                     deps /\ t[1] # Archive /\ \E n \in DOMAIN cache' \ known : cache'[n] = t
        <5>1. makeDeps = deps
          BY <2>1 DEF Noting
        <5>2. t \in g_Resources <=>
                deps /\ t[1] # Archive /\ \E n \in DOMAIN cache \ known : cache[n] = t
          BY <2>1 DEF Noting
        <5>3. t \in g_Resources' <=> t \in g_Resources \/ (t = at /\ makeDeps /\ at[1] # Archive)
          BY <4>1
        <5> QED BY <4>5, <5>1, <5>2, <5>3
      <4> QED BY <2>1, <2>2, <3>8, <4>1, <4>2, <4>3, <4>6 DEF Noting
    <3> QED BY <3>9, <3>10
  <2> QED BY <2>3, <2>4
<1> QED BY <1>2, <1>3 DEF NotedInv

LEMMA EndOfPhase1Notes ==
    ASSUME NotedInv, CompilerInv, phase' = "compiling", EndOfPhase1
    PROVE  NotedInv'
<1>1. /\ stage = "phase1" /\ SameFiles /\ job' = job /\ cache' = cache /\ g_Resources' = g_Resources
      /\ \/ stage' = "done" /\ result' # "Success" /\ makeDeps' = FALSE
         \/ /\ stage' = "phase2" /\ makeDeps' = makeDeps
            /\ texts' = {job.script} /\ files' = {job.script[2]}
  BY DEF EndOfPhase1, Return, AddScript, kept, SameFiles
<1>2. ASSUME NEW script, NEW deps, NEW known,
             job'.script = script, job'.deps = deps, job'.known = known, stage' = "phase2"
      PROVE  Noting(script, deps, known)'
  <2>1. Noting(script, deps, known) /\ Closure(script)' = Closure(script)
    BY <1>1, <1>2, SameClosure DEF NotedInv
  <2>2. texts' \ {script} = {} /\ files' = {script[2]}
    BY <1>1, <1>2
  <2> QED BY <1>1, <1>2, <2>1, <2>2 DEF Noting
<1> QED BY <1>1, <1>2 DEF NotedInv

(* At the end what was noted are the files the script includes that were   *)
(* not known before. *)
LEMMA EndOfPhase2Notes ==
    ASSUME NotedInv, CompilerInv, CompilerInv', phase' = "compiling", EndOfPhase2
    PROVE  NotedInv'
<1>1. /\ stage = "phase2" /\ stage' = "done" /\ SameFiles /\ job' = job /\ makeDeps' = FALSE
      /\ result' = "Success" => code' = texts /\ dependencies' = g_Resources
  BY DEF EndOfPhase2, Return, SameFiles
<1>2. ASSUME NEW script, NEW deps, NEW known, result' = "Success",
             job'.script = script, job'.deps = deps, job'.known = known
      PROVE  Noted(script, deps, known)'
  <2>1. Noting(script, deps, known) /\ Closure(script)' = Closure(script)
    BY <1>1, <1>2, SameClosure DEF NotedInv
  <2>2. texts = Closure(script)
    <3>1. PICK j : job' = j /\ JobInv(j)'
      BY DEF CompilerInv
    <3>2. j.script = script
      BY <1>2, <3>1
    <3>3. code' = Closure(j.script)'
      BY <1>1, <1>2, <3>1 DEF JobInv
    <3> QED BY <1>1, <1>2, <2>1, <3>2, <3>3
  <2>3. Settled
    BY DEF CompilerInv
  <2>4. \A name \in DOMAIN cache : cache[name][2] = name
    BY <2>3, TextFacts DEF Settled
  <2>5. ASSUME NEW at
        PROVE  (\E name \in DOMAIN cache \ known : cache[name] = at)
                 <=> at \in Closure(script) \ {script} /\ at[2] \notin known
    <3>1. ASSUME NEW name \in DOMAIN cache \ known, cache[name] = at
          PROVE  at \in Closure(script) \ {script} /\ at[2] \notin known
      BY <2>1, <2>4, <3>1 DEF Noting
    <3>2. ASSUME at \in Closure(script) \ {script}, at[2] \notin known
          PROVE  at[2] \in DOMAIN cache \ known /\ cache[at[2]] = at
      BY <2>1, <2>2, <3>2 DEF Noting
    <3> QED BY <3>1, <3>2
  <2>6. \A at : at \in g_Resources <=>
          deps /\ at[1] # Archive /\ at \in Closure(script) \ {script} /\ at[2] \notin known
    BY <2>1, <2>5 DEF Noting
  <2>7. g_Resources = IF deps THEN {at \in Closure(script) \ {script} :
                                      at[1] # Archive /\ at[2] \notin known}
                      ELSE {}
    BY <2>6
  <2> QED BY <1>1, <1>2, <2>1, <2>7 DEF Noted
<1> QED BY <1>1, <1>2 DEF NotedInv

(* A step that neither parses nor loads. *)
LEMMA QuietNotes ==
    ASSUME NotedInv, CompilerInv, SameFiles, UNCHANGED <<g_Resources, makeDeps, stage, job, answer>>,
           cache' = cache, files' = files, texts' = texts,
           phase' # "compiling" => phase # "compiling"
    PROVE  NotedInv'
<1>1. ASSUME NEW script, NEW deps, NEW known
      PROVE  /\ Noting(script, deps, known)' <=> Noting(script, deps, known)
             /\ Noted(script, deps, known)' <=> Noted(script, deps, known)
  <2>1. Closure(script)' = Closure(script)
    BY SameClosure
  <2> QED BY <2>1 DEF Noting, Noted, answer
<1> QED BY <1>1 DEF NotedInv, answer

LEMMA NotedInvariant == DriverSpec => []NotedInv
<1>1. DriverInit => NotedInv
  BY DEF DriverInit, CompilerInit, NotedInv
<1>2. NotedInv /\ CompilerInv /\ CompilerInv' /\ Recorded /\ [DriverNext]_vars => NotedInv'
  <2> SUFFICES ASSUME NotedInv, CompilerInv, CompilerInv', Recorded, [DriverNext]_vars
               PROVE  NotedInv'
    OBVIOUS
  <2>1. ASSUME stage' = "idle", makeDeps' = FALSE PROVE NotedInv'
    BY <2>1 DEF NotedInv
  <2>2. CASE ReadArgument \/ EndOfArguments
    <3>1. stage' = stage /\ makeDeps' = makeDeps /\ stage = "idle"
      BY <2>2 DEF ReadArgument, EndOfArguments, NotedInv
    <3>2. makeDeps' = FALSE
      BY <3>1 DEF NotedInv
    <3> QED BY <2>1, <3>1, <3>2
  <2>3. CASE ProcessInputFile
    <3>1. stage = "idle" /\ makeDeps = FALSE
      BY <2>3 DEF ProcessInputFile, NotedInv
    <3>2. CASE UNCHANGED compilerVars \/ NscDisassembleScript
      BY <2>1, <3>1, <3>2 DEF compilerVars, NscDisassembleScript
    <3>3. CASE NscCompileScript(Path, "M" \in switches, "c" \notin switches) /\ phase' = "compiling"
      <4>1. g_Resources' = {} /\ makeDeps' = FALSE /\ stage' \in {"begin", "initialize"}
        BY <3>1, <3>3 DEF NscCompileScript
      <4> QED BY <3>3, <4>1 DEF NotedInv
    <3> QED BY <2>3, <3>2, <3>3 DEF ProcessInputFile
  <2>4. CASE Compiling
    <3>1. phase' = "compiling" /\ phase = "compiling" /\ CompilerStep
      BY <2>4 DEF Compiling, driverVars
    <3>2. CASE NscCompilerInitialize
      <4>1. stage = "initialize" /\ makeDeps = FALSE /\ g_Resources = {}
        BY <3>2 DEF NscCompilerInitialize, NotedInv
      <4>2. g_Resources' = {}
        BY <3>2, <4>1 DEF NscCompilerInitialize, LoadResource
      <4>3. \/ stage' = "begin" /\ makeDeps' = makeDeps
            \/ stage' = "done" /\ result' = "Failure" /\ makeDeps' = FALSE
        BY <3>2 DEF NscCompilerInitialize, Return
      <4> QED BY <3>1, <4>1, <4>2, <4>3 DEF NotedInv
    <3>3. CASE EndOfText
      <4>1. /\ SameFiles /\ UNCHANGED <<g_Resources, makeDeps, stage, job, answer>>
            /\ cache' = cache /\ files' = files /\ texts' = texts
        BY <3>3 DEF EndOfText, SameFiles, kept
      <4> QED BY <3>1, <4>1, QuietNotes
    <3> QED BY <3>1, <3>2, <3>3, BeginNotes, IncludeNotes, EndOfPhase1Notes, EndOfPhase2Notes
            DEF CompilerStep
  <2>5. CASE CompileSourceFile
    <3>1. stage' = "idle" /\ makeDeps' = makeDeps /\ stage = "done"
      BY <2>5 DEF CompileSourceFile
    <3>2. makeDeps' = FALSE
      BY <3>1 DEF NotedInv
    <3> QED BY <2>1, <3>1, <3>2
  <2>6. CASE ProcessWildcardInputFile \/ WriteOutput \/ NextInput \/ Exit
    <3>1. UNCHANGED compilerVars /\ phase # "compiling"
      BY <2>6 DEF ProcessWildcardInputFile, WriteOutput, NextInput, Exit
    <3>2. stage' = "idle" /\ makeDeps' = FALSE
      BY <3>1 DEF compilerVars, NotedInv
    <3> QED BY <2>1, <3>2
  <2>7. CASE UNCHANGED vars
    <3>1. /\ SameFiles /\ UNCHANGED <<g_Resources, makeDeps, stage, job, answer>>
          /\ cache' = cache /\ files' = files /\ texts' = texts /\ phase' = phase
      BY <2>7 DEF vars, driverVars, compilerVars, SameFiles, kept, context
    <3> QED BY <3>1, QuietNotes
  <2> QED BY <2>2, <2>3, <2>4, <2>5, <2>6, <2>7 DEF DriverNext
<1> QED BY <1>1, <1>2, CompilerInvariant, StaysRecorded, PTL DEF DriverSpec

(* Of every script of a batch, whatever was compiled, cached or failed     *)
(* before it, the result is that of the texts it reaches, and the code is  *)
(* made of all of them, as if it were compiled alone                       *)
(* (NscCompiler.cpp:1281-1321).  Its dependencies are the files it         *)
(* includes, by whatever way, but for itself and those that were cached    *)
(* when its compilation began (1286-1293).                                 *)
THEOREM BatchesAreIndependent == DriverSpec => []BatchIndependent
<1>1. CompilerInv /\ NotedInv => BatchIndependent
  BY DEF CompilerInv, JobInv, NotedInv, Noted, BatchIndependent
<1> QED BY <1>1, CompilerInvariant, NotedInvariant, PTL

-----------------------------------------------------------------------------
(* What is left to write for one script, all there may be, and the names   *)
(* they get. *)
Left(rest) == {rest[n] : n \in 1 .. Len(rest)}
Every == IF Compile THEN Left(Extensions) ELSE {"pcode"} \cup Temporary
Own(base, ext) == <<IF ext \in Temporary THEN NoFile ELSE base, ext>>

(* What remains to be written: each once, and the code before the rest. *)
InOrder(rest) ==
    /\ \E S : rest \in Seq(S)
    /\ \A m, n \in 1 .. Len(rest) : rest[m] = rest[n] => m = n
    /\ "ncs" \in Left(rest) => rest[1] = "ncs"

(* The outputs agree, but for those of one base that are still to be       *)
(* written for the script at hand. *)
OneFile(out, all, f) ==
    /\ f = <<f[1], f[2]>> /\ f[2] \in all
    /\ out[f].by # NoFile /\ (f[1] = NoFile <=> f[2] \in Temporary)
    /\ f[2] \in {"ndb", "d"} => <<f[1], "ncs">> \in DOMAIN out
    /\ f[2] \in {"ncs", "ndb"} =>
         \A script : out[f].by = script => out[f].from \in {Closure(script), Lost}

Agreed(out, all) ==
    /\ \A f \in DOMAIN out : OneFile(out, all, f)
    /\ \A f, g \in DOMAIN out : f[1] = g[1] /\ f[1] # NoFile => out[f].by = out[g].by

Underway(out, all, base, path, left) ==
    /\ \A f \in DOMAIN out : OneFile(out, all, f)
    /\ \A f, g \in DOMAIN out :
         f[1] = g[1] => out[f].by = out[g].by \/ f[1] \in {base, NoFile}
    /\ \A e \in (all \ left) \ Temporary :
         Own(base, e) \in DOMAIN out /\ out[Own(base, e)].by = path

SoFar == ReturnCode = 0 /\ (phase = "processed" => Status)

OutputInv ==
    /\ phase = "arguments" => outputs = <<>>
    /\ phase \in {"compiling", "writing"} => Path \in DOMAIN disk
    /\ phase = "compiling" => Compile /\ job.script = Path
    /\ phase = "writing" /\ Compile => \A script : Path = script => code = Closure(script)
    /\ phase = "writing" => unwritten # <<>> /\ InOrder(unwritten) /\ Left(unwritten) \subseteq Every
    /\ phase = "writing" /\ SoFar => Underway(outputs, Every, OutBase, Path, Left(unwritten))
    /\ phase # "writing" /\ SoFar => Agreed(outputs, Every)

LEMMA SameOutputs ==
    ASSUME SameFiles, NEW out, NEW all
    PROVE  /\ Agreed(out, all)' <=> Agreed(out, all)
           /\ \A base, path, left : Underway(out, all, base, path, left)' <=> Underway(out, all, base, path, left)
<1>1. \A script : Closure(script)' = Closure(script)
  BY SameClosure
<1>2. \A f : OneFile(out, all, f)' <=> OneFile(out, all, f)
  BY <1>1 DEF OneFile
<1>3. Agreed(out, all)' <=> Agreed(out, all)
  BY <1>2 DEF Agreed
<1>4. ASSUME NEW base, NEW path, NEW left
      PROVE  Underway(out, all, base, path, left)' <=> Underway(out, all, base, path, left)
  BY <1>2 DEF Underway
<1> QED BY <1>3, <1>4

(* A script begins to write, writes one of its files, and has written all. *)
LEMMA WritingBegins ==
    ASSUME NEW out, NEW all, NEW left, NEW base, NEW path, Agreed(out, all),
           all \ left \subseteq Temporary
    PROVE  Underway(out, all, base, path, left)
BY DEF Agreed, Underway

LEMMA WritesOne ==
    ASSUME NEW out, NEW all, NEW base, NEW path, NEW left, NEW ext, NEW what,
           Underway(out, all, base, path, left), ext \in all, ext \in left,
           base # NoFile, path # NoFile, what.by = path,
           ext \in {"ndb", "d"} => "ncs" \in all \ left,
           ext \in {"ncs", "ndb"} => what.from \in {Closure(path), Lost}
    PROVE  LET file == Own(base, ext)
           IN Underway([f \in DOMAIN out \cup {file} |-> IF f = file THEN what ELSE out[f]],
                       all, base, path, left \ {ext})
<1>1. PICK file : file = Own(base, ext)
  OBVIOUS
<1> DEFINE new == [f \in DOMAIN out \cup {file} |-> IF f = file THEN what ELSE out[f]]
<1>2. /\ DOMAIN new = DOMAIN out \cup {file} /\ new[file] = what
      /\ \A f \in DOMAIN out : f # file => new[f] = out[f]
  OBVIOUS
<1> HIDE DEF new
<1>3. file = <<file[1], file[2]>> /\ file[2] = ext /\ file[1] = IF ext \in Temporary THEN NoFile ELSE base
  BY <1>1 DEF Own
<1>4. \A e : Own(base, e) = file => e = ext
  BY <1>1 DEF Own
<1>5. ASSUME NEW f \in DOMAIN new PROVE OneFile(new, all, f)
  <2>1. CASE f = file
    <3>1. ext \in {"ndb", "d"} => <<file[1], "ncs">> \in DOMAIN new
      <4>1. ext \in {"ndb", "d"} => Own(base, "ncs") \in DOMAIN out
        BY DEF Underway, Temporary
      <4> QED BY <1>2, <1>3, <4>1 DEF Own, Temporary
    <3> QED BY <1>2, <1>3, <2>1, <3>1 DEF OneFile
  <2>2. CASE f # file
    <3>1. f \in DOMAIN out /\ OneFile(out, all, f)
      BY <1>2, <2>2 DEF Underway
    <3> QED BY <1>2, <2>2, <3>1 DEF OneFile
  <2> QED BY <2>1, <2>2
<1>6. ASSUME NEW f \in DOMAIN new, NEW g \in DOMAIN new, f[1] = g[1]
      PROVE  new[f].by = new[g].by \/ f[1] \in {base, NoFile}
  <2>1. CASE f # file /\ g # file
    BY <1>2, <1>6, <2>1 DEF Underway
  <2>2. CASE f = file \/ g = file
    BY <1>3, <1>6, <2>2
  <2> QED BY <2>1, <2>2
<1>7. ASSUME NEW e \in (all \ (left \ {ext})) \ Temporary
      PROVE  Own(base, e) \in DOMAIN new /\ new[Own(base, e)].by = path
  <2>1. CASE e = ext
    BY <1>1, <1>2, <2>1
  <2>2. CASE e # ext
    <3>1. Own(base, e) \in DOMAIN out /\ out[Own(base, e)].by = path
      BY <1>7, <2>2 DEF Underway
    <3> QED BY <1>2, <1>4, <2>2, <3>1
  <2> QED BY <2>1, <2>2
<1>8. Underway(new, all, base, path, left \ {ext})
  BY <1>5, <1>6, <1>7 DEF Underway
<1> QED BY <1>1, <1>8 DEF new

LEMMA WritingEnds ==
    ASSUME NEW out, NEW all, NEW base, NEW path, Underway(out, all, base, path, {}), base # NoFile
    PROVE  Agreed(out, all)
<1>1. ASSUME NEW f \in DOMAIN out, f[1] = base PROVE out[f].by = path
  <2>1. f = <<base, f[2]>> /\ f[2] \in all /\ f[2] \notin Temporary
    BY <1>1 DEF Underway, OneFile
  <2>2. f = Own(base, f[2])
    BY <2>1 DEF Own
  <2>3. out[Own(base, f[2])].by = path
    BY <2>1 DEF Underway
  <2> QED BY <2>2, <2>3
<1>2. ASSUME NEW f \in DOMAIN out, NEW g \in DOMAIN out, f[1] = g[1], f[1] # NoFile
      PROVE  out[f].by = out[g].by
  BY <1>1, <1>2 DEF Underway
<1> QED BY <1>2 DEF Agreed, Underway

(* What is written is the first of what remains. *)
LEMMA TailInOrder ==
    ASSUME NEW rest, rest # <<>>, InOrder(rest)
    PROVE  /\ InOrder(Tail(rest)) /\ Left(Tail(rest)) = Left(rest) \ {Head(rest)}
           /\ Head(rest) \in Left(rest)
           /\ Head(rest) # "ncs" => "ncs" \notin Left(rest)
           /\ Tail(rest) = <<>> => Left(Tail(rest)) = {}
<1>1. PICK S : rest \in Seq(S)
  BY DEF InOrder
<1> DEFINE N == Len(rest)
           t == Tail(rest)
<1>2. N \in Nat /\ N > 0 /\ Head(rest) = rest[1] /\ Len(t) = N - 1 /\ t \in Seq(S)
      /\ \A n \in 1 .. N - 1 : t[n] = rest[n + 1]
  BY <1>1
<1>3. \A m, n \in 1 .. N : rest[m] = rest[n] => m = n
  BY DEF InOrder
<1> HIDE DEF N, t
<1>4. \A n \in 1 .. N - 1 : n + 1 \in 1 .. N /\ n + 1 # 1
  BY <1>2
<1>5. \A n \in 1 .. N : n # 1 => n - 1 \in 1 .. N - 1 /\ n - 1 + 1 = n
  BY <1>2
<1>6. 1 \in 1 .. N
  BY <1>2
<1>7. Left(rest) = {rest[n] : n \in 1 .. N} /\ Left(t) = {t[n] : n \in 1 .. N - 1}
  BY <1>2 DEF Left, N
<1>8. Left(t) = Left(rest) \ {rest[1]}
  <2>1. ASSUME NEW x \in Left(t) PROVE x \in Left(rest) \ {rest[1]}
    <3>1. PICK n \in 1 .. N - 1 : x = t[n]
      BY <1>7
    <3> QED BY <1>2, <1>3, <1>4, <1>6, <1>7, <3>1
  <2>2. ASSUME NEW x \in Left(rest) \ {rest[1]} PROVE x \in Left(t)
    <3>1. PICK n \in 1 .. N : x = rest[n] /\ n # 1
      BY <1>7
    <3>2. t[n - 1] = x /\ n - 1 \in 1 .. N - 1
      BY <1>2, <1>5, <3>1
    <3> QED BY <1>7, <3>2
  <2> QED BY <2>1, <2>2
<1>9. "ncs" \in Left(rest) => rest[1] = "ncs"
  BY DEF InOrder
<1>10. \A m, n \in 1 .. N - 1 : t[m] = t[n] => m = n
  <2> SUFFICES ASSUME NEW m \in 1 .. N - 1, NEW n \in 1 .. N - 1, t[m] = t[n] PROVE m = n
    OBVIOUS
  <2>1. m + 1 = n + 1
    BY <1>2, <1>3, <1>4
  <2> QED BY <2>1
<1>11. "ncs" \notin Left(t)
  BY <1>8, <1>9
<1>12. InOrder(t)
  BY <1>2, <1>10, <1>11 DEF InOrder
<1>13. t = <<>> => Left(t) = {}
  <2>1. Len(<<>>) = 0
    OBVIOUS
  <2> QED BY <2>1 DEF Left
<1> QED BY <1>2, <1>6, <1>7, <1>8, <1>9, <1>12, <1>13 DEF t

(* Short sequences put together. *)
LEMMA PairConcat ==
    ASSUME NEW x, NEW y
    PROVE  <<x>> \o <<y>> = <<x, y>>
<1> DEFINE S == {x, y}
<1>1. <<x>> \in Seq(S) /\ <<y>> \in Seq(S) /\ <<x, y>> \in Seq(S)
  OBVIOUS
<1>2. PICK s \in Seq(S) : s = <<x>>
  BY <1>1
<1>3. PICK t \in Seq(S) : t = <<y>>
  BY <1>1
<1>4. PICK u \in Seq(S) : u = <<x, y>>
  BY <1>1
<1>5. Len(s) = 1 /\ s[1] = x /\ Len(t) = 1 /\ t[1] = y /\ Len(u) = 2 /\ u[1] = x /\ u[2] = y
  BY <1>2, <1>3, <1>4
<1> HIDE DEF S
<1>6. s \o t \in Seq(S) /\ Len(s \o t) = 2 /\ (s \o t)[1] = x /\ (s \o t)[2] = y
  <2>1. s \o t \in Seq(S) /\ Len(s \o t) = Len(s) + Len(t)
        /\ \A n \in 1 .. Len(s) + Len(t) : (s \o t)[n] = IF n <= Len(s) THEN s[n] ELSE t[n - Len(s)]
    BY ConcatProperties
  <2>2. 1 \in 1 .. Len(s) + Len(t) /\ 2 \in 1 .. Len(s) + Len(t) /\ ~(2 <= Len(s)) /\ 2 - Len(s) = 1
    BY <1>5
  <2> QED BY <1>5, <2>1, <2>2
<1>7. s \o t = u
  BY <1>5, <1>6, SeqEqual
<1> QED BY <1>2, <1>3, <1>4, <1>7, Zenon

LEMMA TripleConcat ==
    ASSUME NEW x, NEW y, NEW z
    PROVE  <<x, y>> \o <<z>> = <<x, y, z>>
<1> DEFINE S == {x, y, z}
<1>1. <<x, y>> \in Seq(S) /\ <<z>> \in Seq(S) /\ <<x, y, z>> \in Seq(S)
  OBVIOUS
<1>2. PICK s \in Seq(S) : s = <<x, y>>
  BY <1>1
<1>3. PICK t \in Seq(S) : t = <<z>>
  BY <1>1
<1>4. PICK u \in Seq(S) : u = <<x, y, z>>
  BY <1>1
<1>5. Len(s) = 2 /\ s[1] = x /\ s[2] = y /\ Len(t) = 1 /\ t[1] = z
      /\ Len(u) = 3 /\ u[1] = x /\ u[2] = y /\ u[3] = z
  BY <1>2, <1>3, <1>4
<1> HIDE DEF S
<1>6. s \o t \in Seq(S) /\ Len(s \o t) = 3 /\ (s \o t)[1] = x /\ (s \o t)[2] = y /\ (s \o t)[3] = z
  <2>1. s \o t \in Seq(S) /\ Len(s \o t) = Len(s) + Len(t)
        /\ \A n \in 1 .. Len(s) + Len(t) : (s \o t)[n] = IF n <= Len(s) THEN s[n] ELSE t[n - Len(s)]
    BY ConcatProperties
  <2>2. 1 \in 1 .. Len(s) + Len(t) /\ 2 \in 1 .. Len(s) + Len(t) /\ 3 \in 1 .. Len(s) + Len(t)
        /\ ~(3 <= Len(s)) /\ 3 - Len(s) = 1
    BY <1>5
  <2> QED BY <1>5, <2>1, <2>2
<1>7. s \o t = u
  BY <1>5, <1>6, SeqEqual
<1> QED BY <1>2, <1>3, <1>4, <1>7, Zenon

LEMMA NothingConcat ==
    ASSUME NEW x, NEW y
    PROVE  <<x>> \o <<>> = <<x>> /\ <<x, y>> \o <<>> = <<x, y>>
<1>1. <<x>> \in Seq({x, y}) /\ <<x, y>> \in Seq({x, y})
  OBVIOUS
<1>2. PICK s \in Seq({x, y}) : s = <<x>>
  BY <1>1
<1>3. PICK t \in Seq({x, y}) : t = <<x, y>>
  BY <1>1
<1>4. s \o <<>> = s /\ t \o <<>> = t
  BY ConcatEmptySeq
<1> QED BY <1>2, <1>3, <1>4

(* What there is to write, each once and the code first. *)
Listed(rest) == IF Compile THEN rest = Extensions
                ELSE \E symbols \in {<<>>, <<"tempndb">>} : rest = <<"pcode", "temp">> \o symbols

LEMMA ListedIs ==
    ASSUME NEW rest, Listed(rest)
    PROVE  \/ rest = <<"ncs">> /\ Compile
           \/ rest = <<"ncs", "ndb">> /\ Compile
           \/ rest = <<"ncs", "d">> /\ Compile
           \/ rest = <<"ncs", "ndb", "d">> /\ Compile
           \/ rest = <<"pcode", "temp">> /\ ~Compile
           \/ rest = <<"pcode", "temp", "tempndb">> /\ ~Compile
<1>1. CASE ~Compile
  <2>1. /\ <<"pcode", "temp">> \o <<>> = <<"pcode", "temp">>
        /\ <<"pcode", "temp">> \o <<"tempndb">> = <<"pcode", "temp", "tempndb">>
    BY NothingConcat, TripleConcat
  <2>2. \/ rest = <<"pcode", "temp">> \o <<>> \/ rest = <<"pcode", "temp">> \o <<"tempndb">>
    BY <1>1, Zenon DEF Listed
  <2> QED BY <1>1, <2>1, <2>2, Zenon
<1>2. CASE Compile
  <2>1. rest = <<"ncs">> \o (IF "g" \in switches THEN <<"ndb">> ELSE <<>>)
                         \o (IF "M" \in switches THEN <<"d">> ELSE <<>>)
    BY <1>2 DEF Listed, Extensions
  <2>2. /\ <<"ncs">> \o <<>> = <<"ncs">> /\ <<"ncs">> \o <<"ndb">> = <<"ncs", "ndb">>
        /\ <<"ncs", "ndb">> \o <<>> = <<"ncs", "ndb">> /\ <<"ncs">> \o <<"d">> = <<"ncs", "d">>
    BY NothingConcat, PairConcat
  <2>3. <<"ncs", "ndb">> \o <<"d">> = <<"ncs", "ndb", "d">>
    BY TripleConcat
  <2>4. \/ rest = (<<"ncs">> \o <<>>) \o <<>> \/ rest = (<<"ncs">> \o <<>>) \o <<"d">>
        \/ rest = (<<"ncs">> \o <<"ndb">>) \o <<>> \/ rest = (<<"ncs">> \o <<"ndb">>) \o <<"d">>
    BY <2>1, Zenon
  <2> QED BY <1>2, <2>2, <2>3, <2>4, Zenon
<1> QED BY <1>1, <1>2

LEMMA ListedFacts ==
    ASSUME NEW rest, Listed(rest)
    PROVE  /\ rest # <<>> /\ InOrder(rest)
           /\ Left(rest) \subseteq Every /\ Every \ Left(rest) \subseteq Temporary
           /\ Compile => "ncs" \in Left(rest) /\ Left(rest) \subseteq {"ncs", "ndb", "d"}
<1>1. \/ rest = <<"ncs">> /\ Compile
      \/ rest = <<"ncs", "ndb">> /\ Compile
      \/ rest = <<"ncs", "d">> /\ Compile
      \/ rest = <<"ncs", "ndb", "d">> /\ Compile
      \/ rest = <<"pcode", "temp">> /\ ~Compile
      \/ rest = <<"pcode", "temp", "tempndb">> /\ ~Compile
  BY ListedIs
<1>2. \A S, x, y, z : {x, y, z} \subseteq S =>
        <<x>> \in Seq(S) /\ <<x, y>> \in Seq(S) /\ <<x, y, z>> \in Seq(S)
  OBVIOUS
<1>3. \E S : rest \in Seq(S)
  <2> DEFINE S == {"ncs", "ndb", "d", "pcode", "temp", "tempndb"}
  <2>1. rest \in Seq(S)
    BY <1>1, <1>2
  <2> QED BY <2>1
<1>4. Compile => Left(rest) = Every
  BY DEF Listed, Every
<1>5. CASE rest = <<"ncs">> /\ Compile
  <2>1. Left(rest) = {"ncs"} /\ Len(rest) = 1
    BY <1>5 DEF Left
  <2> QED BY <1>3, <1>4, <1>5, <2>1 DEF InOrder
<1>6. CASE rest = <<"ncs", "ndb">> /\ Compile
  <2>1. Left(rest) = {"ncs", "ndb"} /\ Len(rest) = 2
    BY <1>6 DEF Left
  <2> QED BY <1>3, <1>4, <1>6, <2>1 DEF InOrder
<1>7. CASE rest = <<"ncs", "d">> /\ Compile
  <2>1. Left(rest) = {"ncs", "d"} /\ Len(rest) = 2
    BY <1>7 DEF Left
  <2> QED BY <1>3, <1>4, <1>7, <2>1 DEF InOrder
<1>8. CASE rest = <<"ncs", "ndb", "d">> /\ Compile
  <2>1. Left(rest) = {"ncs", "ndb", "d"} /\ Len(rest) = 3
    BY <1>8 DEF Left
  <2> QED BY <1>3, <1>4, <1>8, <2>1 DEF InOrder
<1>9. CASE rest = <<"pcode", "temp">> /\ ~Compile
  <2>1. Left(rest) = {"pcode", "temp"} /\ Len(rest) = 2
    BY <1>9 DEF Left
  <2> QED BY <1>3, <1>9, <2>1 DEF InOrder, Every, Temporary
<1>10. CASE rest = <<"pcode", "temp", "tempndb">> /\ ~Compile
  <2>1. Left(rest) = {"pcode", "temp", "tempndb"} /\ Len(rest) = 3
    BY <1>10 DEF Left
  <2> QED BY <1>3, <1>10, <2>1 DEF InOrder, Every, Temporary
<1> QED BY <1>1, <1>5, <1>6, <1>7, <1>8, <1>9, <1>10

LEMMA EveryFacts ==
    /\ Compile => "ncs" \in Every /\ Every \subseteq {"ncs", "ndb", "d"}
    /\ ~Compile => Every \subseteq {"pcode", "temp", "tempndb"}
<1>1. CASE Compile
  <2>1. Listed(Extensions) /\ Every = Left(Extensions)
    BY <1>1 DEF Listed, Every
  <2> QED BY <1>1, <2>1, ListedFacts
<1>2. CASE ~Compile
  BY <1>2 DEF Every, Temporary
<1> QED BY <1>1, <1>2

(* A step that writes nothing and is not about to. *)
LEMMA QuietKeeps ==
    ASSUME OutputInv, SameFiles, outputs' = outputs, Every' = Every,
           phase # "writing", phase' # "writing", phase' = "arguments" => phase = "arguments",
           SoFar' => SoFar,
           phase' = "compiling" => Path' \in DOMAIN disk /\ Compile' /\ job'.script = Path'
    PROVE  OutputInv'
<1>1. SoFar' => Agreed(outputs, Every)'
  <2> SUFFICES ASSUME SoFar' PROVE Agreed(outputs, Every)'
    OBVIOUS
  <2>1. Agreed(outputs, Every)
    BY DEF OutputInv
  <2>2. PICK out, all : out = outputs /\ all = Every
    OBVIOUS
  <2>3. Agreed(out, all)'
    BY <2>1, <2>2, SameOutputs
  <2>4. outputs' = out /\ Every' = all
    BY <2>2
  <2> QED BY <2>3, <2>4 DEF Agreed, OneFile
<1>2. disk' = disk
  BY DEF SameFiles
<1> QED BY <1>1, <1>2 DEF OutputInv

LEMMA NothingAgrees == \A all : Agreed(<<>>, all)
<1>1. DOMAIN <<>> = {}
  OBVIOUS
<1> QED BY <1>1 DEF Agreed

LEMMA BaseIsNamed ==
    ASSUME Settled, Path \in DOMAIN disk
    PROVE  Path # NoFile /\ OutBase # NoFile
<1>1. Path # NoFile
  BY TextFacts DEF Settled, NoFile, NoWhere
<1>2. \A a, b : <<a, b>> # NoFile
  BY DEF NoFile
<1> QED BY <1>1, <1>2 DEF OutBase

LEMMA WriteKeeps ==
    ASSUME OutputInv, CompilerInv, WriteOutput
    PROVE  OutputInv'
<1>1. PICK ext : ext = Head(unwritten)
  OBVIOUS
<1>2. PICK how \in Hows(ext) : Write(how)
  BY <1>1 DEF WriteOutput
<1>3. /\ phase = "writing" /\ SameFiles /\ ReturnCode' = ReturnCode /\ code' = code
      /\ Path' = Path /\ OutBase' = OutBase /\ Every' = Every /\ (Compile' <=> Compile) /\ disk' = disk
  BY DEF WriteOutput, compilerVars, SameFiles, answer, Path, OutBase, Every, Left, Compile, Extensions, options
<1>4. /\ Path \in DOMAIN disk /\ (Compile => code = Closure(Path)) /\ unwritten # <<>>
      /\ InOrder(unwritten) /\ Left(unwritten) \subseteq Every
      /\ SoFar => Underway(outputs, Every, OutBase, Path, Left(unwritten))
  BY <1>3 DEF OutputInv
<1>5. Settled /\ Path # NoFile /\ OutBase # NoFile
  BY <1>4, BaseIsNamed DEF CompilerInv
<1>6. /\ InOrder(Tail(unwritten)) /\ Left(Tail(unwritten)) = Left(unwritten) \ {ext}
      /\ ext \in Left(unwritten) /\ (ext # "ncs" => "ncs" \notin Left(unwritten))
      /\ Tail(unwritten) = <<>> => Left(Tail(unwritten)) = {}
  BY <1>1, <1>4, TailInOrder
<1>7. CASE how \in Noticed
  <2>1. phase' = "processed" /\ Status' = FALSE
    BY <1>2, <1>7 DEF Write, Outcome
  <2> QED BY <2>1 DEF OutputInv, SoFar
<1>8. CASE how \notin Noticed
  <2>1. how = "lost" \/ how = "written"
    BY <1>2, <1>8 DEF Hows, Noticed
  <2>2. PICK what : what = IF how = "lost" THEN [by |-> Path, from |-> Lost] ELSE Made(ext)
    OBVIOUS
  <2>3. outputs' = Written(Output(ext), what)
    BY <1>1, <1>2, <2>1, <2>2 DEF Write, OutputsAfter
  <2>4. what.by = Path
    BY <2>2 DEF Made
  <2>5. ext \in {"ncs", "ndb"} => what.from \in {Closure(Path), Lost}
    <3> SUFFICES ASSUME ext \in {"ncs", "ndb"} PROVE what.from \in {Closure(Path), Lost}
      OBVIOUS
    <3>1. Compile
      BY <1>4, <1>6, EveryFacts
    <3>2. Made(ext).from = code
      BY DEF Made
    <3> QED BY <1>4, <2>2, <3>1, <3>2
  <2>6. ext \in {"ndb", "d"} => "ncs" \in Every \ Left(unwritten)
    BY <1>4, <1>6, EveryFacts
  <2>7. PICK out, all, base, path, left :
          out = outputs /\ all = Every /\ base = OutBase /\ path = Path /\ left = Left(unwritten)
    OBVIOUS
  <2>8. Output(ext) = Own(base, ext)
    BY <2>7 DEF Output, Own
  <2>9. PICK new : new = outputs'
    OBVIOUS
  <2>10. SoFar => Underway(new, all, base, path, left \ {ext})
    <3> SUFFICES ASSUME SoFar PROVE Underway(new, all, base, path, left \ {ext})
      OBVIOUS
    <3>1. new = [f \in DOMAIN out \cup {Own(base, ext)} |-> IF f = Own(base, ext) THEN what ELSE out[f]]
      BY <2>3, <2>7, <2>8, <2>9 DEF Written
    <3>2. Underway(out, all, base, path, left) /\ ext \in all /\ ext \in left
      BY <1>4, <1>6, <2>7
    <3>3. /\ base # NoFile /\ path # NoFile /\ what.by = path
          /\ ext \in {"ndb", "d"} => "ncs" \in all \ left
          /\ ext \in {"ncs", "ndb"} => what.from \in {Closure(path), Lost}
      BY <1>5, <2>4, <2>5, <2>6, <2>7
    <3> QED BY <3>1, <3>2, <3>3, WritesOne
  <2>11. /\ outputs' = new /\ Every' = all /\ OutBase' = base /\ Path' = path
    BY <1>3, <2>7, <2>9
  <2>12. CASE Tail(unwritten) = <<>>
    <3>1. phase' = "processed" /\ Status' = TRUE
      BY <1>1, <1>2, <1>8, <2>12 DEF Write, Outcome
    <3>2. SoFar' => Agreed(outputs, Every)'
      <4> SUFFICES ASSUME SoFar' PROVE Agreed(outputs, Every)'
        OBVIOUS
      <4>1. SoFar
        BY <1>3 DEF SoFar
      <4>2. left \ {ext} = {}
        BY <1>6, <2>7, <2>12
      <4>3. Underway(new, all, base, path, {})
        BY <2>10, <4>1, <4>2
      <4>4. Agreed(new, all)
        BY <1>5, <2>7, <4>3, WritingEnds
      <4>5. Agreed(new, all)'
        BY <1>3, <4>4, SameOutputs
      <4> QED BY <2>11, <4>5 DEF Agreed, OneFile
    <3> QED BY <3>1, <3>2 DEF OutputInv
  <2>13. CASE Tail(unwritten) # <<>>
    <3>1. phase' = phase /\ Status' = Status /\ unwritten' = Tail(unwritten)
      BY <1>1, <1>2, <1>8, <2>13 DEF Write
    <3>2. Left(unwritten') = left \ {ext}
      BY <1>6, <2>7, <3>1
    <3>3. SoFar' => Underway(outputs, Every, OutBase, Path, Left(unwritten))'
      <4> SUFFICES ASSUME SoFar' PROVE Underway(outputs, Every, OutBase, Path, Left(unwritten))'
        OBVIOUS
      <4>1. SoFar
        BY <1>3, <3>1 DEF SoFar
      <4>2. PICK less : less = left \ {ext}
        OBVIOUS
      <4>3. Underway(new, all, base, path, less)'
        BY <1>3, <2>10, <4>1, <4>2, SameOutputs
      <4>4. Left(unwritten') = less
        BY <3>2, <4>2
      <4> QED BY <2>11, <4>3, <4>4 DEF Underway, OneFile
    <3>4. Compile' => \A script : Path' = script => code' = Closure(script)'
      <4>1. \A script : Closure(script)' = Closure(script)
        BY <1>3, SameClosure
      <4> QED BY <1>3, <1>4, <4>1
    <3>5. Left(unwritten') \subseteq Every'
      BY <1>3, <1>4, <2>7, <3>2
    <3>6. InOrder(unwritten')
      BY <1>6, <3>1
    <3> QED BY <1>3, <1>4, <2>13, <3>1, <3>3, <3>4, <3>5, <3>6 DEF OutputInv
  <2> QED BY <2>12, <2>13
<1> QED BY <1>7, <1>8

LEMMA SameEvery ==
    ASSUME switches' = switches
    PROVE  Every' = Every /\ (Compile' <=> Compile)
BY DEF Every, Left, Compile, Extensions

LEMMA ProcessWrites ==
    ASSUME OutputInv, CompilerInv, ProcessInputFile
    PROVE  OutputInv'
<1>1. /\ phase = "inputs" /\ outputs' = outputs /\ ReturnCode' = ReturnCode /\ switches' = switches
      /\ Path' = Path
  BY DEF ProcessInputFile, options, parsing, Path
<1>2. SameFiles
  BY DEF ProcessInputFile, SameFiles, compilerVars, NscCompileScript, NscDisassembleScript
<1>3. Every' = Every /\ (Compile' <=> Compile)
  BY <1>1, SameEvery
<1>4. /\ SoFar' => ReturnCode = 0
      /\ ReturnCode = 0 => SoFar
  BY <1>1 DEF SoFar
<1>5. CASE phase' = "writing"
  <2>1. Path \in DOMAIN disk /\ ~Compile /\ Listed(unwritten')
    BY <1>5 DEF ProcessInputFile, LoadInputFile, Outcome, Listed
  <2>2. Path' \in DOMAIN disk'
    BY <1>1, <1>2, <2>1 DEF SameFiles
  <2>3. /\ unwritten' # <<>> /\ InOrder(unwritten')
        /\ Left(unwritten') \subseteq Every /\ Every \ Left(unwritten') \subseteq Temporary
    BY <2>1, ListedFacts
  <2>4. SoFar' => Underway(outputs, Every, OutBase, Path, Left(unwritten))'
    <3> SUFFICES ASSUME SoFar' PROVE Underway(outputs, Every, OutBase, Path, Left(unwritten))'
      OBVIOUS
    <3>1. Agreed(outputs, Every)
      BY <1>1, <1>4 DEF OutputInv
    <3>2. PICK out, all, base, path, left :
            /\ out = outputs /\ all = Every /\ base = OutBase' /\ path = Path'
            /\ left = Left(unwritten')
      OBVIOUS
    <3>3. Underway(out, all, base, path, left)
      BY <2>3, <3>1, <3>2, WritingBegins
    <3>4. Underway(out, all, base, path, left)'
      BY <1>2, <3>3, SameOutputs
    <3>5. outputs' = out /\ Every' = all /\ Left(unwritten') = left
      BY <1>1, <1>3, <3>2
    <3> QED BY <3>2, <3>4, <3>5 DEF Underway, OneFile
  <2> QED BY <1>3, <1>5, <2>1, <2>2, <2>3, <2>4 DEF OutputInv
<1>6. CASE phase' # "writing"
  <2>1. phase' \in {"processed", "compiling"}
    BY <1>6 DEF ProcessInputFile, Outcome
  <2>2. phase' = "compiling" => Path' \in DOMAIN disk /\ Compile' /\ job'.script = Path'
    <3> SUFFICES ASSUME phase' = "compiling" PROVE Path \in DOMAIN disk /\ Compile /\ job'.script = Path
      BY <1>1, <1>3
    <3>1. /\ Path \in DOMAIN disk /\ Compile
          /\ NscCompileScript(Path, "M" \in switches, "c" \notin switches)
      BY <1>1 DEF ProcessInputFile, Outcome, LoadInputFile
    <3> QED BY <3>1 DEF NscCompileScript
  <2>3. SoFar' => SoFar
    BY <1>4
  <2> QED BY <1>1, <1>2, <1>3, <1>6, <2>1, <2>2, <2>3, QuietKeeps
<1> QED BY <1>5, <1>6

LEMMA CompilingWrites ==
    ASSUME OutputInv, Recorded, Compiling
    PROVE  OutputInv'
<1>1. /\ phase = "compiling" /\ phase' = phase /\ outputs' = outputs /\ ReturnCode' = ReturnCode
      /\ Status' = Status /\ switches' = switches /\ Path' = Path
  BY DEF Compiling, driverVars, options, progress, ending, Path
<1>2. SameFiles /\ job'.script = job.script
  BY BeginsJob DEF Compiling, CompilerStep, NscCompilerInitialize, BeginCompile, Include, EndOfText,
                   EndOfPhase1, EndOfPhase2, SameFiles
<1>3. Every' = Every /\ (Compile' <=> Compile)
  BY <1>1, SameEvery
<1>4. Path' \in DOMAIN disk /\ Compile' /\ job'.script = Path'
  BY <1>1, <1>2, <1>3 DEF OutputInv
<1>5. SoFar' => SoFar
  BY <1>1 DEF SoFar
<1>6. phase # "writing" /\ phase' # "writing" /\ phase' # "arguments"
  BY <1>1
<1> QED BY <1>1, <1>2, <1>3, <1>4, <1>5, <1>6, QuietKeeps

LEMMA AnsweredWrites ==
    ASSUME OutputInv, CompilerInv, CompileSourceFile
    PROVE  OutputInv'
<1>1. /\ phase = "compiling" /\ stage = "done" /\ outputs' = outputs /\ ReturnCode' = ReturnCode
      /\ switches' = switches /\ Path' = Path /\ SameFiles /\ code' = code
  BY DEF CompileSourceFile, options, parsing, Path, SameFiles, answer
<1>2. Every' = Every /\ (Compile' <=> Compile)
  BY <1>1, SameEvery
<1>3. Path \in DOMAIN disk /\ Compile /\ job.script = Path
  BY <1>1 DEF OutputInv
<1>4. /\ SoFar' => ReturnCode = 0
      /\ ReturnCode = 0 => SoFar
  BY <1>1 DEF SoFar
<1>5. CASE result = "Success" /\ OutBase # SkipOutput
  <2>1. phase' = "writing" /\ unwritten' = Extensions
    BY <1>5 DEF CompileSourceFile
  <2>2. Listed(unwritten')
    BY <1>3, <2>1 DEF Listed
  <2>3. /\ unwritten' # <<>> /\ InOrder(unwritten')
        /\ Left(unwritten') \subseteq Every /\ Every \ Left(unwritten') \subseteq Temporary
    BY <2>2, ListedFacts
  <2>4. PICK j : job = j /\ JobInv(j)
    BY DEF CompilerInv
  <2>5. code = Closure(j.script) /\ j.script = Path
    BY <1>1, <1>3, <1>5, <2>4 DEF JobInv
  <2>6. \A script : Path' = script => code' = Closure(script)'
    <3>1. Closure(j.script)' = Closure(j.script)
      BY <1>1, SameClosure
    <3> QED BY <1>1, <2>5, <3>1
  <2>7. SoFar' => Underway(outputs, Every, OutBase, Path, Left(unwritten))'
    <3> SUFFICES ASSUME SoFar' PROVE Underway(outputs, Every, OutBase, Path, Left(unwritten))'
      OBVIOUS
    <3>1. Agreed(outputs, Every)
      BY <1>1, <1>4 DEF OutputInv
    <3>2. PICK out, all, base, path, left :
            /\ out = outputs /\ all = Every /\ base = OutBase' /\ path = Path'
            /\ left = Left(unwritten')
      OBVIOUS
    <3>3. Underway(out, all, base, path, left)
      BY <2>3, <3>1, <3>2, WritingBegins
    <3>4. Underway(out, all, base, path, left)'
      BY <1>1, <3>3, SameOutputs
    <3>5. outputs' = out /\ Every' = all /\ Left(unwritten') = left
      BY <1>1, <1>2, <3>2
    <3> QED BY <3>2, <3>4, <3>5 DEF Underway, OneFile
  <2>8. Path' \in DOMAIN disk'
    BY <1>1, <1>3 DEF SameFiles
  <2> QED BY <1>2, <2>1, <2>3, <2>6, <2>7, <2>8 DEF OutputInv
<1>6. CASE ~(result = "Success" /\ OutBase # SkipOutput)
  <2>1. phase' = "processed"
    BY <1>6 DEF CompileSourceFile, Outcome
  <2>2. SoFar' => SoFar
    BY <1>4
  <2> QED BY <1>1, <1>2, <2>1, <2>2, QuietKeeps
<1> QED BY <1>5, <1>6

LEMMA ArgumentsWrite ==
    ASSUME OutputInv, ReadArgument \/ EndOfArguments
    PROVE  OutputInv'
<1>1. phase = "arguments" /\ outputs' = outputs
  BY DEF ReadArgument, EndOfArguments, ending
<1>2. phase' \in {"arguments", "inputs", "exited"}
  BY <1>1 DEF ReadArgument, EndOfArguments
<1>3. outputs' = <<>>
  BY <1>1 DEF OutputInv
<1>4. Agreed(outputs, Every)'
  <2>1. DOMAIN outputs' = {}
    BY <1>3
  <2> QED BY <2>1 DEF Agreed
<1> QED BY <1>2, <1>3, <1>4 DEF OutputInv

LEMMA LoopsWrite ==
    ASSUME OutputInv, ProcessWildcardInputFile \/ NextInput \/ Exit
    PROVE  OutputInv'
<1>1. /\ phase \in {"inputs", "processed"} /\ outputs' = outputs /\ switches' = switches /\ SameFiles
      /\ phase' \in {"inputs", "processed", "exited"}
  BY DEF ProcessWildcardInputFile, NextInput, Exit, options, ending, compilerVars, SameFiles, Outcome
<1>2. Every' = Every
  BY <1>1, SameEvery
<1>3. SoFar' => SoFar
  <2>1. CASE ProcessWildcardInputFile \/ Exit
    BY <2>1 DEF ProcessWildcardInputFile, Exit, ending, SoFar
  <2>2. CASE NextInput
    BY <2>2 DEF NextInput, CodeAfter, SoFar
  <2> QED BY <2>1, <2>2
<1> QED BY <1>1, <1>2, <1>3, QuietKeeps

LEMMA StillWrites ==
    ASSUME OutputInv, UNCHANGED vars
    PROVE  OutputInv'
<1>1. /\ SameFiles /\ outputs' = outputs /\ phase' = phase /\ ReturnCode' = ReturnCode
      /\ Status' = Status /\ switches' = switches /\ Path' = Path /\ OutBase' = OutBase
      /\ unwritten' = unwritten /\ code' = code /\ job' = job /\ disk' = disk
  BY DEF vars, driverVars, compilerVars, options, progress, ending, answer, SameFiles, Path, OutBase
<1>2. Every' = Every /\ (Compile' <=> Compile)
  BY <1>1, SameEvery
<1>3. SoFar' <=> SoFar
  BY <1>1 DEF SoFar
<1>4. CASE phase = "writing"
  <2>1. SoFar' => Underway(outputs, Every, OutBase, Path, Left(unwritten))'
    <3> SUFFICES ASSUME SoFar' PROVE Underway(outputs, Every, OutBase, Path, Left(unwritten))'
      OBVIOUS
    <3>1. PICK out, all, base, path, left :
            out = outputs /\ all = Every /\ base = OutBase /\ path = Path /\ left = Left(unwritten)
      OBVIOUS
    <3>2. Underway(out, all, base, path, left)
      BY <1>3, <1>4, <3>1 DEF OutputInv
    <3>3. Underway(out, all, base, path, left)'
      BY <1>1, <3>2, SameOutputs
    <3>4. outputs' = out /\ Every' = all /\ OutBase' = base /\ Path' = path /\ Left(unwritten') = left
      BY <1>1, <1>2, <3>1
    <3> QED BY <3>3, <3>4 DEF Underway, OneFile
  <2>2. Compile' => \A script : Path' = script => code' = Closure(script)'
    <3>1. \A script : Closure(script)' = Closure(script)
      BY <1>1, SameClosure
    <3> QED BY <1>1, <1>2, <1>4, <3>1 DEF OutputInv
  <2> QED BY <1>1, <1>2, <1>4, <2>1, <2>2 DEF OutputInv
<1>5. CASE phase # "writing"
  <2>1. phase' = "compiling" => Path' \in DOMAIN disk /\ Compile' /\ job'.script = Path'
    BY <1>1, <1>2 DEF OutputInv
  <2> QED BY <1>1, <1>2, <1>3, <1>5, <2>1, QuietKeeps
<1> QED BY <1>4, <1>5

LEMMA OutputInvariant == DriverSpec => []OutputInv
<1>1. DriverInit => OutputInv
  <2> SUFFICES ASSUME DriverInit PROVE OutputInv
    OBVIOUS
  <2>1. phase = "arguments" /\ outputs = <<>>
    BY DEF DriverInit
  <2>2. Agreed(outputs, Every)
    BY <2>1, NothingAgrees
  <2> QED BY <2>1, <2>2 DEF OutputInv
<1>2. OutputInv /\ CompilerInv /\ Recorded /\ [DriverNext]_vars => OutputInv'
  <2> SUFFICES ASSUME OutputInv, CompilerInv, Recorded, [DriverNext]_vars PROVE OutputInv'
    OBVIOUS
  <2>1. CASE ReadArgument \/ EndOfArguments
    BY <2>1, ArgumentsWrite
  <2>2. CASE ProcessWildcardInputFile \/ NextInput \/ Exit
    BY <2>2, LoopsWrite
  <2>3. CASE ProcessInputFile
    BY <2>3, ProcessWrites
  <2>4. CASE Compiling
    BY <2>4, CompilingWrites
  <2>5. CASE CompileSourceFile
    BY <2>5, AnsweredWrites
  <2>6. CASE WriteOutput
    BY <2>6, WriteKeeps
  <2>7. CASE UNCHANGED vars
    BY <2>7, StillWrites
  <2> QED BY <2>1, <2>2, <2>3, <2>4, <2>5, <2>6, <2>7 DEF DriverNext
<1> QED BY <1>1, <1>2, CompilerInvariant, StaysRecorded, PTL DEF DriverSpec

(* After a run that reports success the outputs of a base are whole, of    *)
(* one script, and of the texts it was compiled from, but for what the     *)
(* disk lost on closing (CompileSourceFile). *)
THEOREM OutputsDoAgree == DriverSpec => []OutputsAgree
<1>1. OutputInv => OutputsAgree
  <2> SUFFICES ASSUME OutputInv, phase = "exited", ReturnCode = 0
               PROVE  /\ \A f \in DOMAIN outputs : outputs[f] # Torn
                      /\ \A f, g \in DOMAIN outputs :
                           f[1] = g[1] /\ f[1] # NoFile => outputs[f].by = outputs[g].by
                      /\ \A f \in DOMAIN outputs :
                           f[2] \in {"ndb", "d"} => <<f[1], "ncs">> \in DOMAIN outputs
                      /\ \A f \in DOMAIN outputs :
                           f[2] \in {"ncs", "ndb"} => outputs[f].from \in {Closure(outputs[f].by), Lost}
    BY DEF OutputsAgree
  <2>1. Agreed(outputs, Every)
    BY DEF OutputInv, SoFar
  <2>2. Torn.by = NoFile
    BY DEF Torn
  <2> QED BY <2>1, <2>2 DEF Agreed, OneFile
<1> QED BY <1>1, OutputInvariant, PTL
=============================================================================
