-------------------------- MODULE NscPreprocProofs --------------------------
(***************************************************************************)
(* Conditional groups, for any files, lines and macros: lines are skipped  *)
(* just where an enclosing group has its branch not taken, and an input    *)
(* that is read without an error has closed every group.  Macros: a chain  *)
(* of them is followed to its end, or into its circle.                     *)
(***************************************************************************)
EXTENDS NscPreproc, SequenceTheorems, FiniteSetTheorems, WellFoundedInduction, TLAPS

Value2 == [now : BOOLEAN, before : BOOLEAN]

TakenIn(t, n) == t[n].now /\ ~t[n].before

(* What the flags of group n say: it is ignored where a group around it    *)
(* has its branch not taken, and otherwise skips a branch that is not      *)
(* taken and is satisfied once one was.                                    *)
Group(i, t, n) ==
    /\ i[n].fIgnore <=> \E k \in 1 .. n - 1 : ~TakenIn(t, k)
    /\ i[n].fSkip <=> (i[n].fIgnore \/ ~TakenIn(t, n))
    /\ ~i[n].fIgnore => (i[n].fSatisfied <=> (t[n].now \/ t[n].before))

Groups(i, t) ==
    /\ i \in Seq(If) /\ t \in Seq(Value2) /\ Len(t) = Len(i)
    /\ \A n \in 1 .. Len(i) : Group(i, t, n)

(* Exchange writes the top entry of a stack, Pop leaves the ones below. *)
LEMMA PopTop ==
    ASSUME NEW S, NEW s \in Seq(S), s # <<>>
    PROVE  /\ Pop(s) \in Seq(S)
           /\ Len(s) \in Nat \ {0}
           /\ Len(Pop(s)) = Len(s) - 1
           /\ \A k \in 1 .. Len(s) - 1 : Pop(s)[k] = s[k]
           /\ Top(s) \in S
<1>1. Len(s) \in Nat \ {0}
  BY EmptySeq
<1>2. \A k \in 1 .. Len(s) : s[k] \in S
  BY ElementOfSeq
<1>3. \A k \in 1 .. Len(s) - 1 : s[k] \in S
  BY <1>1, <1>2
<1> DEFINE m == Len(s) - 1
<1>4. /\ SubSeq(s, 1, m) \in Seq(S)
      /\ Len(SubSeq(s, 1, m)) = m
      /\ \A k \in 1 .. m : SubSeq(s, 1, m)[k] = s[k]
  <2>1. m \in Nat /\ \A k \in 1 .. m : s[k] \in S
    BY <1>1, <1>3
  <2> HIDE DEF m
  <2>2. /\ SubSeq(s, 1, m) \in Seq(S)
        /\ Len(SubSeq(s, 1, m)) = IF 1 <= m THEN m - 1 + 1 ELSE 0
        /\ \A k \in 1 .. m - 1 + 1 : SubSeq(s, 1, m)[k] = s[1 + k - 1]
    BY <2>1, SubSeqProperties
  <2>3. m - 1 + 1 = m /\ \A k \in 1 .. m : 1 + k - 1 = k
    BY <2>1
  <2>4. \A k \in 1 .. m : SubSeq(s, 1, m)[k] = s[k]
    BY <2>2, <2>3
  <2> QED BY <2>1, <2>2, <2>3, <2>4
<1>5. Top(s) \in S
  BY <1>1, <1>2 DEF Top
<1> QED BY <1>1, <1>4, <1>5 DEF Pop

LEMMA ExchangeTop ==
    ASSUME NEW S, NEW s \in Seq(S), s # <<>>, NEW e \in S
    PROVE  /\ Exchange(s, e) \in Seq(S)
           /\ Len(Exchange(s, e)) = Len(s)
           /\ \A k \in 1 .. Len(s) - 1 : Exchange(s, e)[k] = s[k]
           /\ Exchange(s, e)[Len(s)] = e
BY PopTop DEF Exchange

(* Whether the innermost group skips tells whether any group does. *)
LEMMA InnermostTells ==
    ASSUME NEW i, NEW t, Groups(i, t)
    PROVE  (i # <<>> /\ Top(i).fSkip) <=> \E k \in 1 .. Len(i) : ~TakenIn(t, k)
<1>1. CASE i = <<>>
  BY <1>1
<1>2. CASE i # <<>>
  <2>1. Len(i) \in 1 .. Len(i)
    BY <1>2 DEF Groups
  <2>2. Group(i, t, Len(i))
    BY <2>1 DEF Groups
  <2>3. \A k \in 1 .. Len(i) : k = Len(i) \/ k \in 1 .. Len(i) - 1
    BY <2>1
  <2> QED BY <1>2, <2>1, <2>2, <2>3 DEF Group, Top
<1> QED BY <1>1, <1>2

(* A group inside has flags of its own and touches none outside. *)
LEMMA OuterGroups ==
    ASSUME NEW i, NEW t, Groups(i, t), NEW j, NEW u, NEW n \in 1 .. Len(i),
           \A k \in 1 .. n : j[k] = i[k] /\ u[k] = t[k]
    PROVE  Group(j, u, n)
<1>1. Group(i, t, n) /\ n \in 1 .. n
  BY DEF Groups
<1>2. \A k \in 1 .. n - 1 : u[k] = t[k]
  OBVIOUS
<1> QED BY <1>1, <1>2 DEF Group, TakenIn

(* A group that is entered. *)
LEMMA EnterKeeps ==
    ASSUME NEW i, NEW t, Groups(i, t), NEW value \in BOOLEAN, NEW skip \in BOOLEAN,
           skip <=> (i # <<>> /\ Top(i).fSkip)
    PROVE  Groups(Append(i, [fSkip |-> ~value \/ skip, fSatisfied |-> value /\ ~skip,
                             fIgnore |-> skip, fHasElse |-> FALSE]),
                  Append(t, [now |-> value, before |-> FALSE]))
<1> DEFINE e == [fSkip |-> ~value \/ skip, fSatisfied |-> value /\ ~skip,
                 fIgnore |-> skip, fHasElse |-> FALSE]
           b == [now |-> value, before |-> FALSE]
           j == Append(i, e)
           u == Append(t, b)
<1>1. i \in Seq(If) /\ t \in Seq(Value2) /\ Len(t) = Len(i) /\ Len(i) \in Nat
  BY LenProperties DEF Groups
<1>2. e \in If /\ b \in Value2
  BY DEF If, Value2
<1>3. /\ j \in Seq(If) /\ u \in Seq(Value2)
      /\ Len(j) = Len(i) + 1 /\ Len(u) = Len(i) + 1
      /\ j[Len(i) + 1] = e /\ u[Len(i) + 1] = b
      /\ \A k \in 1 .. Len(i) : j[k] = i[k] /\ u[k] = t[k]
  BY <1>1, <1>2
<1> HIDE DEF j, u
<1>4. ASSUME NEW n \in 1 .. Len(i) PROVE Group(j, u, n)
  <2>1. \A k \in 1 .. n : j[k] = i[k] /\ u[k] = t[k]
    BY <1>1, <1>3
  <2> QED BY <2>1, OuterGroups
<1>5. Group(j, u, Len(i) + 1)
  <2>1. skip <=> \E k \in 1 .. Len(i) : ~TakenIn(t, k)
    BY InnermostTells
  <2>2. \A k \in 1 .. Len(i) : TakenIn(u, k) <=> TakenIn(t, k)
    BY <1>3 DEF TakenIn
  <2>3. Len(i) + 1 - 1 = Len(i)
    BY <1>1
  <2>4. TakenIn(u, Len(i) + 1) <=> value
    BY <1>3 DEF TakenIn
  <2>5. e.fIgnore <=> \E k \in 1 .. Len(i) + 1 - 1 : ~TakenIn(u, k)
    BY <2>1, <2>2, <2>3
  <2>6. e.fSkip <=> (e.fIgnore \/ ~TakenIn(u, Len(i) + 1))
    BY <2>4
  <2>7. ~e.fIgnore => (e.fSatisfied <=> (u[Len(i) + 1].now \/ u[Len(i) + 1].before))
    BY <1>3
  <2> HIDE DEF e
  <2> QED BY <1>3, <2>5, <2>6, <2>7 DEF Group
<1>6. \A n \in 1 .. Len(i) + 1 : n \in 1 .. Len(i) \/ n = Len(i) + 1
  BY <1>1
<1>7. Groups(j, u)
  BY <1>3, <1>4, <1>5, <1>6 DEF Groups
<1> QED BY <1>7 DEF j, u

(* Another branch of the innermost group: f are its flags and v whether    *)
(* its condition holds. *)
LEMMA BranchKeeps ==
    ASSUME NEW i, NEW t, Groups(i, t), i # <<>>, NEW v \in BOOLEAN, NEW f \in If,
           f.fIgnore = Top(i).fIgnore,
           f.fIgnore => f.fSkip = Top(i).fSkip,
           ~f.fIgnore => /\ f.fSkip = ~(v /\ ~Top(i).fSatisfied)
                         /\ f.fSatisfied = (Top(i).fSatisfied \/ (v /\ ~Top(i).fSatisfied))
    PROVE  Groups(Exchange(i, f),
                  Exchange(t, [now |-> v, before |-> Top(t).now \/ Top(t).before]))
<1> DEFINE b == [now |-> v, before |-> Top(t).now \/ Top(t).before]
           j == Exchange(i, f)
           u == Exchange(t, b)
           m == Len(i)
<1>1. i \in Seq(If) /\ t \in Seq(Value2) /\ Len(t) = m
  BY DEF Groups
<1>2. m \in Nat \ {0} /\ t # <<>>
  BY <1>1, EmptySeq
<1>3. b \in Value2 /\ Top(t) \in Value2 /\ Top(i) \in If
  BY <1>1, <1>2, PopTop DEF Value2
<1>4. /\ j \in Seq(If) /\ Len(j) = m /\ j[m] = f
      /\ \A k \in 1 .. m - 1 : j[k] = i[k]
  <2> HIDE DEF b
  <2>1. /\ Exchange(i, f) \in Seq(If)
        /\ Len(Exchange(i, f)) = Len(i)
        /\ \A k \in 1 .. Len(i) - 1 : Exchange(i, f)[k] = i[k]
        /\ Exchange(i, f)[Len(i)] = f
    BY <1>1, ExchangeTop
  <2> QED BY <2>1
<1>5. /\ u \in Seq(Value2) /\ Len(u) = m /\ u[m] = b
      /\ \A k \in 1 .. m - 1 : u[k] = t[k]
  <2> HIDE DEF b, m
  <2>1. /\ Exchange(t, b) \in Seq(Value2)
        /\ Len(Exchange(t, b)) = Len(t)
        /\ \A k \in 1 .. Len(t) - 1 : Exchange(t, b)[k] = t[k]
        /\ Exchange(t, b)[Len(t)] = b
    BY <1>1, <1>2, <1>3, ExchangeTop
  <2> QED BY <1>1, <2>1
<1> HIDE DEF b, j, u
<1>6. ASSUME NEW n \in 1 .. m - 1 PROVE Group(j, u, n)
  <2>1. n \in 1 .. Len(i) /\ \A k \in 1 .. n : j[k] = i[k] /\ u[k] = t[k]
    BY <1>2, <1>4, <1>5
  <2> QED BY <2>1, OuterGroups
<1>7. Group(j, u, m)
  <2>1. Group(i, t, m)
    BY <1>2 DEF Groups
  <2>2. \A k \in 1 .. m - 1 : TakenIn(u, k) <=> TakenIn(t, k)
    BY <1>5 DEF TakenIn
  <2>3. j[m].fIgnore <=> \E k \in 1 .. m - 1 : ~TakenIn(u, k)
    BY <1>4, <2>1, <2>2 DEF Group, Top
  <2>4. /\ Top(t).now \in BOOLEAN /\ Top(t).before \in BOOLEAN
        /\ f.fSkip \in BOOLEAN /\ f.fIgnore \in BOOLEAN /\ f.fSatisfied \in BOOLEAN
        /\ Top(i).fSatisfied \in BOOLEAN /\ Top(i).fSkip \in BOOLEAN
    BY <1>3 DEF Value2, If
  <2>5. TakenIn(u, m) <=> (v /\ ~(Top(t).now \/ Top(t).before))
    BY <1>5, <2>4 DEF TakenIn, b
  <2>6. /\ ~f.fIgnore => (Top(i).fSatisfied <=> (Top(t).now \/ Top(t).before))
        /\ f.fIgnore => Top(i).fSkip
    BY <1>1, <2>1 DEF Group, Top
  <2>7. CASE f.fIgnore
    BY <1>4, <2>3, <2>6, <2>7 DEF Group
  <2>8. CASE ~f.fIgnore
    <3>1. f.fSkip <=> ~TakenIn(u, m)
      BY <2>4, <2>5, <2>6, <2>8
    <3>2. f.fSatisfied <=> (u[m].now \/ u[m].before)
      BY <1>5, <2>4, <2>6, <2>8 DEF b
    <3> QED BY <1>4, <2>3, <2>8, <3>1, <3>2 DEF Group
  <2> QED BY <2>7, <2>8
<1>8. \A n \in 1 .. m : n \in 1 .. m - 1 \/ n = m
  BY <1>2
<1>9. Groups(j, u)
  BY <1>4, <1>5, <1>6, <1>7, <1>8 DEF Groups
<1> QED BY <1>9 DEF b, j, u

(* The innermost group is left. *)
LEMMA PopKeeps ==
    ASSUME NEW i, NEW t, Groups(i, t), i # <<>>
    PROVE  Groups(Pop(i), Pop(t))
<1> DEFINE m == Len(i)
<1>1. i \in Seq(If) /\ t \in Seq(Value2) /\ Len(t) = m
  BY DEF Groups
<1>2. m \in Nat \ {0} /\ t # <<>>
  BY <1>1, EmptySeq
<1>3. /\ Pop(i) \in Seq(If) /\ Len(Pop(i)) = m - 1
      /\ Pop(t) \in Seq(Value2) /\ Len(Pop(t)) = m - 1
      /\ \A k \in 1 .. m - 1 : Pop(i)[k] = i[k] /\ Pop(t)[k] = t[k]
  BY <1>1, <1>2, PopTop
<1>4. ASSUME NEW n \in 1 .. m - 1 PROVE Group(Pop(i), Pop(t), n)
  <2>1. n \in 1 .. Len(i) /\ \A k \in 1 .. n : Pop(i)[k] = i[k] /\ Pop(t)[k] = t[k]
    BY <1>2, <1>3
  <2> QED BY <2>1, OuterGroups
<1> QED BY <1>3, <1>4 DEF Groups

LEMMA ExchangeSame ==
    ASSUME NEW S, NEW s \in Seq(S), s # <<>>
    PROVE  Exchange(s, Top(s)) = s
<1>1. Top(s) \in S /\ Len(s) \in Nat \ {0}
  BY PopTop
<1>2. /\ Exchange(s, Top(s)) \in Seq(S)
      /\ Len(Exchange(s, Top(s))) = Len(s)
      /\ \A k \in 1 .. Len(s) - 1 : Exchange(s, Top(s))[k] = s[k]
      /\ Exchange(s, Top(s))[Len(s)] = s[Len(s)]
  BY <1>1, ExchangeTop DEF Top
<1>3. \A k \in 1 .. Len(s) : k \in 1 .. Len(s) - 1 \/ k = Len(s)
  BY <1>1
<1>4. \A k \in 1 .. Len(s) : Exchange(s, Top(s))[k] = s[k]
  BY <1>2, <1>3
<1> QED BY <1>2, <1>4, SeqEqual

-----------------------------------------------------------------------------
(* The directives of groups, whether or not the lines around are skipped. *)
LEMMA ConditionalKeeps ==
    ASSUME Groups(ifs, truth), NEW l, Conditional(l)
    PROVE  Groups(ifs', truth')
<1>1. ASSUME NEW v \in BOOLEAN, PreprocessorEnterIf(v)
      PROVE  Groups(ifs', truth')
  <2>1. /\ IsPreprocessorIfSkip \in BOOLEAN
        /\ IsPreprocessorIfSkip <=> (ifs # <<>> /\ Top(ifs).fSkip)
    <3>1. ifs # <<>> => Top(ifs) \in If
      BY PopTop DEF Groups
    <3> QED BY <3>1 DEF IsPreprocessorIfSkip, If
  <2> QED BY <1>1, <2>1, EnterKeeps DEF PreprocessorEnterIf
<1>2. ASSUME NEW v \in BOOLEAN, ifs # <<>>, ProcessElif(v), Branch(v)
      PROVE  Groups(ifs', truth')
  <2>1. ifs \in Seq(If) /\ Top(ifs) \in If
    BY <1>2, PopTop DEF Groups
  <2>2. CASE Top(ifs).fIgnore
    BY <1>2, <2>1, <2>2, ExchangeSame, BranchKeeps DEF ProcessElif, Branch
  <2>3. CASE ~Top(ifs).fIgnore
    <3> DEFINE value == v /\ ~Top(ifs).fSatisfied
               f == [Top(ifs) EXCEPT !.fSkip = ~value, !.fSatisfied = @ \/ value]
    <3>1. ifs' = Exchange(ifs, f)
      BY <1>2, <2>3 DEF ProcessElif, ContinuePreprocessorIf
    <3>2. /\ f \in If /\ f.fIgnore = Top(ifs).fIgnore
          /\ f.fSkip = ~value
          /\ f.fSatisfied = (Top(ifs).fSatisfied \/ value)
      BY <2>1 DEF If
    <3> HIDE DEF f
    <3> QED BY <1>2, <2>3, <3>1, <3>2, BranchKeeps DEF Branch
  <2> QED BY <2>2, <2>3
<1>3. ASSUME ifs # <<>>, ProcessElse, Branch(TRUE)
      PROVE  Groups(ifs', truth')
  <2>1. ifs \in Seq(If) /\ Top(ifs) \in If
    BY <1>3, PopTop DEF Groups
  <2> DEFINE g == [Top(ifs) EXCEPT !.fHasElse = TRUE]
  <2>2. /\ g \in If /\ g.fIgnore = Top(ifs).fIgnore /\ g.fSkip = Top(ifs).fSkip
        /\ g.fSatisfied = Top(ifs).fSatisfied
    BY <2>1 DEF If
  <2>3. CASE Top(ifs).fIgnore
    <3>1. ifs' = Exchange(ifs, g)
      BY <1>3, <2>2, <2>3 DEF ProcessElse
    <3> HIDE DEF g
    <3> QED BY <1>3, <2>2, <2>3, <3>1, BranchKeeps DEF Branch
  <2>4. CASE ~Top(ifs).fIgnore
    <3> DEFINE value == ~g.fSatisfied
               f == [g EXCEPT !.fSkip = ~value, !.fSatisfied = @ \/ value]
    <3>1. ifs' = Exchange(ifs, f)
      BY <1>3, <2>2, <2>4 DEF ProcessElse, ContinuePreprocessorIf
    <3> HIDE DEF g
    <3>2. /\ f \in If /\ f.fIgnore = Top(ifs).fIgnore
          /\ f.fSkip = ~(TRUE /\ ~Top(ifs).fSatisfied)
          /\ f.fSatisfied = (Top(ifs).fSatisfied \/ (TRUE /\ ~Top(ifs).fSatisfied))
      BY <2>1, <2>2 DEF If
    <3> HIDE DEF f
    <3> QED BY <1>3, <2>4, <3>1, <3>2, BranchKeeps DEF Branch
  <2> QED BY <2>3, <2>4
<1>4. ASSUME ifs # <<>>, ifs' = Pop(ifs), truth' = Pop(truth)
      PROVE  Groups(ifs', truth')
  BY <1>4, PopKeeps
<1>5. CASE SameGroups
  BY <1>5 DEF SameGroups
<1>6. IfdefHolds(l) \in BOOLEAN /\ IfHolds(l) \in BOOLEAN
  BY DEF IfdefHolds, IfHolds
<1> QED BY <1>1, <1>2, <1>3, <1>4, <1>5, <1>6 DEF Conditional

LEMMA GroupsStep ==
    ASSUME Groups(ifs, truth), [PreprocNext]_preprocVars
    PROVE  Groups(ifs', truth')
<1>1. ASSUME NEW l \in Lines, ReadNextLine(l) PROVE Groups(ifs', truth')
  <2>1. CASE SameGroups
    BY <2>1 DEF SameGroups
  <2>2. CASE Conditional(l)
    BY <2>2, ConditionalKeeps
  <2> QED BY <1>1, <2>1, <2>2 DEF ReadNextLine
<1>2. CASE EndOfStream
  BY <1>2 DEF EndOfStream
<1>3. CASE SkipComment \/ Lex \/ BeginReplace \/ ReplaceToken
  BY <1>3 DEF SkipComment, Lex, BeginReplace, ReplaceToken
<1>4. CASE UNCHANGED preprocVars
  BY <1>4 DEF preprocVars
<1> QED BY <1>1, <1>2, <1>3, <1>4 DEF PreprocNext

(* The flags of every group say what its branches do, whatever is read. *)
THEOREM GroupsInvariant == PreprocSpec => []Groups(ifs, truth)
<1>1. PreprocInit => Groups(ifs, truth)
  BY DEF PreprocInit, Groups
<1>2. Groups(ifs, truth) /\ [PreprocNext]_preprocVars => Groups(ifs, truth)'
  <2>1. Groups(ifs, truth)' <=> Groups(ifs', truth')
    BY DEF Groups, Group, TakenIn
  <2> QED BY <2>1, GroupsStep
<1> QED BY <1>1, <1>2, PTL DEF PreprocSpec

(* Lines are skipped just where the branch of an enclosing group is not    *)
(* taken (ProcessIf, ProcessElse, PreprocessorEnterIf), however deep       *)
(* groups nest and whatever files they are spread over.                    *)
THEOREM BranchesSelected == PreprocSpec => []SelectsBranches
<1>1. Groups(ifs, truth) => SelectsBranches
  <2> SUFFICES ASSUME Groups(ifs, truth) PROVE SelectsBranches
    OBVIOUS
  <2>1. DOMAIN truth = 1 .. Len(ifs)
    BY LenProperties DEF Groups
  <2>2. (ifs # <<>> /\ Top(ifs).fSkip) <=> \E k \in 1 .. Len(ifs) : ~TakenIn(truth, k)
    BY InnermostTells
  <2> QED BY <2>1, <2>2 DEF SelectsBranches, IsPreprocessorIfSkip, Taken, TakenIn
<1> QED BY <1>1, GroupsInvariant, PTL

(* An input that ends without an error leaves no group open (ReadNextLine  *)
(* reports the end of a stream inside one). *)
THEOREM GroupsAlwaysClosed == PreprocSpec => []GroupsClosed
<1>1. PreprocInit => GroupsClosed
  BY DEF PreprocInit, GroupsClosed
<1>2. GroupsClosed /\ [PreprocNext]_preprocVars => GroupsClosed'
  <2> SUFFICES ASSUME GroupsClosed, [PreprocNext]_preprocVars PROVE GroupsClosed'
    OBVIOUS
  <2>1. ASSUME NEW l \in Lines, ReadNextLine(l) PROVE GroupsClosed'
    <3>1. mode # "end"
      BY <2>1 DEF ReadNextLine, NeedsLine
    <3>2. mode' = mode \/ errors' = TRUE
      BY <2>1 DEF ReadNextLine, Include, Complain
    <3> QED BY <3>1, <3>2 DEF GroupsClosed
  <2>2. CASE EndOfStream
    <3>1. mode # "end"
      BY <2>2 DEF EndOfStream, NeedsLine
    <3>2. mode' = "end" => errors' = (errors \/ Unclosed)
      BY <2>2, <3>1 DEF EndOfStream
    <3>3. ifs' = ifs
      BY <2>2 DEF EndOfStream
    <3> QED BY <3>2, <3>3 DEF GroupsClosed, Unclosed
  <2>3. CASE SkipComment \/ Lex \/ BeginReplace \/ ReplaceToken
    <3>1. mode' # "end"
      BY <2>3 DEF SkipComment, Lex, BeginReplace, ReplaceToken
    <3> QED BY <3>1 DEF GroupsClosed
  <2>4. CASE UNCHANGED preprocVars
    BY <2>4 DEF preprocVars, lexing, GroupsClosed
  <2> QED BY <2>1, <2>2, <2>3, <2>4 DEF PreprocNext
<1> QED BY <1>1, <1>2, PTL DEF PreprocSpec

-----------------------------------------------------------------------------
(* Macros: entries are numbered by their place, which is what tells a      *)
(* circle. *)
Name == Words \cup Files \cup Missing \cup {"0", "1", ""}
Define == [name : Name, id : Int, value : Seq(Token), builtIn : BOOLEAN]

Numbered(d) == d \in Seq(Define) /\ \A n \in 1 .. Len(d) : d[n].id = n - 1

LEMMA WithoutNumbered ==
    ASSUME Numbered(defines), NEW n \in DOMAIN defines
    PROVE  Numbered(Without(n))
<1>1. PICK N \in Nat : N = Len(defines) /\ DOMAIN defines = 1 .. N /\ n \in 1 .. N
  BY DEF Numbered
<1>2. \A m \in 1 .. N : defines[m] \in Define /\ defines[m].id = m - 1
  BY <1>1 DEF Numbered
<1>3. Without(n) = [m \in 1 .. N - 1 |-> IF m < n THEN defines[m]
                                         ELSE [defines[m + 1] EXCEPT !.id = @ - 1]]
  BY <1>1 DEF Without
<1>4. ASSUME NEW m \in 1 .. N - 1
      PROVE  Without(n)[m] \in Define /\ Without(n)[m].id = m - 1
  <2>1. CASE m < n
    BY <1>1, <1>2, <1>3, <2>1
  <2>2. CASE ~(m < n)
    <3> DEFINE e == defines[m + 1]
    <3>1. e \in Define /\ e.id = m
      BY <1>1, <1>2
    <3>2. Without(n)[m] = [e EXCEPT !.id = @ - 1]
      BY <1>3, <2>2
    <3> HIDE DEF e
    <3>3. e.id - 1 = m - 1 /\ m - 1 \in Int
      BY <3>1
    <3> QED BY <3>1, <3>2, <3>3 DEF Define
  <2> QED BY <2>1, <2>2
<1>5. N - 1 \in Nat
  BY <1>1
<1>6. Without(n) \in Seq(Define) /\ Len(Without(n)) = N - 1
  <2>1. Without(n) = [m \in 1 .. N - 1 |-> Without(n)[m]]
    BY <1>3
  <2>2. Without(n) \in [1 .. N - 1 -> Define]
    BY <1>4, <2>1
  <2> QED BY <1>5, <2>2
<1> QED BY <1>4, <1>6 DEF Numbered

LEMMA LookupFinds ==
    ASSUME NEW name, Defined(name)
    PROVE  Lookup(name) \in DOMAIN defines /\ defines[Lookup(name)].name = name
BY DEF Defined, Lookup

LEMMA UndefinedNumbered ==
    ASSUME Numbered(defines), NEW name
    PROVE  Numbered(Undefined(name))
BY LookupFinds, WithoutNumbered DEF Undefined

LEMMA CreateNumbered ==
    ASSUME Numbered(defines), NEW l \in Line
    PROVE  Numbered(CreateDefine(l.operand, l.value))
<1> DEFINE others == Undefined(l.operand)
           e == [name |-> l.operand, id |-> Len(others), value |-> l.value, builtIn |-> FALSE]
<1>1. Numbered(others)
  BY UndefinedNumbered
<1> HIDE DEF others
<1>2. others \in Seq(Define) /\ Len(others) \in Nat /\ e \in Define /\ e.id = Len(others)
  <2>1. others \in Seq(Define) /\ Len(others) \in Nat
    BY <1>1 DEF Numbered
  <2>2. l.operand \in Name /\ l.value \in Seq(Token)
    BY DEF Line, Name
  <2>3. Len(others) \in Int
    BY <2>1
  <2> QED BY <2>1, <2>2, <2>3 DEF Define
<1> HIDE DEF e
<1>3. Numbered(Append(others, e))
  BY <1>1, <1>2 DEF Numbered
<1> QED BY <1>3 DEF CreateDefine, others, e

LEMMA DefinesNumbered == PreprocSpec => []Numbered(defines)
<1>1. PreprocInit => Numbered(defines)
  <2> SUFFICES ASSUME PreprocInit PROVE Numbered(defines)
    OBVIOUS
  <2>1. CASE ~enabled
    BY <2>1 DEF PreprocInit, Numbered
  <2>2. CASE enabled
    <3> DEFINE d == [n \in DOMAIN BuiltIn |-> [name |-> BuiltIn[n], id |-> n - 1,
                                               value |-> <<"1">>, builtIn |-> TRUE]]
    <3>1. defines = d
      BY <2>2 DEF PreprocInit
    <3>2. PICK N \in Nat : DOMAIN BuiltIn = 1 .. N /\ \A n \in 1 .. N : BuiltIn[n] \in Words
      BY PreprocAssumption
    <3>3. <<"1">> \in Seq(Token)
      BY DEF Token
    <3>4. ASSUME NEW n \in 1 .. N PROVE d[n] \in Define /\ d[n].id = n - 1
      <4>0. BuiltIn[n] \in Words
        BY <3>2
      <4>1. BuiltIn[n] \in Name /\ n - 1 \in Int
        <5>1. BuiltIn[n] \in Name
          BY <4>0 DEF Name
        <5>2. n - 1 \in Int
          OBVIOUS
        <5> QED BY <5>1, <5>2
      <4>2. d[n] = [name |-> BuiltIn[n], id |-> n - 1, value |-> <<"1">>, builtIn |-> TRUE]
        BY <3>2
      <4> HIDE DEF d
      <4> QED BY <3>3, <4>1, <4>2 DEF Define
    <3>5. d \in [1 .. N -> Define]
      BY <3>2, <3>4
    <3> HIDE DEF d
    <3>6. d \in Seq(Define) /\ Len(d) = N
      BY <3>5
    <3> QED BY <3>1, <3>4, <3>6 DEF Numbered
  <2> QED BY <2>1, <2>2 DEF PreprocInit
<1>2. Numbered(defines) /\ [PreprocNext]_preprocVars => Numbered(defines)'
  <2> SUFFICES ASSUME Numbered(defines), [PreprocNext]_preprocVars PROVE Numbered(defines')
    BY DEF Numbered
  <2>1. ASSUME NEW l \in Lines, ReadNextLine(l) PROVE Numbered(defines')
    <3>1. l \in Line
      BY PreprocAssumption
    <3>2. \/ defines' = defines \/ defines' = Undefined(l.operand)
          \/ defines' = CreateDefine(l.operand, l.value)
      BY <2>1 DEF ReadNextLine, Effect
    <3> QED BY <3>1, <3>2, UndefinedNumbered, CreateNumbered
  <2>2. CASE EndOfStream \/ SkipComment \/ Lex \/ BeginReplace \/ ReplaceToken
    BY <2>2 DEF EndOfStream, SkipComment, Lex, BeginReplace, ReplaceToken
  <2>3. CASE UNCHANGED preprocVars
    BY <2>3 DEF preprocVars
  <2> QED BY <2>1, <2>2, <2>3 DEF PreprocNext
<1> QED BY <1>1, <1>2, PTL DEF PreprocSpec

(* Every non-empty set of natural numbers has a least element. *)
LEMMA LessThanWellFounded == IsWellFoundedOn({ss \in Nat \X Nat : ss[1] < ss[2]}, Nat)
BY NatLessThanWellFounded DEF OpToRel

LEMMA Least ==
    ASSUME NEW T, T \subseteq Nat, T # {}
    PROVE  \E x \in T : \A y \in T : x <= y
<1> DEFINE R == {ss \in Nat \X Nat : ss[1] < ss[2]}
<1>1. \A x, y \in Nat : y < x => <<y, x>> \in R
  OBVIOUS
<1>2. IsWellFoundedOn(R, Nat)
  BY LessThanWellFounded
<1> HIDE DEF R
<1>3. PICK x \in T : \A y \in T : ~ (<<y, x>> \in R)
  BY <1>2, WFMin, Zenon
<1>4. ASSUME NEW y \in T PROVE ~ (y < x)
  <2>1. x \in Nat /\ y \in Nat
    OBVIOUS
  <2> QED BY <1>1, <1>3, <2>1, Zenon
<1>5. ASSUME NEW y \in T PROVE x <= y
  BY <1>4
<1> QED BY <1>5

(* The chain of macros from a word, by the entries d. *)
Known(d, value) == Len(value) = 1 /\ \E n \in DOMAIN d : d[n].name = value[1]
Entry(d, value) == CHOOSE n \in DOMAIN d : d[n].name = value[1]
Next(d, value) == IF Known(d, value) THEN d[Entry(d, value)].value ELSE value

Links(d, word, K, f) == f = [n \in 0 .. K |-> IF n = 0 THEN <<word>> ELSE Next(d, f[n - 1])]
ChainOf(d, word) == CHOOSE f : Links(d, word, Len(d), f)

LEMMA LinksExist ==
    ASSUME NEW d, NEW word, NEW K \in Nat
    PROVE  \E f : Links(d, word, K, f)
<1> DEFINE T == {m \in Nat : ~ \E f : Links(d, word, m, f)}
<1>1. SUFFICES ASSUME T # {} PROVE FALSE
  OBVIOUS
<1>2. PICK m \in T : \A y \in T : m <= y
  <2>1. T \subseteq Nat
    OBVIOUS
  <2> HIDE DEF T
  <2> QED BY <1>1, <2>1, Least
<1>3. m \in Nat /\ ~ \E f : Links(d, word, m, f)
  OBVIOUS
<1>4. CASE m = 0
  <2> DEFINE f == [n \in 0 .. 0 |-> <<word>>]
  <2>1. f = [n \in 0 .. 0 |-> IF n = 0 THEN <<word>> ELSE Next(d, f[n - 1])]
    OBVIOUS
  <2> QED BY <1>3, <1>4, <2>1 DEF Links
<1>5. CASE m # 0
  <2>1. m - 1 \in Nat /\ m - 1 \notin T
    BY <1>2, <1>3, <1>5
  <2>2. PICK g : Links(d, word, m - 1, g)
    BY <2>1
  <2> DEFINE f == [n \in 0 .. m |-> IF n = m THEN Next(d, g[m - 1]) ELSE g[n]]
             h == [n \in 0 .. m |-> IF n = 0 THEN <<word>> ELSE Next(d, f[n - 1])]
  <2>3. ASSUME NEW n \in 0 .. m PROVE f[n] = h[n]
    <3>1. CASE n = m
      <4>1. n - 1 \in 0 .. m /\ n - 1 # m
        BY <1>3, <1>5, <3>1
      <4>2. f[n - 1] = g[n - 1]
        BY <4>1
      <4> QED BY <1>5, <3>1, <4>2
    <3>2. CASE n # m /\ n # 0
      <4>1. n \in 0 .. m - 1 /\ n - 1 \in 0 .. m /\ n - 1 # m
        BY <1>3, <3>2
      <4>2. f[n - 1] = g[n - 1] /\ f[n] = g[n]
        BY <3>2, <4>1
      <4>3. g[n] = Next(d, g[n - 1])
        BY <2>2, <3>2, <4>1 DEF Links
      <4> QED BY <3>2, <4>2, <4>3
    <3>3. CASE n = 0
      <4>1. g[0] = <<word>>
        <5>1. 0 \in 0 .. m - 1
          BY <1>3, <1>5
        <5> QED BY <2>2, <5>1 DEF Links
      <4> QED BY <1>5, <3>3, <4>1
    <3> QED BY <3>1, <3>2, <3>3
  <2>4. f = h
    <3>1. f = [n \in 0 .. m |-> f[n]] /\ h = [n \in 0 .. m |-> h[n]]
      OBVIOUS
    <3> HIDE DEF f, h
    <3> QED BY <2>3, <3>1
  <2>5. Links(d, word, m, f)
    <3>1. h = [n \in 0 .. m |-> IF n = 0 THEN <<word>> ELSE Next(d, f[n - 1])]
      OBVIOUS
    <3> HIDE DEF f, h
    <3> QED BY <2>4, <3>1 DEF Links
  <2> QED BY <1>3, <2>5
<1> QED BY <1>4, <1>5

LEMMA ChainFacts ==
    ASSUME NEW d \in Seq(Define), NEW word \in Token
    PROVE  LET f == ChainOf(d, word) IN
           /\ DOMAIN f = 0 .. Len(d) /\ f[0] = <<word>>
           /\ \A n \in 1 .. Len(d) : f[n] = Next(d, f[n - 1])
           /\ \A n \in 0 .. Len(d) : f[n] \in Seq(Token)
<1> DEFINE f == ChainOf(d, word)
<1>1. PICK K \in Nat : K = Len(d) /\ DOMAIN d = 1 .. K
  OBVIOUS
<1>2. Links(d, word, K, f)
  <2>1. \E g : Links(d, word, K, g)
    BY LinksExist
  <2> QED BY <1>1, <2>1 DEF ChainOf
<1> HIDE DEF f
<1>3. DOMAIN f = 0 .. K /\ \A n \in 0 .. K : f[n] = IF n = 0 THEN <<word>> ELSE Next(d, f[n - 1])
  BY <1>2 DEF Links
<1>4. f[0] = <<word>>
  <2>1. 0 \in 0 .. K
    OBVIOUS
  <2> QED BY <1>3, <2>1
<1>5. ASSUME NEW n \in 1 .. K PROVE f[n] = Next(d, f[n - 1])
  <2>1. n \in 0 .. K /\ n # 0
    OBVIOUS
  <2> QED BY <1>3, <2>1
<1>6. ASSUME NEW v \in Seq(Token) PROVE Next(d, v) \in Seq(Token)
  <2>1. CASE Known(d, v)
    <3>1. Entry(d, v) \in DOMAIN d
      BY <2>1 DEF Known, Entry
    <3>2. d[Entry(d, v)] \in Define
      BY <3>1
    <3> QED BY <2>1, <3>2 DEF Next, Define
  <2>2. CASE ~Known(d, v)
    BY <2>2 DEF Next
  <2> QED BY <2>1, <2>2
<1>7. \A n \in 0 .. K : f[n] \in Seq(Token)
  <2> DEFINE T == {n \in 0 .. K : f[n] \notin Seq(Token)}
  <2>1. SUFFICES ASSUME T # {} PROVE FALSE
    OBVIOUS
  <2>2. PICK m \in T : \A y \in T : m <= y
    <3>1. T \subseteq Nat
      OBVIOUS
    <3> HIDE DEF T
    <3> QED BY <2>1, <3>1, Least
  <2>3. m # 0
    <3>1. <<word>> \in Seq(Token)
      OBVIOUS
    <3> QED BY <1>4, <3>1
  <2>4. m \in 1 .. K /\ m - 1 \in 0 .. K /\ ~(m <= m - 1)
    BY <2>3
  <2>5. m - 1 \notin T
    BY <2>2, <2>4
  <2>6. f[m - 1] \in Seq(Token)
    BY <2>4, <2>5
  <2> QED BY <1>5, <1>6, <2>4, <2>6
<1> QED BY <1>1, <1>3, <1>4, <1>5, <1>7 DEF f

(* A chain that does not go on stays as it is. *)
LEMMA ChainStays ==
    ASSUME NEW d \in Seq(Define), NEW word \in Token, NEW k \in 0 .. Len(d),
           Next(d, ChainOf(d, word)[k]) = ChainOf(d, word)[k]
    PROVE  \A n \in k .. Len(d) : ChainOf(d, word)[n] = ChainOf(d, word)[k]
<1> DEFINE f == ChainOf(d, word)
           T == {n \in k .. Len(d) : f[n] # f[k]}
<1>1. PICK K \in Nat : K = Len(d)
  OBVIOUS
<1>2. \A n \in 1 .. K : f[n] = Next(d, f[n - 1])
  BY <1>1, ChainFacts
<1>3. Next(d, f[k]) = f[k]
  OBVIOUS
<1> HIDE DEF f
<1>4. SUFFICES ASSUME T # {} PROVE FALSE
  BY DEF f
<1>5. PICK m \in T : \A y \in T : m <= y
  <2>1. T \subseteq Nat
    BY <1>1
  <2> HIDE DEF T
  <2> QED BY <1>4, <2>1, Least
<1>6. m \in k .. K /\ f[m] # f[k]
  BY <1>1
<1>7. m # k
  BY <1>6
<1>8. m \in 1 .. K /\ m - 1 \in k .. K /\ ~(m <= m - 1)
  BY <1>1, <1>6, <1>7
<1>9. m - 1 \notin T
  BY <1>5, <1>8
<1>10. f[m - 1] = f[k]
  BY <1>1, <1>8, <1>9
<1> QED BY <1>2, <1>3, <1>6, <1>8, <1>10

(* Where ReplaceToken is after k macros of the chain f: it has seen just   *)
(* their numbers, which are all different. *)
Going(d, f, value, seen, k) ==
    /\ k \in 0 .. Len(d) /\ value = f[k]
    /\ IsFiniteSet(seen) /\ Cardinality(seen) = k
    /\ \A i \in 0 .. k - 1 : Known(d, f[i])
    /\ seen = {d[Entry(d, f[i])].id : i \in 0 .. k - 1}

LEMMA EntryFacts ==
    ASSUME NEW d, Numbered(d), NEW v, Known(d, v)
    PROVE  /\ Entry(d, v) \in 1 .. Len(d) /\ d[Entry(d, v)].name = v[1] /\ Len(v) = 1
           /\ d[Entry(d, v)].id = Entry(d, v) - 1
<1>1. Entry(d, v) \in DOMAIN d /\ d[Entry(d, v)].name = v[1] /\ Len(v) = 1
  BY DEF Known, Entry
<1> QED BY <1>1 DEF Numbered

(* There are no more macros than entries. *)
LEMMA SeenBound ==
    ASSUME NEW d, Numbered(d), NEW f, NEW k \in Nat, NEW seen, IsFiniteSet(seen), Cardinality(seen) = k,
           \A i \in 0 .. k - 1 : Known(d, f[i]),
           seen = {d[Entry(d, f[i])].id : i \in 0 .. k - 1}
    PROVE  k <= Len(d)
<1>1. PICK K \in Nat : K = Len(d)
  BY DEF Numbered
<1>2. seen \subseteq 0 .. K - 1
  <2>1. SUFFICES ASSUME NEW i \in 0 .. k - 1 PROVE d[Entry(d, f[i])].id \in 0 .. K - 1
    OBVIOUS
  <2>2. Entry(d, f[i]) \in 1 .. K /\ d[Entry(d, f[i])].id = Entry(d, f[i]) - 1
    BY <1>1, EntryFacts
  <2> QED BY <2>2
<1>3. IsFiniteSet(0 .. K - 1) /\ Cardinality(0 .. K - 1) = K
  BY FS_Interval
<1>4. Cardinality(seen) <= Cardinality(0 .. K - 1)
  BY <1>2, <1>3, FS_Subset
<1> QED BY <1>1, <1>3, <1>4

(* One macro further. *)
LEMMA GoingOn ==
    ASSUME NEW d, Numbered(d), NEW word \in Token, NEW value, NEW seen, NEW k,
           Going(d, ChainOf(d, word), value, seen, k), Known(d, value),
           d[Entry(d, value)].id \notin seen
    PROVE  Going(d, ChainOf(d, word), d[Entry(d, value)].value,
                 seen \cup {d[Entry(d, value)].id}, k + 1)
<1> DEFINE f == ChainOf(d, word)
           x == d[Entry(d, value)].id
           u == seen \cup {x}
<1>1. PICK K \in Nat : K = Len(d) /\ k \in 0 .. K
  BY DEF Numbered, Going
<1>2. /\ value = f[k] /\ IsFiniteSet(seen) /\ Cardinality(seen) = k
      /\ \A i \in 0 .. k - 1 : Known(d, f[i])
      /\ seen = {d[Entry(d, f[i])].id : i \in 0 .. k - 1}
  BY DEF Going
<1>3. \A n \in 1 .. K : f[n] = Next(d, f[n - 1])
  BY <1>1, ChainFacts DEF Numbered
<1> HIDE DEF f
<1>4. IsFiniteSet(u) /\ Cardinality(u) = k + 1
  <2> HIDE DEF x
  <2> QED BY <1>2, FS_AddElement DEF x
<1>5. \A i \in 0 .. k : i = k \/ i \in 0 .. k - 1
  BY <1>1
<1>6. \A i \in 0 .. k : Known(d, f[i])
  BY <1>2, <1>5
<1>7. u = {d[Entry(d, f[i])].id : i \in 0 .. k}
  <2>1. k \in 0 .. k /\ 0 .. k - 1 \subseteq 0 .. k
    BY <1>1
  <2> QED BY <1>2, <1>5, <2>1
<1>8. k + 1 \in Nat /\ k + 1 - 1 = k
  BY <1>1
<1>9. k + 1 <= K
  <2> HIDE DEF u
  <2>1. PICK m \in Nat : m = k + 1 /\ m - 1 = k
    BY <1>1
  <2>2. m <= Len(d)
    <3>1. /\ Cardinality(u) = m /\ \A i \in 0 .. m - 1 : Known(d, f[i])
          /\ u = {d[Entry(d, f[i])].id : i \in 0 .. m - 1}
      BY <1>4, <1>6, <1>7, <2>1
    <3> QED BY <1>4, <3>1, SeenBound
  <2> QED BY <1>1, <2>1, <2>2
<1>10. d[Entry(d, value)].value = f[k + 1]
  <2>1. PICK m \in 1 .. K : m = k + 1 /\ m - 1 = k
    BY <1>1, <1>9
  <2>2. f[m] = Next(d, f[m - 1])
    BY <1>3
  <2> QED BY <1>2, <2>1, <2>2 DEF Next
<1>11. k + 1 \in 0 .. Len(d)
  BY <1>1, <1>8, <1>9
<1> HIDE DEF x, u
<1>12. Going(d, f, d[Entry(d, value)].value, u, k + 1)
  BY <1>4, <1>6, <1>7, <1>8, <1>10, <1>11 DEF Going
<1> QED BY <1>12 DEF f, u, x

(* Where the chain does not go on it stays; and where it comes to a macro  *)
(* again, all there is behind is in the circle. *)
LEMMA ChainEnd ==
    ASSUME NEW d, Numbered(d), NEW word \in Token, NEW value, NEW seen, NEW k,
           Going(d, ChainOf(d, word), value, seen, k),
           ~Known(d, value) \/ d[Entry(d, value)].id \in seen
    PROVE  LET f == ChainOf(d, word)
               end == f[Len(d)]
           IN /\ Next(d, end) = end \/ ~Known(d, end) => value = end
              /\ ~(Next(d, end) = end \/ ~Known(d, end)) => k \in 1 .. Len(d) /\ value = f[k]
<1> DEFINE f == ChainOf(d, word)
<1>1. PICK K \in Nat : K = Len(d) /\ k \in 0 .. K /\ K \in k .. K
  BY DEF Numbered, Going
<1>0. d \in Seq(Define)
  BY DEF Numbered
<1>2. /\ value = f[k] /\ \A i \in 0 .. k - 1 : Known(d, f[i])
      /\ seen = {d[Entry(d, f[i])].id : i \in 0 .. k - 1}
  BY DEF Going
<1>3. /\ \A n \in 1 .. K : f[n] = Next(d, f[n - 1])
      /\ \A n \in 0 .. K : f[n] \in Seq(Token)
  BY <1>0, <1>1, ChainFacts
<1>4. ASSUME NEW i \in 0 .. K, Next(d, f[i]) = f[i] PROVE \A n \in i .. K : f[n] = f[i]
  BY <1>0, <1>1, <1>4, ChainStays
<1> HIDE DEF f
<1>5. CASE ~Known(d, value)
  <2>1. Next(d, f[k]) = f[k]
    BY <1>2, <1>5 DEF Next
  <2>2. f[K] = f[k]
    BY <1>1, <1>4, <2>1
  <2> QED BY <1>1, <1>2, <1>5, <2>2 DEF f
<1>6. CASE Known(d, value) /\ d[Entry(d, value)].id \in seen
  <2>1. PICK j \in 0 .. k - 1 : d[Entry(d, value)].id = d[Entry(d, f[j])].id /\ Known(d, f[j])
    BY <1>2, <1>6
  <2>2. /\ Entry(d, value) \in 1 .. K /\ d[Entry(d, value)].id = Entry(d, value) - 1
        /\ d[Entry(d, value)].name = value[1] /\ Len(value) = 1
    BY <1>1, <1>6, EntryFacts
  <2>3. /\ Entry(d, f[j]) \in 1 .. K /\ d[Entry(d, f[j])].id = Entry(d, f[j]) - 1
        /\ d[Entry(d, f[j])].name = f[j][1] /\ Len(f[j]) = 1
    BY <1>1, <2>1, EntryFacts
  <2>4. Entry(d, value) = Entry(d, f[j])
    <3>1. PICK x \in Int, y \in Int : x = Entry(d, value) /\ y = Entry(d, f[j])
      BY <2>2, <2>3
    <3>2. x - 1 = y - 1
      BY <2>1, <2>2, <2>3, <3>1
    <3> QED BY <3>1, <3>2
  <2>5. value = f[j]
    <3>1. value[1] = f[j][1]
      BY <2>2, <2>3, <2>4
    <3>2. value \in Seq(Token) /\ f[j] \in Seq(Token)
      BY <1>1, <1>2, <1>3
    <3> QED BY <2>2, <2>3, <3>1, <3>2, SeqEqual
  <2>6. k \in 1 .. K
    BY <1>1
  <2> DEFINE T == {n \in 0 .. K : ~ \E i \in 0 .. k - 1 : f[n] = f[i]}
  <2>7. \A n \in 0 .. K : \E i \in 0 .. k - 1 : f[n] = f[i]
    <3>1. SUFFICES ASSUME T # {} PROVE FALSE
      OBVIOUS
    <3>2. PICK m \in T : \A y \in T : m <= y
      <4>1. T \subseteq Nat
        OBVIOUS
      <4> HIDE DEF T
      <4> QED BY <3>1, <4>1, Least
    <3>3. m # 0
      <4>1. 0 \in 0 .. k - 1
        BY <2>6
      <4> QED BY <4>1
    <3>4. m \in 1 .. K /\ m - 1 \in 0 .. K /\ ~(m <= m - 1)
      BY <3>3
    <3>5. m - 1 \notin T
      BY <3>2, <3>4
    <3>6. PICK i \in 0 .. k - 1 : f[m - 1] = f[i]
      BY <3>4, <3>5
    <3>7. f[m] = f[i + 1]
      <4>1. i + 1 \in 1 .. K /\ i + 1 - 1 = i
        BY <2>6
      <4>2. f[i + 1] = Next(d, f[i + 1 - 1])
        BY <1>3, <4>1
      <4> QED BY <1>3, <3>4, <3>6, <4>1, <4>2
    <3>8. i + 1 \in 0 .. k - 1 \/ i + 1 = k
      BY <2>6
    <3>9. \E n \in 0 .. k - 1 : f[i + 1] = f[n]
      BY <1>2, <2>5, <3>8
    <3> QED BY <3>7, <3>9
  <2>8. PICK i \in 0 .. k - 1 : f[K] = f[i]
    <3>1. K \in 0 .. K
      OBVIOUS
    <3> QED BY <2>7, <3>1
  <2>9. Known(d, f[K])
    BY <1>2, <2>8
  <2>10. ASSUME Next(d, f[K]) = f[K] PROVE value = f[K]
    <3>1. i \in 0 .. K /\ k \in i .. K
      BY <2>6
    <3>2. f[k] = f[i]
      BY <1>4, <2>8, <2>10, <3>1
    <3> QED BY <1>2, <2>8, <3>2
  <2> QED BY <1>1, <1>2, <2>6, <2>9, <2>10 DEF f
<1> QED BY <1>5, <1>6

(* What ReplaceToken reads is what the chain is told from. *)
LEMMA ChainTerms ==
    ASSUME NEW v
    PROVE  /\ Followed(v) = Next(defines, v)
           /\ \A word : Chain(word) = ChainOf(defines, word)
           /\ Known(defines, v) <=> (Len(v) = 1 /\ Defined(v[1]))
           /\ Entry(defines, v) = Lookup(v[1])
<1>1. Known(defines, v) <=> (Len(v) = 1 /\ Defined(v[1]))
  BY DEF Known, Defined
<1>2. Entry(defines, v) = Lookup(v[1])
  BY DEF Entry, Lookup
<1>3. \A w : Followed(w) = Next(defines, w)
  BY DEF Followed, Next, Known, Defined, Entry, Lookup
<1>4. ASSUME NEW word PROVE Chain(word) = ChainOf(defines, word)
  <2> DEFINE K == Len(defines)
             after[n \in 0 .. K] == IF n = 0 THEN <<word>> ELSE Followed(after[n - 1])
  <2>1. Chain(word) = after
    BY DEF Chain
  <2>2. \A f : Links(defines, word, K, f)
                 <=> f = [n \in 0 .. K |-> IF n = 0 THEN <<word>> ELSE Followed(f[n - 1])]
    BY <1>3 DEF Links
  <2>3. after = CHOOSE f : f = [n \in 0 .. K |-> IF n = 0 THEN <<word>> ELSE Followed(f[n - 1])]
    OBVIOUS
  <2>4. (CHOOSE f : Links(defines, word, K, f))
          = CHOOSE f : f = [n \in 0 .. K |-> IF n = 0 THEN <<word>> ELSE Followed(f[n - 1])]
    BY <2>2
  <2> HIDE DEF after
  <2> QED BY <2>1, <2>3, <2>4 DEF ChainOf
<1> QED BY <1>1, <1>2, <1>3, <1>4

Replacing ==
    mode = "replace" =>
      \E w, v, s, k :
        /\ w \in Token
        /\ replacing = [word |-> w, value |-> v, seen |-> s]
        /\ Going(defines, ChainOf(defines, w), v, s, k)

LEMMA ReplacingStep ==
    ASSUME Numbered(defines), Replacing, [PreprocNext]_preprocVars
    PROVE  Replacing'
<1>1. CASE mode' # "replace"
  BY <1>1 DEF Replacing
<1>2. CASE mode' = mode /\ defines' = defines /\ replacing' = replacing
  BY <1>2 DEF Replacing
<1>3. CASE BeginReplace
  <2> DEFINE w == Head(rest)
  <2>1. /\ w \in Words /\ defines' = defines
        /\ replacing' = [word |-> w, value |-> <<w>>, seen |-> {}]
    BY <1>3 DEF BeginReplace, Replaceable
  <2> HIDE DEF w
  <2>2. w \in Token
    BY <2>1 DEF Token
  <2>3. PICK K \in Nat : K = Len(defines) /\ 0 \in 0 .. K
    BY DEF Numbered
  <2>4. ChainOf(defines, w)[0] = <<w>>
    BY <2>2, ChainFacts DEF Numbered
  <2>5. IsFiniteSet({}) /\ Cardinality({}) = 0
    BY FS_EmptySet
  <2>6. 0 .. 0 - 1 = {}
    OBVIOUS
  <2>7. Going(defines, ChainOf(defines, w), <<w>>, {}, 0)
    BY <2>3, <2>4, <2>5, <2>6 DEF Going
  <2> QED BY <2>1, <2>2, <2>7 DEF Replacing
<1>4. CASE ReplaceToken
  <2>1. mode = "replace" /\ defines' = defines
    BY <1>4 DEF ReplaceToken
  <2>2. PICK w, v, s, k :
               /\ w \in Token
               /\ replacing = [word |-> w, value |-> v, seen |-> s]
               /\ Going(defines, ChainOf(defines, w), v, s, k)
    BY <2>1 DEF Replacing
  <2>3. CASE ChainEnds(v, s)
    <3>1. mode' = "code"
      BY <1>4, <2>2, <2>3 DEF ReplaceToken
    <3> QED BY <1>1, <3>1
  <2>4. CASE ~ChainEnds(v, s)
    <3> DEFINE x == defines[Lookup(v[1])].id
               y == defines[Lookup(v[1])].value
    <3>1. replacing' = [replacing EXCEPT !.value = y, !.seen = @ \cup {x}]
      BY <1>4, <2>2, <2>4 DEF ReplaceToken, GetDefineValue
    <3>2. replacing' = [word |-> w, value |-> y, seen |-> s \cup {x}]
      <4> HIDE DEF x, y
      <4> QED BY <2>2, <3>1
    <3>3. Known(defines, v) /\ Lookup(v[1]) = Entry(defines, v) /\ x \notin s
      BY <2>4, ChainTerms DEF ChainEnds
    <3>4. Going(defines, ChainOf(defines, w), y, s \cup {x}, k + 1)
      BY <2>2, <3>3, GoingOn
    <3> HIDE DEF x, y
    <3>5. w \in Token
      BY <2>2
    <3> QED BY <2>1, <3>2, <3>4, <3>5 DEF Replacing
  <2> QED BY <2>3, <2>4
<1>5. ASSUME NEW l \in Lines, ReadNextLine(l) PROVE mode' # "replace"
  BY <1>5 DEF ReadNextLine, NeedsLine, Include
<1>6. CASE EndOfStream
  <2>1. mode' # "replace"
    BY <1>6 DEF EndOfStream, NeedsLine
  <2> QED BY <1>1, <2>1
<1>7. CASE SkipComment \/ Lex
  <2>1. mode' # "replace"
    BY <1>7 DEF SkipComment, Lex
  <2> QED BY <1>1, <2>1
<1>8. CASE UNCHANGED preprocVars
  BY <1>2, <1>8 DEF preprocVars, lexing
<1> QED BY <1>1, <1>3, <1>4, <1>5, <1>6, <1>7, <1>8 DEF PreprocNext

LEMMA ReplacingInvariant == PreprocSpec => []Replacing
<1>1. PreprocInit => Replacing
  BY DEF PreprocInit, Replacing
<1>2. Numbered(defines) /\ Replacing /\ [PreprocNext]_preprocVars => Replacing'
  BY ReplacingStep
<1> QED BY <1>1, <1>2, DefinesNumbered, PTL DEF PreprocSpec

(* ReplaceToken follows a chain of macros to its end, and stops short of   *)
(* that only in a circle, however many macros there are and whichever of   *)
(* them were removed or replaced before (CreateDefine, Undefine). *)
THEOREM ChainsAreFollowed == PreprocSpec => []ChainsFollowed
<1>1. Numbered(defines) /\ Replacing => ChainsFollowed
  <2> SUFFICES ASSUME Numbered(defines), Replacing, mode = "replace",
                      ChainEnds(replacing.value, replacing.seen)
               PROVE  LET chain == Chain(replacing.word)
                          end == chain[Len(defines)]
                      IN IF end = Followed(end) \/ Len(end) # 1 \/ ~Defined(end[1])
                         THEN replacing.value = end
                         ELSE \E n \in DOMAIN chain : replacing.value = chain[n] /\ n > 0
    BY DEF ChainsFollowed
  <2>1. PICK w, v, s, k :
               /\ w \in Token
               /\ replacing = [word |-> w, value |-> v, seen |-> s]
               /\ Going(defines, ChainOf(defines, w), v, s, k)
    BY DEF Replacing
  <2> DEFINE chain == ChainOf(defines, w)
             end == chain[Len(defines)]
  <2>2. chain = Chain(replacing.word)
    BY <2>1, ChainTerms
  <2>3. ~Known(defines, v) \/ defines[Entry(defines, v)].id \in s
    BY <2>1, ChainTerms DEF ChainEnds
  <2>4. /\ Next(defines, end) = end \/ ~Known(defines, end) => v = end
        /\ ~(Next(defines, end) = end \/ ~Known(defines, end))
             => k \in 1 .. Len(defines) /\ v = chain[k]
    BY <2>1, <2>3, ChainEnd
  <2>5. /\ Followed(end) = Next(defines, end)
        /\ Known(defines, end) <=> (Len(end) = 1 /\ Defined(end[1]))
    BY ChainTerms
  <2>6. DOMAIN chain = 0 .. Len(defines)
    BY <2>1, ChainFacts DEF Numbered
  <2>7. Len(defines) \in Nat
    BY DEF Numbered
  <2> HIDE DEF chain
  <2>8. k \in 1 .. Len(defines) => k \in DOMAIN chain /\ k > 0
    BY <2>6, <2>7
  <2> QED BY <2>1, <2>2, <2>4, <2>5, <2>8
<1> QED BY <1>1, DefinesNumbered, ReplacingInvariant, PTL
=============================================================================
