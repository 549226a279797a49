--------------------------- MODULE NscParserProofs ---------------------------
(***************************************************************************)
(* Proofs about what the parser keeps.  About NscFences, for functions of  *)
(* any length and depth: a function with a result that is accepted does    *)
(* not end without a return, and the chain of fences is that of the        *)
(* constructs around.  About NscPStack, for any number of entries and      *)
(* pushes: an enumerator sees the codes that were pushed.                  *)
(***************************************************************************)
EXTENDS NscFences, NscPStack, SequenceTheorems, FiniteSetTheorems,
        WellFoundedInduction, TLAPS

Kinds == Controls \cup {"Function", "Block"}
Constructs == [kind : Kinds, entry : Entries, start : BOOLEAN, endless : BOOLEAN,
               broken : BOOLEAN, continued : BOOLEAN, first : BOOLEAN,
               labels : SUBSET Values, default : BOOLEAN]

Fence == [fFenceValid : BOOLEAN, nFenceType : FenceTypes \cup {"Scope", "None"},
          fn : {"value", "void", "none"}, fEatScope : BOOLEAN, fHasDefault : BOOLEAN,
          nLocals : Int, nPrevLocals : Int, nFenceReturn : {"Unknown", "No", "Yes"},
          pNext : Entries \cup {NoFence},
          extra : [as : {"other", "switch"}, cases : SUBSET Values]]

(* The type of the fence a construct has. *)
TypeOf(kind) == IF kind = "Else" THEN "If" ELSE IF kind = "Block" THEN "Scope" ELSE kind

(* e has the fence of the innermost of the first n constructs with one. *)
Holder(o, p, n, e) ==
    \E m \in 1 .. n : /\ p[o[m].entry].fFenceValid /\ e = o[m].entry
                      /\ \A j \in m + 1 .. n : ~p[o[j].entry].fFenceValid

(* The fences in pool p are linked, from c, as the constructs o are nested. *)
Linked(o, p, u, c) ==
    /\ o \in Seq(Constructs) /\ p \in [Entries -> Fence] /\ c \in Entries \cup {NoFence}
    /\ u = {o[n].entry : n \in DOMAIN o}
    /\ \A m, n \in DOMAIN o : o[m].entry = o[n].entry => m = n
    /\ \A e \in Entries : ~p[e].fFenceValid => p[e].pNext = NoFence
    /\ \A e \in Entries \ u : ~p[e].fFenceValid
    /\ \A n \in DOMAIN o :
         LET fence == p[o[n].entry] IN
         /\ n = 1 <=> o[n].kind = "Function"
         /\ o[n].kind # "Block" => fence.fFenceValid
         /\ fence.fFenceValid => /\ fence.nFenceType = TypeOf(o[n].kind)
                                 /\ n > 1 => Holder(o, p, n - 1, fence.pNext)
    /\ o # <<>> => Holder(o, p, Len(o), c)

(* Control did not get into it, nor out of it by a break or continue. *)
Dead(c) == c.kind = "Block" \/ ~(c.start \/ c.first \/ c.broken \/ c.continued)

(* The function or branch n has a fence that says it returns. *)
Stops(o, p, n) == /\ o[n].kind \in {"Function", "If", "Else"}
                  /\ p[o[n].entry].nFenceReturn = "Yes"

(* What the flags of the fences say of the flow of control: from a return  *)
(* in a function or branch on it stays unreached, and an else branch may   *)
(* only return for both if the first one did. *)
Flow(o, p, r) ==
    \A n \in DOMAIN o :
      /\ Stops(o, p, n) => ~r /\ \A m \in n + 1 .. Len(o) : Dead(o[m])
      /\ o[n].kind = "Else" /\ p[o[n].entry].nFenceReturn # "No" => ~o[n].first

FencesInv ==
    /\ Linked(open, pool, used, current)
    /\ Flow(open, pool, reached)
    /\ reached \in BOOLEAN

-----------------------------------------------------------------------------
(* Every non-empty set of natural numbers has a least element. *)
LEMMA LessThanWellFounded == IsWellFoundedOn({ss \in Nat \X Nat : ss[1] < ss[2]}, Nat)
BY NatLessThanWellFounded DEF OpToRel

LEMMA Least ==
    ASSUME NEW T, T \subseteq Nat, T # {}
    PROVE  \E x \in T : \A y \in T : x <= y
<1> DEFINE R == {ss \in Nat \X Nat : ss[1] < ss[2]}
<1>1. \A x, y \in Nat : y < x => <<y, x>> \in R
  OBVIOUS
<1>2. IsWellFoundedOn(R, Nat)
  BY LessThanWellFounded
<1> HIDE DEF R
<1>3. PICK x \in T : \A y \in T : ~ (<<y, x>> \in R)
  BY <1>2, WFMin, Zenon
<1>4. ASSUME NEW y \in T PROVE ~ (y < x)
  <2>1. x \in Nat /\ y \in Nat
    OBVIOUS
  <2> QED BY <1>1, <1>3, <2>1, Zenon
<1>5. ASSUME NEW y \in T PROVE x <= y
  BY <1>4
<1> QED BY <1>5

(* The k-th construct is the innermost of the first n that is no block. *)
Owner(o, n, k) ==
    /\ k \in 1 .. n /\ o[k].kind # "Block"
    /\ \A j \in k + 1 .. n : o[j].kind = "Block"

(* There is one, as a function is around all of them. *)
LEMMA OwnerExists ==
    ASSUME NEW o, NEW p, NEW u, NEW c, Linked(o, p, u, c), NEW n \in DOMAIN o
    PROVE  \E k \in DOMAIN o : Owner(o, n, k)
<1>1. o \in Seq(Constructs) /\ n \in Nat /\ Len(o) \in Nat /\ DOMAIN o = 1 .. Len(o)
  BY DEF Linked
<1>2. 1 \in DOMAIN o /\ o[1].kind = "Function"
  BY <1>1 DEF Linked
<1> DEFINE T == {x \in Nat : \E k \in 1 .. n : x = n - k /\ o[k].kind # "Block"}
<1>3. T \subseteq Nat /\ n - 1 \in T
  BY <1>1, <1>2
<1>4. PICK x \in T : \A y \in T : x <= y
  <2> HIDE DEF T
  <2> QED BY <1>3, Least
<1>5. PICK k \in 1 .. n : x = n - k /\ o[k].kind # "Block"
  OBVIOUS
<1>6. ASSUME NEW j \in k + 1 .. n PROVE o[j].kind = "Block"
  <2>1. SUFFICES ASSUME o[j].kind # "Block" PROVE FALSE
    OBVIOUS
  <2>2. n - j \in T
    BY <1>1, <2>1
  <2> QED BY <1>1, <1>4, <1>5, <2>2
<1> QED BY <1>1, <1>5, <1>6 DEF Owner

LEMMA OwnerUnique ==
    ASSUME NEW o, NEW n \in Nat, NEW k, NEW l, Owner(o, n, k), Owner(o, n, l)
    PROVE  k = l
<1>1. k \in Nat /\ l \in Nat /\ ~ (k < l) /\ ~ (l < k)
  BY DEF Owner
<1> QED BY <1>1

(* A construct with a fence: it is no block just if the search stops, and  *)
(* the search goes on to one further out, over blocks only. *)
LEMMA FenceOutside ==
    ASSUME NEW o, NEW p, NEW u, NEW c, Linked(o, p, u, c), NEW n \in DOMAIN o,
           p[o[n].entry].fFenceValid
    PROVE  LET e == o[n].entry IN
           /\ e \in Entries /\ e # NoFence
           /\ p[e].nFenceType \in FenceTypes <=> o[n].kind # "Block"
           /\ o[n].kind = "Block" =>
                \E m \in 1 .. n - 1 :
                  /\ p[e].pNext = o[m].entry /\ p[o[m].entry].fFenceValid
                  /\ \A j \in m + 1 .. n : o[j].kind = "Block"
<1>1. o \in Seq(Constructs) /\ n \in 1 .. Len(o) /\ Len(o) \in Nat
  BY DEF Linked
<1>2. o[n] \in Constructs
  BY <1>1
<1>3. o[n].entry \in Entries /\ o[n].kind \in Kinds
  BY <1>2 DEF Constructs
<1>4. p[o[n].entry].nFenceType = TypeOf(o[n].kind)
  BY DEF Linked
<1>5. TypeOf(o[n].kind) \in FenceTypes <=> o[n].kind # "Block"
  BY <1>3 DEF TypeOf, FenceTypes, Kinds, Controls, Loops
<1>6. ASSUME o[n].kind = "Block"
      PROVE  \E m \in 1 .. n - 1 :
                  /\ p[o[n].entry].pNext = o[m].entry /\ p[o[m].entry].fFenceValid
                  /\ \A j \in m + 1 .. n : o[j].kind = "Block"
  <2>1. n > 1
    BY <1>1, <1>6 DEF Linked
  <2>2. Holder(o, p, n - 1, p[o[n].entry].pNext)
    BY <2>1 DEF Linked
  <2>3. PICK m \in 1 .. n - 1 : /\ p[o[m].entry].fFenceValid /\ p[o[n].entry].pNext = o[m].entry
                                /\ \A j \in m + 1 .. n - 1 : ~p[o[j].entry].fFenceValid
    BY <2>2 DEF Holder
  <2>4. ASSUME NEW j \in m + 1 .. n PROVE o[j].kind = "Block"
    <3>1. j \in DOMAIN o /\ (j = n \/ j \in m + 1 .. n - 1)
      BY <1>1
    <3>2. o[j].kind # "Block" => p[o[j].entry].fFenceValid
      BY <3>1 DEF Linked
    <3> QED BY <1>6, <2>3, <3>1, <3>2
  <2> QED BY <2>3, <2>4
<1> QED BY <1>3, <1>4, <1>5, <1>6, FencesAssumption

(* The search for a fence that is no scope finds that of the innermost     *)
(* construct that is no block. *)
LEMMA NearestIsOwner ==
    ASSUME NEW o, NEW p, NEW u, NEW c, Linked(o, p, u, c), o # <<>>,
           NEW k \in DOMAIN o, Owner(o, Len(o), k)
    PROVE  Nearest(p, c, FenceTypes) = o[k].entry
<1> DEFINE D == Entries \cup {NoFence}
           Hit(e) == e = NoFence \/ p[e].nFenceType \in FenceTypes
           at[e \in D] == IF Hit(e) THEN e ELSE at[p[e].pNext]
           Of(e, x) == \E n, l \in DOMAIN o : o[n].entry = e /\ Owner(o, n, l) /\ x = o[l].entry
           Known(e) == \E n \in DOMAIN o : o[n].entry = e /\ p[e].fFenceValid
           best == [e \in D |-> IF Hit(e) THEN e
                                ELSE IF Known(e) THEN CHOOSE x \in Entries : Of(e, x) ELSE NoFence]
<1>1. /\ o \in Seq(Constructs) /\ Len(o) \in Nat /\ DOMAIN o = 1 .. Len(o)
      /\ p \in [Entries -> Fence]
      /\ \A n \in DOMAIN o : o[n].entry \in Entries
  <2>1. o \in Seq(Constructs) /\ p \in [Entries -> Fence]
    BY DEF Linked
  <2>2. \A n \in DOMAIN o : o[n] \in Constructs
    BY <2>1
  <2> QED BY <2>1, <2>2 DEF Constructs
<1>2. ASSUME NEW n \in DOMAIN o, p[o[n].entry].fFenceValid, NEW l \in DOMAIN o, Owner(o, n, l)
      PROVE  best[o[n].entry] = o[l].entry
  <2> DEFINE e == o[n].entry
  <2>1. e \in Entries /\ e \in D /\ e # NoFence
    BY <1>1, FencesAssumption
  <2>2. CASE Hit(e)
    <3>1. o[n].kind # "Block"
      BY <1>2, <2>1, <2>2, FenceOutside
    <3>2. l = n
      BY <1>1, <1>2, <3>1 DEF Owner
    <3> QED BY <2>1, <2>2, <3>2
  <2>3. CASE ~Hit(e)
    <3>1. best[e] = CHOOSE x \in Entries : Of(e, x)
      BY <1>2, <2>1, <2>3
    <3>2. Of(e, o[l].entry) /\ o[l].entry \in Entries
      BY <1>1, <1>2
    <3>3. ASSUME NEW x \in Entries, Of(e, x) PROVE x = o[l].entry
      <4>1. PICK m, i \in DOMAIN o : o[m].entry = e /\ Owner(o, m, i) /\ x = o[i].entry
        BY <3>3
      <4>2. m = n
        BY <4>1 DEF Linked
      <4>3. i = l
        BY <1>1, <1>2, <4>1, <4>2, OwnerUnique
      <4> QED BY <4>1, <4>3
    <3> HIDE DEF Of, best, e
    <3>4. Of(e, CHOOSE x \in Entries : Of(e, x)) /\ (CHOOSE x \in Entries : Of(e, x)) \in Entries
      BY <3>2
    <3> QED BY <3>1, <3>3, <3>4 DEF e
  <2> QED BY <2>2, <2>3
<1>3. ASSUME NEW e \in D
      PROVE  best[e] = IF Hit(e) THEN e ELSE best[p[e].pNext]
  <2>1. CASE Hit(e)
    BY <2>1
  <2>2. CASE ~Hit(e) /\ Known(e)
    <3>1. PICK n \in DOMAIN o : o[n].entry = e /\ p[e].fFenceValid
      BY <2>2
    <3>2. o[n].kind = "Block"
      BY <2>2, <3>1, FenceOutside
    <3>3. PICK m \in 1 .. n - 1 :
                  /\ p[e].pNext = o[m].entry /\ p[o[m].entry].fFenceValid
                  /\ \A j \in m + 1 .. n : o[j].kind = "Block"
      BY <3>1, <3>2, FenceOutside
    <3>4. m \in DOMAIN o
      BY <1>1
    <3>5. PICK l \in DOMAIN o : Owner(o, m, l)
      BY <3>4, OwnerExists
    <3>6. Owner(o, n, l)
      BY <1>1, <3>3, <3>5 DEF Owner
    <3> HIDE DEF best
    <3>7. best[e] = o[l].entry
      BY <1>2, <3>1, <3>6
    <3>8. best[p[e].pNext] = o[l].entry
      BY <1>2, <3>3, <3>4, <3>5
    <3> QED BY <2>2, <3>7, <3>8
  <2>3. CASE ~Hit(e) /\ ~Known(e)
    <3>1. e \in Entries /\ ~p[e].fFenceValid
      <4>1. e \in Entries
        BY <2>3
      <4>2. CASE e \in u
        BY <2>3, <4>2 DEF Linked
      <4>3. CASE e \notin u
        BY <4>1, <4>3 DEF Linked
      <4> QED BY <4>1, <4>2, <4>3
    <3>2. p[e].pNext = NoFence
      BY <3>1 DEF Linked
    <3>3. best[NoFence] = NoFence
      OBVIOUS
    <3>4. best[e] = NoFence
      BY <2>3
    <3> QED BY <2>3, <3>2, <3>3, <3>4
  <2> QED BY <2>1, <2>2, <2>3
<1>4. at = [e \in D |-> IF Hit(e) THEN e ELSE at[p[e].pNext]]
  <2> DEFINE Walks(f) == f = [e \in D |-> IF Hit(e) THEN e ELSE f[p[e].pNext]]
  <2>1. Walks(best)
    <3>1. best = [e \in D |-> best[e]]
      OBVIOUS
    <3> HIDE DEF best, D, Hit
    <3>2. [e \in D |-> best[e]] = [e \in D |-> IF Hit(e) THEN e ELSE best[p[e].pNext]]
      BY <1>3
    <3> QED BY <3>1, <3>2
  <2>2. at = CHOOSE f : Walks(f)
    OBVIOUS
  <2>3. Walks(at)
    <3> HIDE DEF Walks, best, at
    <3> QED BY <2>1, <2>2
  <2> QED BY <2>3
<1>5. ASSUME NEW n \in DOMAIN o, p[o[n].entry].fFenceValid
      PROVE  at[o[n].entry] = best[o[n].entry]
  <2> DEFINE Wrong == {i \in DOMAIN o : /\ p[o[i].entry].fFenceValid
                                        /\ at[o[i].entry] # best[o[i].entry]}
  <2> HIDE DEF at, best
  <2>1. SUFFICES ASSUME Wrong # {} PROVE FALSE
    BY <1>5
  <2>2. PICK x \in Wrong : \A y \in Wrong : x <= y
    <3>1. Wrong \subseteq Nat
      BY <1>1
    <3> HIDE DEF Wrong
    <3> QED BY <2>1, <3>1, Least
  <2> DEFINE e == o[x].entry
  <2>3. x \in DOMAIN o /\ p[e].fFenceValid /\ e \in D /\ x \in Nat
    BY <1>1
  <2>4. at[e] = IF Hit(e) THEN e ELSE at[p[e].pNext]
    BY <1>4, <2>3
  <2>5. best[e] = IF Hit(e) THEN e ELSE best[p[e].pNext]
    BY <1>3, <2>3
  <2>6. ~Hit(e)
    BY <2>4, <2>5
  <2>7. o[x].kind = "Block"
    BY <2>3, <2>6, FenceOutside
  <2>8. PICK m \in 1 .. x - 1 : p[e].pNext = o[m].entry /\ p[o[m].entry].fFenceValid
    BY <2>3, <2>7, FenceOutside
  <2>9. m \in DOMAIN o /\ m < x
    BY <1>1, <2>3
  <2>10. m \notin Wrong
    BY <2>2, <2>3, <2>9
  <2> QED BY <2>4, <2>5, <2>6, <2>8, <2>9, <2>10
<1>6. PICK m \in 1 .. Len(o) : /\ p[o[m].entry].fFenceValid /\ c = o[m].entry
                               /\ \A j \in m + 1 .. Len(o) : ~p[o[j].entry].fFenceValid
  BY DEF Linked, Holder
<1>7. Owner(o, m, k)
  <2>1. ~p[o[k].entry].fFenceValid => o[k].kind = "Block"
    BY DEF Linked
  <2>2. k <= m
    BY <1>1, <1>6, <2>1 DEF Owner
  <2> QED BY <1>1, <1>6, <2>2 DEF Owner
<1>8. best[c] = o[k].entry
  <2> HIDE DEF best
  <2> QED BY <1>1, <1>2, <1>6, <1>7
<1>9. Nearest(p, c, FenceTypes) = at[c]
  BY DEF Nearest
<1> QED
  <2> HIDE DEF at, best
  <2> QED BY <1>1, <1>5, <1>6, <1>8, <1>9

-----------------------------------------------------------------------------
(* What can be said of a construct and its fence. *)
LEMMA LinkedFacts ==
    ASSUME NEW o, NEW p, NEW u, NEW c, Linked(o, p, u, c)
    PROVE  /\ o \in Seq(Constructs) /\ Len(o) \in Nat /\ DOMAIN o = 1 .. Len(o)
           /\ p \in [Entries -> Fence]
           /\ \A n \in DOMAIN o : o[n] \in Constructs /\ o[n].entry \in Entries /\ o[n].entry \in u
           /\ \A e \in Entries : p[e] \in Fence
           /\ u \subseteq Entries /\ c \in Entries \cup {NoFence}
<1>1. o \in Seq(Constructs) /\ p \in [Entries -> Fence] /\ c \in Entries \cup {NoFence}
  BY DEF Linked
<1>2. \A n \in DOMAIN o : o[n] \in Constructs
  BY <1>1
<1>3. \A n \in DOMAIN o : o[n].entry \in Entries
  BY <1>2 DEF Constructs
<1>4. u = {o[n].entry : n \in DOMAIN o}
  BY DEF Linked
<1> QED BY <1>1, <1>2, <1>3, <1>4

(* What a fence of other constructs, or another pool, says the same of. *)
LEMMA HolderSame ==
    ASSUME NEW o, NEW q, NEW p, NEW r, NEW n \in Nat, NEW e, Holder(o, p, n, e),
           \A m \in 1 .. n : /\ q[m].entry = o[m].entry
                             /\ r[o[m].entry].fFenceValid = p[o[m].entry].fFenceValid
    PROVE  Holder(q, r, n, e)
<1>1. PICK m \in 1 .. n : /\ p[o[m].entry].fFenceValid /\ e = o[m].entry
                          /\ \A j \in m + 1 .. n : ~p[o[j].entry].fFenceValid
  BY DEF Holder
<1>2. r[q[m].entry].fFenceValid /\ e = q[m].entry
  BY <1>1
<1>3. ASSUME NEW j \in m + 1 .. n PROVE ~r[q[j].entry].fFenceValid
  <2>1. j \in 1 .. n
    OBVIOUS
  <2> QED BY <1>1, <2>1
<1> QED BY <1>2, <1>3 DEF Holder

(* Other fields of the constructs and of the fences may change. *)
LEMMA TouchLinked ==
    ASSUME NEW o, NEW p, NEW u, NEW c, Linked(o, p, u, c), NEW q, NEW r,
           q \in Seq(Constructs), Len(q) = Len(o), r \in [Entries -> Fence],
           \A n \in DOMAIN o : q[n].kind = o[n].kind /\ q[n].entry = o[n].entry,
           \A e \in Entries : /\ r[e].fFenceValid = p[e].fFenceValid
                              /\ r[e].nFenceType = p[e].nFenceType
                              /\ r[e].pNext = p[e].pNext
    PROVE  Linked(q, r, u, c)
<1>1. /\ DOMAIN q = DOMAIN o /\ DOMAIN o = 1 .. Len(o) /\ Len(o) \in Nat
      /\ \A n \in DOMAIN o : o[n].entry \in Entries
  BY LinkedFacts
<1>2. ASSUME NEW n \in Nat, n <= Len(o), NEW e, Holder(o, p, n, e)
      PROVE  Holder(q, r, n, e)
  <2>1. \A m \in 1 .. n : m \in DOMAIN o
    BY <1>1, <1>2
  <2> QED BY <1>1, <1>2, <2>1, HolderSame
<1>3. u = {q[n].entry : n \in DOMAIN q}
  BY <1>1 DEF Linked
<1>4. \A m, n \in DOMAIN q : q[m].entry = q[n].entry => m = n
  BY <1>1 DEF Linked
<1>5. \A e \in Entries : ~r[e].fFenceValid => r[e].pNext = NoFence
  BY DEF Linked
<1>6. \A e \in Entries \ u : ~r[e].fFenceValid
  BY DEF Linked
<1>7. ASSUME NEW n \in DOMAIN q
      PROVE LET fence == r[q[n].entry] IN
         /\ n = 1 <=> q[n].kind = "Function"
         /\ q[n].kind # "Block" => fence.fFenceValid
         /\ fence.fFenceValid => /\ fence.nFenceType = TypeOf(q[n].kind)
                                 /\ n > 1 => Holder(q, r, n - 1, fence.pNext)
  <2> DEFINE e == o[n].entry
  <2>1. /\ n = 1 <=> o[n].kind = "Function"
        /\ o[n].kind # "Block" => p[e].fFenceValid
        /\ p[e].fFenceValid => /\ p[e].nFenceType = TypeOf(o[n].kind)
                               /\ n > 1 => Holder(o, p, n - 1, p[e].pNext)
    BY <1>1 DEF Linked
  <2>2. /\ r[e].fFenceValid = p[e].fFenceValid /\ r[e].nFenceType = p[e].nFenceType
        /\ r[e].pNext = p[e].pNext /\ q[n].entry = e /\ q[n].kind = o[n].kind
    BY <1>1
  <2>3. ASSUME n > 1, Holder(o, p, n - 1, p[e].pNext) PROVE Holder(q, r, n - 1, r[e].pNext)
    BY <1>1, <1>2, <2>2, <2>3
  <2> HIDE DEF e
  <2> QED BY <2>1, <2>2, <2>3
<1>8. q # <<>> => Holder(q, r, Len(q), c)
  <2>1. q # <<>> => o # <<>>
    BY <1>1
  <2> QED BY <1>1, <1>2, <2>1 DEF Linked
<1>9. c \in Entries \cup {NoFence}
  BY DEF Linked
<1> QED BY <1>3, <1>4, <1>5, <1>6, <1>7, <1>8, <1>9 DEF Linked

(* A construct with a fence begins. *)
LEMMA PushLinked ==
    ASSUME NEW o, NEW p, NEW u, NEW c, Linked(o, p, u, c), NEW k \in Constructs,
           NEW f \in Fence, k.entry \notin u, f.fFenceValid, f.nFenceType = TypeOf(k.kind),
           o # <<>> => f.pNext = c, k.kind = "Function" <=> o = <<>>
    PROVE  Linked(Append(o, k), [p EXCEPT ![k.entry] = f], u \cup {k.entry}, k.entry)
<1> DEFINE e == k.entry
           q == Append(o, k)
           r == [p EXCEPT ![e] = f]
           N == Len(o)
<1>1. /\ o \in Seq(Constructs) /\ N \in Nat /\ DOMAIN o = 1 .. N /\ p \in [Entries -> Fence]
      /\ \A n \in DOMAIN o : o[n].entry \in Entries /\ o[n].entry \in u
      /\ u \subseteq Entries
  BY LinkedFacts
<1>2. e \in Entries /\ r \in [Entries -> Fence] /\ r[e] = f
      /\ \A x \in Entries \ {e} : r[x] = p[x]
  BY <1>1 DEF Constructs
<1>3. /\ q \in Seq(Constructs) /\ DOMAIN q = 1 .. N + 1 /\ Len(q) = N + 1 /\ q[N + 1] = k
      /\ \A n \in DOMAIN o : n \in DOMAIN q /\ q[n] = o[n] /\ r[q[n].entry] = p[o[n].entry]
  <2>1. /\ q \in Seq(Constructs) /\ DOMAIN q = 1 .. N + 1 /\ Len(q) = N + 1 /\ q[N + 1] = k
        /\ \A n \in DOMAIN o : n \in DOMAIN q /\ q[n] = o[n]
    BY <1>1
  <2>2. \A n \in DOMAIN o : o[n].entry \in Entries \ {e}
    BY <1>1
  <2> HIDE DEF q, r
  <2> QED BY <1>2, <2>1, <2>2
<1> HIDE DEF q, r
<1>4. ASSUME NEW n \in Nat, n <= N, NEW x, Holder(o, p, n, x)
      PROVE  Holder(q, r, n, x)
  <2>1. \A m \in 1 .. n : m \in DOMAIN o
    BY <1>1, <1>4
  <2>2. \A m \in 1 .. n : q[m].entry = o[m].entry
                         /\ r[o[m].entry].fFenceValid = p[o[m].entry].fFenceValid
    BY <1>3, <2>1
  <2> QED BY <1>4, <2>2, HolderSame
<1>5. u \cup {e} = {q[n].entry : n \in DOMAIN q}
  <2>1. u = {o[n].entry : n \in DOMAIN o}
    BY DEF Linked
  <2> QED BY <1>1, <1>3, <2>1
<1>6. \A m, n \in DOMAIN q : q[m].entry = q[n].entry => m = n
  <2>1. \A m, n \in DOMAIN o : o[m].entry = o[n].entry => m = n
    BY DEF Linked
  <2> QED BY <1>1, <1>3, <2>1
<1>7. \A x \in Entries : ~r[x].fFenceValid => r[x].pNext = NoFence
  BY <1>2 DEF Linked
<1>8. \A x \in Entries \ (u \cup {e}) : ~r[x].fFenceValid
  BY <1>2 DEF Linked
<1>9. ASSUME NEW n \in DOMAIN q
      PROVE LET fence == r[q[n].entry] IN
         /\ n = 1 <=> q[n].kind = "Function"
         /\ q[n].kind # "Block" => fence.fFenceValid
         /\ fence.fFenceValid => /\ fence.nFenceType = TypeOf(q[n].kind)
                                 /\ n > 1 => Holder(q, r, n - 1, fence.pNext)
  <2>1. CASE n \in DOMAIN o
    <3> DEFINE g == p[o[n].entry]
    <3>1. /\ n = 1 <=> o[n].kind = "Function"
          /\ o[n].kind # "Block" => g.fFenceValid
          /\ g.fFenceValid => /\ g.nFenceType = TypeOf(o[n].kind)
                              /\ n > 1 => Holder(o, p, n - 1, g.pNext)
      BY <2>1 DEF Linked
    <3>2. r[q[n].entry] = g /\ q[n] = o[n]
      BY <1>3, <2>1
    <3>3. n > 1 /\ Holder(o, p, n - 1, g.pNext) => Holder(q, r, n - 1, g.pNext)
      BY <1>1, <1>4, <2>1
    <3> HIDE DEF g
    <3> QED BY <3>1, <3>2, <3>3
  <2>2. CASE n = N + 1
    <3>1. q[n] = k /\ r[q[n].entry] = f
      BY <1>2, <1>3, <2>2
    <3>2. n = 1 <=> o = <<>>
      BY <1>1, <2>2
    <3>3. n > 1 => Holder(o, p, N, f.pNext)
      BY <3>2, <1>1, <2>2 DEF Linked
    <3>4. n > 1 => Holder(q, r, n - 1, f.pNext)
      BY <1>1, <1>4, <2>2, <3>3
    <3> QED BY <3>1, <3>2, <3>4
  <2> QED BY <1>1, <1>3, <2>1, <2>2
<1>10. Holder(q, r, Len(q), e)
  BY <1>1, <1>2, <1>3 DEF Holder
<1> QED BY <1>2, <1>3, <1>5, <1>6, <1>7, <1>8, <1>9, <1>10 DEF Linked, q, r

(* A block that has the fence of the statement before it begins. *)
LEMMA PushBareLinked ==
    ASSUME NEW o, NEW p, NEW u, NEW c, Linked(o, p, u, c), NEW k \in Constructs,
           k.entry \notin u, k.kind = "Block", o # <<>>
    PROVE  Linked(Append(o, k), p, u \cup {k.entry}, c)
<1> DEFINE e == k.entry
           q == Append(o, k)
           N == Len(o)
<1>1. /\ o \in Seq(Constructs) /\ N \in Nat /\ DOMAIN o = 1 .. N /\ p \in [Entries -> Fence]
      /\ \A n \in DOMAIN o : o[n].entry \in Entries /\ o[n].entry \in u
      /\ u \subseteq Entries /\ c \in Entries \cup {NoFence}
  BY LinkedFacts
<1>2. e \in Entries /\ ~p[e].fFenceValid
  BY DEF Linked, Constructs
<1>3. /\ q \in Seq(Constructs) /\ DOMAIN q = 1 .. N + 1 /\ Len(q) = N + 1 /\ q[N + 1] = k
      /\ \A n \in DOMAIN o : n \in DOMAIN q /\ q[n] = o[n]
  BY <1>1
<1> HIDE DEF q
<1>4. ASSUME NEW n \in Nat, n <= N, NEW x, Holder(o, p, n, x)
      PROVE  Holder(q, p, n, x)
  <2>1. \A m \in 1 .. n : m \in DOMAIN o
    BY <1>1, <1>4
  <2>2. \A m \in 1 .. n : q[m].entry = o[m].entry
    BY <1>3, <2>1
  <2> QED BY <1>4, <2>2, HolderSame
<1>5. u \cup {e} = {q[n].entry : n \in DOMAIN q}
  <2>1. u = {o[n].entry : n \in DOMAIN o}
    BY DEF Linked
  <2> QED BY <1>1, <1>3, <2>1
<1>6. \A m, n \in DOMAIN q : q[m].entry = q[n].entry => m = n
  <2>1. \A m, n \in DOMAIN o : o[m].entry = o[n].entry => m = n
    BY DEF Linked
  <2> QED BY <1>1, <1>3, <2>1
<1>7. /\ \A x \in Entries : ~p[x].fFenceValid => p[x].pNext = NoFence
      /\ \A x \in Entries \ (u \cup {e}) : ~p[x].fFenceValid
  BY DEF Linked
<1>8. ASSUME NEW n \in DOMAIN q
      PROVE LET fence == p[q[n].entry] IN
         /\ n = 1 <=> q[n].kind = "Function"
         /\ q[n].kind # "Block" => fence.fFenceValid
         /\ fence.fFenceValid => /\ fence.nFenceType = TypeOf(q[n].kind)
                                 /\ n > 1 => Holder(q, p, n - 1, fence.pNext)
  <2>1. CASE n \in DOMAIN o
    <3> DEFINE g == p[o[n].entry]
    <3>1. /\ n = 1 <=> o[n].kind = "Function"
          /\ o[n].kind # "Block" => g.fFenceValid
          /\ g.fFenceValid => /\ g.nFenceType = TypeOf(o[n].kind)
                              /\ n > 1 => Holder(o, p, n - 1, g.pNext)
      BY <2>1 DEF Linked
    <3>2. p[q[n].entry] = g /\ q[n] = o[n]
      BY <1>3, <2>1
    <3>3. n > 1 /\ Holder(o, p, n - 1, g.pNext) => Holder(q, p, n - 1, g.pNext)
      BY <1>1, <1>4, <2>1
    <3> HIDE DEF g
    <3> QED BY <3>1, <3>2, <3>3
  <2>2. CASE n = N + 1
    <3>1. q[n] = k /\ ~p[q[n].entry].fFenceValid
      BY <1>2, <1>3, <2>2
    <3>2. n # 1
      BY <1>1, <2>2
    <3> QED BY <3>1, <3>2
  <2> QED BY <1>1, <1>3, <2>1, <2>2
<1>9. Holder(q, p, Len(q), c)
  <2>1. Holder(o, p, N, c)
    BY DEF Linked
  <2>2. PICK m \in 1 .. N : /\ p[o[m].entry].fFenceValid /\ c = o[m].entry
                            /\ \A j \in m + 1 .. N : ~p[o[j].entry].fFenceValid
    BY <2>1 DEF Holder
  <2>3. ASSUME NEW j \in m + 1 .. N + 1 PROVE ~p[q[j].entry].fFenceValid
    <3>1. j = N + 1 \/ (j \in m + 1 .. N /\ j \in DOMAIN o)
      BY <1>1
    <3> QED BY <1>2, <1>3, <2>2, <3>1
  <2>4. m \in 1 .. N + 1 /\ q[m] = o[m]
    BY <1>1, <1>3
  <2> QED BY <1>3, <2>2, <2>3, <2>4 DEF Holder
<1> QED BY <1>1, <1>3, <1>5, <1>6, <1>7, <1>8, <1>9 DEF Linked, q

(* A free entry, also one that had a fence. *)
LEMMA KeptFacts ==
    ASSUME NEW fence \in Fence
    PROVE  Kept(fence) \in Fence /\ ~Kept(fence).fFenceValid /\ Kept(fence).pNext = NoFence
<1>1. fence.extra \in [as : {"other", "switch"}, cases : SUBSET Values]
  BY DEF Fence
<1>2. NewFence \in Fence /\ ~NewFence.fFenceValid /\ NewFence.pNext = NoFence
  BY DEF NewFence, Fence, Unset
<1> DEFINE type == IF fence.nFenceType = "Switch" THEN "Switch" ELSE "None"
<1>3. type \in FenceTypes \cup {"Scope", "None"}
  BY DEF FenceTypes
<1>4. Kept(fence) = [NewFence EXCEPT !.nFenceType = type, !.extra = fence.extra]
  BY DEF Kept
<1> HIDE DEF type
<1> QED BY <1>1, <1>2, <1>3, <1>4 DEF Fence

LEMMA FreedFacts ==
    ASSUME NEW p \in [Entries -> Fence], NEW e \in Entries
    PROVE  /\ Freed(p, e) \in [Entries -> Fence]
           /\ ~Freed(p, e)[e].fFenceValid /\ Freed(p, e)[e].pNext = NoFence
           /\ \A x \in Entries \ {e} : Freed(p, e)[x] = p[x]
<1>1. Freed(p, e) = [p EXCEPT ![e] = Kept(p[e])]
  BY DEF Freed
<1> QED BY <1>1, KeptFacts

(* The innermost construct ends. *)
LEMMA PopLinked ==
    ASSUME NEW o, NEW p, NEW u, NEW c, Linked(o, p, u, c), o # <<>>, NEW e, e = o[Len(o)].entry
    PROVE  Linked(SubSeq(o, 1, Len(o) - 1), Freed(p, e), u \ {e},
                  IF p[e].fFenceValid THEN p[e].pNext ELSE c)
<1> DEFINE N == Len(o)
           q == SubSeq(o, 1, N - 1)
           r == Freed(p, e)
           d == IF p[e].fFenceValid THEN p[e].pNext ELSE c
<1>1. /\ o \in Seq(Constructs) /\ N \in Nat /\ DOMAIN o = 1 .. N /\ p \in [Entries -> Fence]
      /\ \A n \in DOMAIN o : o[n].entry \in Entries /\ o[n].entry \in u
      /\ u \subseteq Entries /\ c \in Entries \cup {NoFence} /\ N \in DOMAIN o /\ e \in Entries
  <2>1. /\ o \in Seq(Constructs) /\ N \in Nat /\ DOMAIN o = 1 .. N /\ p \in [Entries -> Fence]
        /\ \A n \in DOMAIN o : o[n].entry \in Entries /\ o[n].entry \in u
        /\ u \subseteq Entries /\ c \in Entries \cup {NoFence}
    BY LinkedFacts
  <2>2. N \in DOMAIN o
    BY <2>1
  <2> QED BY <2>1, <2>2
<1>0. N \in Nat /\ (\A n \in 1 .. N : n = N \/ n \in 1 .. N - 1) /\ (\A n \in 1 .. N - 1 : n \in 1 .. N /\ n # N)
  <2>1. N \in Nat
    BY <1>1
  <2> HIDE DEF N
  <2> QED BY <2>1
<1>2. /\ r \in [Entries -> Fence] /\ ~r[e].fFenceValid /\ r[e].pNext = NoFence
      /\ \A x \in Entries \ {e} : r[x] = p[x]
  BY <1>1, FreedFacts
<1>3. \A m, n \in DOMAIN o : o[m].entry = o[n].entry => m = n
  BY DEF Linked
<1>4. /\ q \in Seq(Constructs) /\ DOMAIN q = 1 .. N - 1 /\ Len(q) = N - 1
      /\ \A n \in 1 .. N - 1 : n \in DOMAIN o /\ q[n] = o[n] /\ o[n].entry # e
                             /\ r[q[n].entry] = p[o[n].entry]
  <2>1. /\ q \in Seq(Constructs) /\ DOMAIN q = 1 .. N - 1 /\ Len(q) = N - 1
        /\ \A n \in 1 .. N - 1 : n \in DOMAIN o /\ q[n] = o[n]
    BY <1>1
  <2>2. \A n \in 1 .. N - 1 : n # N
    BY <1>0
  <2>3. \A n \in 1 .. N - 1 : o[n].entry \in Entries /\ o[n].entry # e
    BY <1>1, <1>3, <2>1, <2>2
  <2> HIDE DEF q, r
  <2> QED BY <1>2, <2>1, <2>3
<1> HIDE DEF q, r
<1>5. ASSUME NEW n \in Nat, n <= N - 1, NEW x, Holder(o, p, n, x)
      PROVE  Holder(q, r, n, x)
  <2>1. \A m \in 1 .. n : m \in 1 .. N - 1
    BY <1>1, <1>5
  <2>2. \A m \in 1 .. n : q[m].entry = o[m].entry
                         /\ r[o[m].entry].fFenceValid = p[o[m].entry].fFenceValid
    BY <1>4, <2>1
  <2> QED BY <1>5, <2>2, HolderSame
<1>6. u \ {e} = {q[n].entry : n \in DOMAIN q}
  <2>1. u = {o[n].entry : n \in DOMAIN o}
    BY DEF Linked
  <2>2. \A n \in DOMAIN o : n = N \/ n \in 1 .. N - 1
    BY <1>1, <1>0
  <2>3. \A x \in u \ {e} : \E n \in DOMAIN q : x = q[n].entry
    BY <1>4, <2>1, <2>2
  <2>4. \A n \in DOMAIN q : q[n].entry \in u \ {e}
    BY <1>4, <2>1
  <2> QED BY <2>3, <2>4
<1>7. \A m, n \in DOMAIN q : q[m].entry = q[n].entry => m = n
  BY <1>3, <1>4
<1>8. \A x \in Entries : ~r[x].fFenceValid => r[x].pNext = NoFence
  BY <1>2 DEF Linked
<1>9. \A x \in Entries \ (u \ {e}) : ~r[x].fFenceValid
  BY <1>2 DEF Linked
<1>10. ASSUME NEW n \in DOMAIN q
       PROVE  LET fence == r[q[n].entry] IN
              /\ n = 1 <=> q[n].kind = "Function"
              /\ q[n].kind # "Block" => fence.fFenceValid
              /\ fence.fFenceValid => /\ fence.nFenceType = TypeOf(q[n].kind)
                                      /\ n > 1 => Holder(q, r, n - 1, fence.pNext)
  <2> DEFINE g == p[o[n].entry]
  <2>1. /\ n = 1 <=> o[n].kind = "Function"
        /\ o[n].kind # "Block" => g.fFenceValid
        /\ g.fFenceValid => /\ g.nFenceType = TypeOf(o[n].kind)
                            /\ n > 1 => Holder(o, p, n - 1, g.pNext)
    BY <1>4 DEF Linked
  <2>2. r[q[n].entry] = g /\ q[n] = o[n]
    BY <1>4
  <2>3. n > 1 /\ Holder(o, p, n - 1, g.pNext) => Holder(q, r, n - 1, g.pNext)
    BY <1>1, <1>4, <1>5
  <2> HIDE DEF g
  <2> QED BY <2>1, <2>2, <2>3
<1>11. q # <<>> => Holder(q, r, Len(q), d)
  <2>1. SUFFICES ASSUME q # <<>> PROVE Holder(o, p, N - 1, d)
    BY <1>1, <1>4, <1>5
  <2>2. N > 1
    BY <1>1, <1>4, <2>1
  <2>3. CASE p[e].fFenceValid
    BY <1>1, <2>2, <2>3 DEF Linked
  <2>4. CASE ~p[e].fFenceValid
    <3>1. Holder(o, p, N, c)
      BY DEF Linked
    <3>2. PICK m \in 1 .. N : /\ p[o[m].entry].fFenceValid /\ c = o[m].entry
                              /\ \A j \in m + 1 .. N : ~p[o[j].entry].fFenceValid
      BY <3>1 DEF Holder
    <3>3. m # N
      BY <2>4, <3>2
    <3>4. m \in 1 .. N - 1 /\ \A j \in m + 1 .. N - 1 : j \in m + 1 .. N
      <4>1. N \in Nat /\ m \in 1 .. N
        BY <1>0
      <4> HIDE DEF N
      <4> QED BY <3>3, <4>1
    <3> QED BY <2>4, <3>2, <3>4 DEF Holder
  <2> QED BY <2>3, <2>4
<1>12. d \in Entries \cup {NoFence}
  BY <1>1 DEF Fence
<1> QED BY <1>2, <1>4, <1>6, <1>7, <1>8, <1>9, <1>10, <1>11, <1>12 DEF Linked, q, r

(* What GetFence sets. *)
LEMMA GetFenceFacts ==
    ASSUME pool \in [Entries -> Fence], current \in Entries \cup {NoFence}, NEW e \in Entries,
           NEW type \in FenceTypes \cup {"Scope"}, NEW eat \in BOOLEAN,
           NEW fn \in {"value", "void", "none"}
    PROVE  LET fence == GetFence(e, type, eat, fn) IN
           /\ fence \in Fence /\ fence.fFenceValid /\ fence.nFenceType = type
           /\ fence.nFenceReturn = "Unknown" /\ fence.pNext = current
<1>1. Extra(pool[e], type) \in [as : {"other", "switch"}, cases : SUBSET Values]
  BY DEF Extra, NewCases, Unset, Fence
<1>2. (IF current = NoFence THEN 0
       ELSE pool[current].nLocals + pool[current].nPrevLocals) \in Int
  BY DEF Fence
<1>3. (IF current = NoFence THEN 0
       ELSE pool[current].nLocals + pool[current].nPrevLocals) + (IF type = "Switch" THEN 1 ELSE 0) \in Int
  BY <1>2
<1> QED BY <1>1, <1>3 DEF GetFence, Fence

(* What NscSetFenceReturn sets. *)
LEMMA SetFenceReturnFacts ==
    ASSUME NEW p \in [Entries -> Fence], NEW f, NEW returns \in BOOLEAN, NEW x \in Entries,
           Nearest(p, f, FenceTypes) = x
    PROVE  LET r == SetFenceReturn(p, f, returns) IN
           /\ r \in [Entries -> Fence]
           /\ \A y \in Entries : /\ r[y].fFenceValid = p[y].fFenceValid
                                 /\ r[y].nFenceType = p[y].nFenceType
                                 /\ r[y].pNext = p[y].pNext
                                 /\ y # x => r[y] = p[y]
           /\ r[x].nFenceReturn = IF ~returns THEN "No"
                                  ELSE IF p[x].nFenceReturn = "Unknown" THEN "Yes"
                                  ELSE p[x].nFenceReturn
<1> DEFINE flag == IF ~returns THEN "No"
                   ELSE IF p[x].nFenceReturn = "Unknown" THEN "Yes" ELSE p[x].nFenceReturn
           g == [p[x] EXCEPT !.nFenceReturn = flag]
<1>1. p[x] \in Fence /\ flag \in {"Unknown", "No", "Yes"}
  BY DEF Fence
<1>2. SetFenceReturn(p, f, returns) = [p EXCEPT ![x] = g]
  BY DEF SetFenceReturn
<1> HIDE DEF flag
<1>3. /\ g \in Fence /\ g.nFenceReturn = flag /\ g.fFenceValid = p[x].fFenceValid
      /\ g.nFenceType = p[x].nFenceType /\ g.pNext = p[x].pNext
  BY <1>1 DEF Fence
<1> HIDE DEF g
<1> QED BY <1>2, <1>3 DEF flag

-----------------------------------------------------------------------------
(* Other fields of the constructs change: none is reached that was not if  *)
(* something around stops. *)
LEMMA FlowTouch ==
    ASSUME NEW o, NEW p, NEW u, NEW c, Linked(o, p, u, c), NEW s, Flow(o, p, s), NEW q, NEW r, NEW t,
           q \in Seq(Constructs), Len(q) = Len(o),
           \A n \in DOMAIN o : /\ q[n].kind = o[n].kind /\ q[n].entry = o[n].entry
                               /\ q[n].first = o[n].first,
           \A e \in Entries : r[e].nFenceReturn = p[e].nFenceReturn,
           \A n \in DOMAIN o : Stops(o, p, n) =>
              ~t /\ \A m \in DOMAIN o : Dead(o[m]) => Dead(q[m])
    PROVE  Flow(q, r, t)
<1>1. /\ DOMAIN q = DOMAIN o /\ DOMAIN o = 1 .. Len(o) /\ Len(o) \in Nat
      /\ \A n \in DOMAIN o : o[n].entry \in Entries
  BY LinkedFacts
<1>2. \A n \in DOMAIN o : Stops(q, r, n) <=> Stops(o, p, n)
  BY <1>1 DEF Stops
<1>3. ASSUME NEW n \in DOMAIN o, Stops(o, p, n)
      PROVE  ~t /\ \A m \in n + 1 .. Len(q) : Dead(q[m])
  <2>1. \A m \in n + 1 .. Len(q) : m \in DOMAIN o
    BY <1>1
  <2>2. \A m \in n + 1 .. Len(o) : Dead(o[m])
    BY <1>3 DEF Flow
  <2> QED BY <1>3, <2>1, <2>2
<1>4. \A n \in DOMAIN o : q[n].kind = "Else" /\ r[q[n].entry].nFenceReturn # "No" => ~q[n].first
  BY <1>1 DEF Flow
<1> QED BY <1>1, <1>2, <1>3, <1>4 DEF Flow

(* A construct begins. *)
LEMMA FlowPush ==
    ASSUME NEW o, NEW p, NEW u, NEW c, Linked(o, p, u, c), NEW s, Flow(o, p, s), NEW k, NEW r, NEW t,
           \A n \in DOMAIN o : r[o[n].entry].nFenceReturn = p[o[n].entry].nFenceReturn,
           \A n \in DOMAIN o : Stops(o, p, n) => ~t /\ Dead(k),
           k.kind # "Block" => r[k.entry].nFenceReturn # "Yes",
           k.kind = "Else" /\ r[k.entry].nFenceReturn # "No" => ~k.first
    PROVE  Flow(Append(o, k), r, t)
<1> DEFINE q == Append(o, k)
<1>0. o \in Seq(Constructs)
  BY DEF Linked
<1>1. PICK N \in Nat : N = Len(o) /\ DOMAIN o = 1 .. N
  BY <1>0
<1>2. /\ DOMAIN q = 1 .. N + 1 /\ Len(q) = N + 1 /\ q[N + 1] = k
      /\ \A n \in 1 .. N : q[n] = o[n]
  BY <1>0, <1>1
<1> HIDE DEF q
<1>3. ASSUME NEW n \in 1 .. N + 1
      PROVE  /\ Stops(q, r, n) => ~t /\ \A m \in n + 1 .. N + 1 : Dead(q[m])
             /\ q[n].kind = "Else" /\ r[q[n].entry].nFenceReturn # "No" => ~q[n].first
  <2>1. CASE n = N + 1
    <3>1. ~Stops(q, r, n)
      BY <1>2, <2>1 DEF Stops
    <3> QED BY <1>2, <2>1, <3>1
  <2>2. CASE n \in 1 .. N
    <3>1. Stops(q, r, n) => Stops(o, p, n)
      BY <1>1, <1>2, <2>2 DEF Stops
    <3>2. Stops(o, p, n) => ~t /\ Dead(k) /\ \A m \in n + 1 .. N : Dead(o[m])
      BY <1>1, <2>2 DEF Flow
    <3>3. \A m \in n + 1 .. N + 1 : m = N + 1 \/ (m \in n + 1 .. N /\ m \in 1 .. N)
      BY <1>1, <2>2
    <3>4. q[n].kind = "Else" /\ r[q[n].entry].nFenceReturn # "No" => ~q[n].first
      BY <1>1, <1>2, <2>2 DEF Flow
    <3> QED BY <1>2, <3>1, <3>2, <3>3, <3>4
  <2> QED BY <1>1, <2>1, <2>2
<1>4. Flow(q, r, t)
  BY <1>2, <1>3 DEF Flow
<1> QED BY <1>4 DEF q

(* The innermost construct ends. *)
LEMMA FlowPop ==
    ASSUME NEW o, NEW p, NEW u, NEW c, Linked(o, p, u, c), NEW s, Flow(o, p, s), o # <<>>, NEW t,
           \A n \in 1 .. Len(o) - 1 : Stops(o, p, n) => ~t
    PROVE  Flow(SubSeq(o, 1, Len(o) - 1), Freed(p, o[Len(o)].entry), t)
<1> DEFINE q == SubSeq(o, 1, Len(o) - 1)
           e == o[Len(o)].entry
           r == Freed(p, e)
<1>1. /\ o \in Seq(Constructs) /\ p \in [Entries -> Fence] /\ DOMAIN o = 1 .. Len(o) /\ Len(o) \in Nat
      /\ \A n \in DOMAIN o : o[n].entry \in Entries
      /\ \A m, n \in DOMAIN o : o[m].entry = o[n].entry => m = n
  <2>1. /\ o \in Seq(Constructs) /\ p \in [Entries -> Fence] /\ DOMAIN o = 1 .. Len(o) /\ Len(o) \in Nat
        /\ \A n \in DOMAIN o : o[n].entry \in Entries
    BY LinkedFacts
  <2>2. \A m, n \in DOMAIN o : o[m].entry = o[n].entry => m = n
    BY DEF Linked
  <2> QED BY <2>1, <2>2
<1>2. PICK N \in Nat : N = Len(o) /\ N > 0 /\ DOMAIN o = 1 .. N
  <2>1. Len(o) # 0
    BY <1>1
  <2>2. Len(o) \in Nat /\ Len(o) > 0 /\ DOMAIN o = 1 .. Len(o)
    BY <1>1, <2>1
  <2> QED BY <2>2
<1>3. /\ DOMAIN q = 1 .. N - 1 /\ Len(q) = N - 1
      /\ \A n \in 1 .. N - 1 : q[n] = o[n]
  BY <1>1, <1>2
<1>4. \A n \in 1 .. N - 1 : n \in DOMAIN o /\ n # N
  <2>1. \A n \in 1 .. N - 1 : n \in 1 .. N /\ n # N
    BY Z3
  <2> QED BY <1>2, <2>1
<1>5. \A n \in 1 .. N - 1 : r[o[n].entry] = p[o[n].entry]
  <2>1. N \in DOMAIN o /\ e \in Entries
    BY <1>1, <1>2
  <2>2. \A n \in 1 .. N - 1 : o[n].entry \in Entries \ {e}
    BY <1>1, <1>2, <1>4, <2>1
  <2>3. \A x \in Entries \ {e} : r[x] = p[x]
    BY <1>1, <2>1, FreedFacts
  <2> HIDE DEF r, e
  <2> QED BY <2>2, <2>3
<1> HIDE DEF q, r, e
<1>6. ASSUME NEW n \in 1 .. N - 1
      PROVE  /\ Stops(q, r, n) => ~t /\ \A m \in n + 1 .. N - 1 : Dead(q[m])
             /\ q[n].kind = "Else" /\ r[q[n].entry].nFenceReturn # "No" => ~q[n].first
  <2>1. Stops(q, r, n) => Stops(o, p, n)
    BY <1>3, <1>5 DEF Stops
  <2>2. Stops(o, p, n) => ~t /\ \A m \in n + 1 .. N : Dead(o[m])
    BY <1>2, <1>4 DEF Flow
  <2>3. \A m \in n + 1 .. N - 1 : m \in n + 1 .. N /\ m \in 1 .. N - 1
    BY <1>2
  <2>4. q[n].kind = "Else" /\ r[q[n].entry].nFenceReturn # "No" => ~q[n].first
    BY <1>3, <1>4, <1>5 DEF Flow
  <2> QED BY <1>3, <2>1, <2>2, <2>3, <2>4
<1>7. Flow(q, r, t)
  BY <1>3, <1>6 DEF Flow
<1> QED BY <1>7 DEF q, r, e

(* The innermost construct that is no block returns. *)
LEMMA FlowReturn ==
    ASSUME NEW o, NEW p, NEW u, NEW c, Linked(o, p, u, c), Flow(o, p, FALSE), NEW r,
           NEW k \in DOMAIN o, Owner(o, Len(o), k),
           \A y \in Entries : y # o[k].entry => r[y] = p[y],
           r[o[k].entry].nFenceReturn = "No" <=> p[o[k].entry].nFenceReturn = "No"
    PROVE  Flow(o, r, FALSE)
<1>1. /\ DOMAIN o = 1 .. Len(o) /\ Len(o) \in Nat
      /\ \A n \in DOMAIN o : o[n].entry \in Entries
  BY LinkedFacts
<1>2. ASSUME NEW n \in DOMAIN o, Stops(o, r, n)
      PROVE  \A m \in n + 1 .. Len(o) : Dead(o[m])
  <2>1. CASE n = k
    BY <2>1 DEF Owner, Dead
  <2>2. CASE n # k
    <3>1. o[n].entry # o[k].entry
      BY <2>2 DEF Linked
    <3>2. Stops(o, p, n)
      BY <1>1, <1>2, <3>1 DEF Stops
    <3> QED BY <3>2 DEF Flow
  <2> QED BY <2>1, <2>2
<1>3. ASSUME NEW n \in DOMAIN o, o[n].kind = "Else", r[o[n].entry].nFenceReturn # "No"
      PROVE  ~o[n].first
  <2>1. p[o[n].entry].nFenceReturn # "No"
    BY <1>1, <1>3
  <2> QED BY <1>3, <2>1 DEF Flow
<1> QED BY <1>2, <1>3 DEF Flow

(* The innermost construct, and the fence that is current. *)
LEMMA InnermostFacts ==
    ASSUME NEW o, NEW p, NEW u, NEW c, Linked(o, p, u, c), o # <<>>
    PROVE  LET k == o[Len(o)]
               q == SubSeq(o, 1, Len(o) - 1) IN
           /\ Len(o) \in DOMAIN o /\ k \in Constructs /\ k.kind \in Kinds
           /\ k.entry \in Entries /\ k.entry \in u
           /\ c \in Entries /\ p[c] \in Fence /\ p[c].fFenceValid
           /\ k.kind # "Block" => p[k.entry].fFenceValid /\ c = k.entry
           /\ k.kind = "Function" <=> q = <<>>
           /\ Len(q) = Len(o) - 1
<1>1. /\ o \in Seq(Constructs) /\ DOMAIN o = 1 .. Len(o) /\ Len(o) \in Nat
      /\ \A n \in DOMAIN o : o[n] \in Constructs /\ o[n].entry \in Entries /\ o[n].entry \in u
      /\ \A e \in Entries : p[e] \in Fence
  BY LinkedFacts
<1>2. PICK N \in Nat : N = Len(o) /\ N \in DOMAIN o /\ DOMAIN o = 1 .. N
  <2>1. Len(o) # 0
    BY <1>1
  <2>2. Len(o) \in Nat /\ Len(o) \in 1 .. Len(o) /\ DOMAIN o = 1 .. Len(o)
    BY <1>1, <2>1
  <2> QED BY <2>2
<1> DEFINE k == o[N]
<1>3. k \in Constructs /\ k.kind \in Kinds /\ k.entry \in Entries /\ k.entry \in u
  BY <1>1, <1>2 DEF Constructs
<1>4. k.kind # "Block" => p[k.entry].fFenceValid
  BY <1>2 DEF Linked
<1>5. PICK m \in 1 .. N : /\ p[o[m].entry].fFenceValid /\ c = o[m].entry
                          /\ \A j \in m + 1 .. N : ~p[o[j].entry].fFenceValid
  <2>1. Holder(o, p, N, c)
    BY <1>2 DEF Linked
  <2> QED BY <2>1 DEF Holder
<1>6. c \in Entries /\ p[c] \in Fence /\ p[c].fFenceValid
  BY <1>1, <1>2, <1>5
<1>7. k.kind # "Block" => c = k.entry
  <2>1. m = N \/ N \in m + 1 .. N
    OBVIOUS
  <2> QED BY <1>4, <1>5, <2>1
<1> DEFINE q == SubSeq(o, 1, N - 1)
<1>8. q \in Seq(Constructs) /\ Len(q) = N - 1
  BY <1>1, <1>2
<1>9. k.kind = "Function" <=> N = 1
  BY <1>2 DEF Linked
<1>10. q = <<>> <=> N = 1
  <2> HIDE DEF q
  <2> QED BY <1>8
<1> QED BY <1>2, <1>3, <1>4, <1>6, <1>7, <1>8, <1>9, <1>10

(* What stops the flow around the innermost construct. *)
LEMMA StopsAround ==
    ASSUME NEW o, NEW p, NEW u, NEW c, Linked(o, p, u, c), NEW s, Flow(o, p, s), o # <<>>,
           NEW n \in 1 .. Len(o) - 1, Stops(o, p, n)
    PROVE  ~s /\ Dead(o[Len(o)])
<1>1. /\ DOMAIN o = 1 .. Len(o) /\ Len(o) \in DOMAIN o /\ Len(o) \in Nat
  BY LinkedFacts, InnermostFacts
<1>2. PICK N \in Nat : N = Len(o)
  BY <1>1
<1>3. \A i \in 1 .. N - 1 : i \in 1 .. N /\ N \in i + 1 .. N
  BY Z3
<1>4. n \in DOMAIN o /\ N \in n + 1 .. Len(o)
  BY <1>1, <1>2, <1>3
<1> QED BY <1>2, <1>4 DEF Flow

-----------------------------------------------------------------------------
LEMMA InitStep == FencesInit => FencesInv
<1> SUFFICES ASSUME FencesInit PROVE FencesInv
  OBVIOUS
<1>1. NewFence \in Fence /\ ~NewFence.fFenceValid /\ NewFence.pNext = NoFence
  BY DEF NewFence, Fence, Unset
<1>2. pool \in [Entries -> Fence] /\ \A e \in Entries : pool[e] = NewFence
  BY <1>1 DEF FencesInit
<1>3. open = <<>> /\ used = {} /\ current = NoFence /\ reached = TRUE
  BY DEF FencesInit
<1>4. DOMAIN open = {} /\ open \in Seq(Constructs)
  BY <1>3
<1>5. used = {open[n].entry : n \in DOMAIN open}
  BY <1>3, <1>4
<1>6. Linked(open, pool, used, current)
  BY <1>1, <1>2, <1>3, <1>4, <1>5 DEF Linked
<1>7. Flow(open, pool, reached)
  BY <1>4 DEF Flow
<1> QED BY <1>3, <1>6, <1>7 DEF FencesInv

(* A construct that has begun. *)
LEMMA ConstructFacts ==
    ASSUME reached \in BOOLEAN, NEW kind \in Kinds, NEW e \in Entries, NEW endless \in BOOLEAN
    PROVE  LET k == Construct(kind, e, endless) IN
           /\ k \in Constructs /\ k.kind = kind /\ k.entry = e
           /\ ~reached => Dead(k)
BY DEF Construct, Constructs, Dead

LEMMA BeginFunctionStep ==
    ASSUME FencesInv, NEW fn \in {"value", "void", "none"}, NEW e \in Entries, BeginFunction(fn, e)
    PROVE  FencesInv'
<1> DEFINE k == Construct("Function", e, FALSE)
           f == GetFence(e, "Function", FALSE, fn)
           n == IF fn = "none" THEN 0 ELSE 1
           g == [f EXCEPT !.nLocals = n]
<1>1. /\ open = <<>> /\ e \notin used /\ used' = used \cup {e} /\ open' = Append(open, k)
      /\ pool' = [pool EXCEPT ![e] = g] /\ current' = e /\ reached' = TRUE
  BY DEF BeginFunction, Begin
<1>2. Linked(open, pool, used, current) /\ Flow(open, pool, reached) /\ reached \in BOOLEAN
  BY DEF FencesInv
<1>3. k \in Constructs /\ k.kind = "Function" /\ k.entry = e
  BY <1>2, ConstructFacts DEF Kinds
<1>4. pool \in [Entries -> Fence] /\ current \in Entries \cup {NoFence}
  BY <1>2 DEF Linked
<1>5. /\ f \in Fence /\ f.fFenceValid /\ f.nFenceType = "Function" /\ f.nFenceReturn = "Unknown"
  <2>1. "Function" \in FenceTypes \cup {"Scope"} /\ FALSE \in BOOLEAN
    BY DEF FenceTypes
  <2>2. f = GetFence(e, "Function", FALSE, fn)
    OBVIOUS
  <2>3. PICK eat \in BOOLEAN : eat = FALSE
    OBVIOUS
  <2>4. f = GetFence(e, "Function", eat, fn)
    BY <2>2, <2>3
  <2> HIDE DEF f
  <2> QED BY <1>4, <2>1, <2>4, GetFenceFacts
<1>6. /\ g \in Fence /\ g.fFenceValid /\ g.nFenceType = "Function" /\ g.nFenceReturn = "Unknown"
  <2>1. n \in Int
    OBVIOUS
  <2> HIDE DEF f, n
  <2> QED BY <1>5, <2>1 DEF Fence
<1> HIDE DEF k, f, n, g
<1>7. Linked(open', pool', used', current')
  <2>1. g.nFenceType = TypeOf(k.kind)
    BY <1>3, <1>6 DEF TypeOf
  <2>2. Linked(Append(open, k), [pool EXCEPT ![k.entry] = g], used \cup {k.entry}, k.entry)
    BY <1>1, <1>2, <1>3, <1>6, <2>1, PushLinked
  <2> QED BY <1>1, <1>3, <2>2
<1>8. Flow(open', pool', reached')
  <2>1. DOMAIN open = {}
    BY <1>1
  <2>2. pool'[k.entry].nFenceReturn = "Unknown"
    BY <1>1, <1>3, <1>4, <1>6
  <2>3. Flow(Append(open, k), pool', reached')
    BY <1>2, <1>3, <2>1, <2>2, FlowPush
  <2> QED BY <1>1, <2>3
<1> QED BY <1>1, <1>7, <1>8 DEF FencesInv

(* A function or block ends. *)
LEMMA EndStep ==
    ASSUME FencesInv, open # <<>>, Innermost.kind \in {"Function", "Block"},
           current' = Restored(Innermost.entry), used' = used \ {Innermost.entry},
           pool' = Freed(pool, Innermost.entry), open' = Outer, reached' = reached
    PROVE  FencesInv'
<1> DEFINE e == Innermost.entry
<1>1. Linked(open, pool, used, current) /\ Flow(open, pool, reached) /\ reached \in BOOLEAN
  BY DEF FencesInv
<1>2. Linked(Outer, Freed(pool, e), used \ {e}, Restored(e))
  BY <1>1, PopLinked DEF Outer, Restored, Innermost
<1>3. Flow(Outer, Freed(pool, e), reached)
  BY <1>1, StopsAround, FlowPop DEF Outer, Innermost
<1> QED BY <1>1, <1>2, <1>3 DEF FencesInv

LEMMA PrototypeStep == ASSUME FencesInv, Prototype PROVE FencesInv'
<1>1. Linked(open, pool, used, current)
  BY DEF FencesInv
<1>2. open # <<>> /\ Innermost.kind = "Function" /\ open' = <<>>
  BY DEF Prototype
<1>3. Outer = <<>>
  BY <1>1, <1>2, InnermostFacts DEF Outer, Innermost
<1> QED BY <1>2, <1>3, EndStep DEF Prototype

LEMMA EndFunctionStep == ASSUME FencesInv, EndFunction PROVE FencesInv'
<1>1. Linked(open, pool, used, current)
  BY DEF FencesInv
<1>2. open # <<>> /\ Innermost.kind = "Function" /\ open' = <<>>
  BY DEF EndFunction, Ready
<1>3. Outer = <<>>
  BY <1>1, <1>2, InnermostFacts DEF Outer, Innermost
<1> QED BY <1>2, <1>3, EndStep DEF EndFunction

LEMMA EndBlockStep == ASSUME FencesInv, EndBlock PROVE FencesInv'
<1>1. open # <<>> /\ Innermost.kind = "Block"
  BY DEF EndBlock, InBlock
<1> QED BY <1>1, EndStep DEF EndBlock

LEMMA BeginBlockStep ==
    ASSUME FencesInv, NEW e \in Entries, BeginBlock(e)
    PROVE  FencesInv'
<1> DEFINE k == Construct("Block", e, FALSE)
           f == GetFence(e, "Scope", FALSE, "none")
<1>1. /\ open # <<>> /\ e \notin used /\ used' = used \cup {e} /\ open' = Append(open, k)
      /\ reached' = reached
  BY DEF BeginBlock, Begin, Expected
<1>2. Linked(open, pool, used, current) /\ Flow(open, pool, reached) /\ reached \in BOOLEAN
  BY DEF FencesInv
<1>3. k \in Constructs /\ k.kind = "Block" /\ k.entry = e /\ Dead(k)
  <2>1. k \in Constructs /\ k.kind = "Block" /\ k.entry = e
    BY <1>2, ConstructFacts DEF Kinds
  <2> QED BY <2>1 DEF Dead
<1>4. /\ pool \in [Entries -> Fence] /\ current \in Entries /\ pool[current] \in Fence
      /\ \A n \in DOMAIN open : open[n].entry \in Entries \ {e}
  <2>1. pool \in [Entries -> Fence] /\ current \in Entries /\ pool[current] \in Fence
    BY <1>1, <1>2, LinkedFacts, InnermostFacts
  <2>2. \A n \in DOMAIN open : open[n].entry \in Entries /\ open[n].entry \in used
    BY <1>2, LinkedFacts
  <2> QED BY <1>1, <2>1, <2>2
<1> HIDE DEF k
<1>5. ASSUME \A n \in DOMAIN open : pool'[open[n].entry].nFenceReturn = pool[open[n].entry].nFenceReturn
      PROVE  Flow(open', pool', reached')
  <2>1. \A n \in DOMAIN open : Stops(open, pool, n) => ~reached /\ Dead(k)
    BY <1>2, <1>3 DEF Flow
  <2>2. Flow(Append(open, k), pool', reached)
    BY <1>2, <1>3, <1>5, <2>1, FlowPush
  <2> QED BY <1>1, <2>2
<1>6. CASE pool[current].fEatScope
  <2> DEFINE g == [pool[current] EXCEPT !.fEatScope = FALSE]
  <2>1. pool' = [pool EXCEPT ![current] = g] /\ current' = current
    BY <1>6 DEF BeginBlock
  <2>2. /\ g \in Fence /\ g.fFenceValid = pool[current].fFenceValid
        /\ g.nFenceType = pool[current].nFenceType /\ g.pNext = pool[current].pNext
        /\ g.nFenceReturn = pool[current].nFenceReturn
    BY <1>4 DEF Fence
  <2> HIDE DEF g
  <2>3. /\ pool' \in [Entries -> Fence]
        /\ \A x \in Entries : /\ pool'[x].fFenceValid = pool[x].fFenceValid
                              /\ pool'[x].nFenceType = pool[x].nFenceType
                              /\ pool'[x].pNext = pool[x].pNext
                              /\ pool'[x].nFenceReturn = pool[x].nFenceReturn
    BY <1>4, <2>1, <2>2
  <2>4. Linked(Append(open, k), pool, used \cup {e}, current)
    BY <1>1, <1>2, <1>3, PushBareLinked
  <2>5. Append(open, k) \in Seq(Constructs)
    BY <2>4 DEF Linked
  <2>6. Linked(open', pool', used', current')
    BY <1>1, <2>1, <2>3, <2>4, <2>5, TouchLinked
  <2>7. Flow(open', pool', reached')
    BY <1>4, <1>5, <2>3
  <2> QED BY <1>1, <1>2, <2>6, <2>7 DEF FencesInv
<1>7. CASE ~pool[current].fEatScope
  <2>1. pool' = [pool EXCEPT ![e] = f] /\ current' = e
    BY <1>7 DEF BeginBlock
  <2>2. /\ f \in Fence /\ f.fFenceValid /\ f.nFenceType = "Scope" /\ f.pNext = current
    <3>1. PICK eat \in BOOLEAN : eat = FALSE
      OBVIOUS
    <3>2. f = GetFence(e, "Scope", eat, "none")
      BY <3>1
    <3> HIDE DEF f
    <3> QED BY <1>4, <3>2, GetFenceFacts
  <2> HIDE DEF f
  <2>3. f.nFenceType = TypeOf(k.kind)
    BY <1>3, <2>2 DEF TypeOf
  <2>4. Linked(Append(open, k), [pool EXCEPT ![k.entry] = f], used \cup {k.entry}, k.entry)
    BY <1>1, <1>2, <1>3, <2>2, <2>3, PushLinked
  <2>5. Linked(open', pool', used', current')
    BY <1>1, <1>3, <2>1, <2>4
  <2>6. \A n \in DOMAIN open : pool'[open[n].entry] = pool[open[n].entry]
    BY <1>4, <2>1
  <2>7. Flow(open', pool', reached')
    BY <1>5, <2>6
  <2> QED BY <1>1, <1>2, <2>5, <2>7 DEF FencesInv
<1> QED BY <1>6, <1>7

LEMMA BeginControlStep ==
    ASSUME FencesInv, NEW kind \in Controls, NEW endless \in BOOLEAN, NEW e \in Entries,
           BeginControl(kind, endless, e)
    PROVE  FencesInv'
<1> DEFINE k == Construct(kind, e, endless)
           f == GetFence(e, kind, TRUE, "none")
<1>1. /\ open # <<>> /\ kind # "Else" /\ e \notin used /\ used' = used \cup {e}
      /\ open' = Append(open, k) /\ pool' = [pool EXCEPT ![e] = f] /\ current' = e
      /\ reached' = (reached /\ kind # "Switch")
  BY DEF BeginControl, Begin, Expected
<1>2. Linked(open, pool, used, current) /\ Flow(open, pool, reached) /\ reached \in BOOLEAN
  BY DEF FencesInv
<1>3. k \in Constructs /\ k.kind = kind /\ k.entry = e /\ (~reached => Dead(k))
  <2>1. kind \in Kinds
    BY DEF Kinds
  <2> QED BY <1>2, <2>1, ConstructFacts
<1>4. /\ pool \in [Entries -> Fence] /\ current \in Entries
      /\ \A n \in DOMAIN open : open[n].entry \in Entries \ {e}
  <2>1. pool \in [Entries -> Fence] /\ current \in Entries
    BY <1>1, <1>2, LinkedFacts, InnermostFacts
  <2>2. \A n \in DOMAIN open : open[n].entry \in Entries /\ open[n].entry \in used
    BY <1>2, LinkedFacts
  <2> QED BY <1>1, <2>1, <2>2
<1>5. /\ f \in Fence /\ f.fFenceValid /\ f.nFenceType = kind /\ f.pNext = current
      /\ f.nFenceReturn = "Unknown"
  <2>1. PICK eat \in BOOLEAN : eat = TRUE
    OBVIOUS
  <2>2. f = GetFence(e, kind, eat, "none")
    BY <2>1
  <2>3. kind \in FenceTypes \cup {"Scope"}
    BY <1>1 DEF Controls, FenceTypes
  <2>4. current \in Entries \cup {NoFence} /\ "none" \in {"value", "void", "none"}
    BY <1>4
  <2> DEFINE g == GetFence(e, kind, eat, "none")
  <2>5. /\ g \in Fence /\ g.fFenceValid /\ g.nFenceType = kind /\ g.pNext = current
        /\ g.nFenceReturn = "Unknown"
    BY <1>4, <2>3, <2>4, GetFenceFacts
  <2> HIDE DEF f, g
  <2>6. f = g
    BY <2>2 DEF g
  <2> QED BY <2>5, <2>6
<1> HIDE DEF k, f
<1>6. Linked(open', pool', used', current')
  <2>1. f.nFenceType = TypeOf(k.kind) /\ k.kind # "Function"
    BY <1>1, <1>3, <1>5 DEF TypeOf, Controls, Loops
  <2>2. Linked(Append(open, k), [pool EXCEPT ![k.entry] = f], used \cup {k.entry}, k.entry)
    BY <1>1, <1>2, <1>3, <1>5, <2>1, PushLinked
  <2> QED BY <1>1, <1>3, <2>2
<1>7. Flow(open', pool', reached')
  <2>1. \A n \in DOMAIN open : Stops(open, pool, n) => ~reached' /\ Dead(k)
    BY <1>1, <1>2, <1>3 DEF Flow
  <2>2. \A n \in DOMAIN open : pool'[open[n].entry].nFenceReturn = pool[open[n].entry].nFenceReturn
    BY <1>1, <1>4
  <2>3. pool'[k.entry].nFenceReturn = "Unknown" /\ k.kind # "Else"
    BY <1>1, <1>3, <1>4, <1>5
  <2>4. Flow(Append(open, k), pool', reached')
    BY <1>2, <2>1, <2>2, <2>3, FlowPush
  <2> QED BY <1>1, <2>4
<1>8. reached' \in BOOLEAN
  BY <1>1, <1>2
<1> QED BY <1>6, <1>7, <1>8 DEF FencesInv

(* NscSetFenceReturn in the fences of constructs: the innermost that is no *)
(* block returns or does not. *)
LEMMA SetReturnStep ==
    ASSUME NEW o, NEW p, NEW u, NEW c, Linked(o, p, u, c), o # <<>>, NEW returns \in BOOLEAN
    PROVE  LET r == SetFenceReturn(p, c, returns) IN
           /\ Linked(o, r, u, c)
           /\ \E k \in DOMAIN o :
                /\ Owner(o, Len(o), k)
                /\ \A y \in Entries : y # o[k].entry => r[y] = p[y]
                /\ returns => (r[o[k].entry].nFenceReturn = "No" <=> p[o[k].entry].nFenceReturn = "No")
                /\ ~returns => r[o[k].entry].nFenceReturn = "No"
<1> DEFINE r == SetFenceReturn(p, c, returns)
<1>1. /\ o \in Seq(Constructs) /\ p \in [Entries -> Fence] /\ Len(o) \in DOMAIN o
      /\ \A n \in DOMAIN o : o[n].entry \in Entries
  BY LinkedFacts, InnermostFacts
<1>2. PICK k \in DOMAIN o : Owner(o, Len(o), k)
  BY <1>1, OwnerExists
<1> DEFINE x == o[k].entry
<1>3. Nearest(p, c, FenceTypes) = x /\ x \in Entries
  BY <1>1, <1>2, NearestIsOwner
<1>4. /\ r \in [Entries -> Fence]
      /\ \A y \in Entries : /\ r[y].fFenceValid = p[y].fFenceValid
                            /\ r[y].nFenceType = p[y].nFenceType
                            /\ r[y].pNext = p[y].pNext
                            /\ y # x => r[y] = p[y]
      /\ r[x].nFenceReturn = IF ~returns THEN "No"
                             ELSE IF p[x].nFenceReturn = "Unknown" THEN "Yes"
                             ELSE p[x].nFenceReturn
  <2> HIDE DEF x
  <2> QED BY <1>1, <1>3, SetFenceReturnFacts
<1> HIDE DEF r
<1>5. Linked(o, r, u, c)
  BY <1>1, <1>4, TouchLinked
<1> QED BY <1>2, <1>4, <1>5 DEF r

LEMMA ElseStep ==
    ASSUME FencesInv, NEW e \in Entries, Else(e)
    PROVE  FencesInv'
<1> DEFINE i == Innermost.entry
           outer == Restored(i)
           fence == [GetFence(e, "If", TRUE, "none") EXCEPT
                       !.nPrevLocals = pool[outer].nLocals + pool[outer].nPrevLocals,
                       !.pNext = outer]
           freed == Freed(pool, i)
           fences == [freed EXCEPT ![e] = fence]
           k == [Innermost EXCEPT !.kind = "Else", !.entry = e, !.first = reached]
<1>1. /\ open # <<>> /\ Innermost.kind = "If" /\ e \notin used /\ used' = (used \ {i}) \cup {e}
      /\ pool' = IF FHadReturn THEN fences ELSE SetFenceReturn(fences, e, FALSE)
      /\ current' = e /\ open' = Append(Outer, k) /\ reached' = Innermost.start
  BY DEF Else, Ready
<1>2. Linked(open, pool, used, current) /\ Flow(open, pool, reached) /\ reached \in BOOLEAN
  BY DEF FencesInv
<1>3. /\ Innermost \in Constructs /\ i \in Entries /\ i \in used /\ Len(open) \in DOMAIN open
      /\ pool \in [Entries -> Fence] /\ current = i
      /\ Outer # <<>> /\ Len(Outer) = Len(open) - 1
  BY <1>1, <1>2, LinkedFacts, InnermostFacts DEF Innermost, Outer
<1>4. /\ k \in Constructs /\ k.kind = "Else" /\ k.entry = e /\ k.first = reached
      /\ k.start = Innermost.start /\ k.broken = Innermost.broken /\ k.continued = Innermost.continued
  BY <1>2, <1>3 DEF Constructs, Kinds, Controls
<1>5. Innermost.start \in BOOLEAN
  BY <1>3 DEF Constructs
<1>6. ASSUME NEW n \in 1 .. Len(open) - 1, Stops(open, pool, n)
      PROVE  ~Innermost.start /\ Dead(k)
  <2>1. ~reached /\ Dead(Innermost)
    BY <1>1, <1>2, <1>6, StopsAround DEF Innermost
  <2> HIDE DEF k
  <2> QED BY <1>1, <1>4, <2>1 DEF Dead
<1>7. Linked(Outer, freed, used \ {i}, outer)
  BY <1>1, <1>2, PopLinked DEF Outer, Restored, Innermost
<1>8. Flow(Outer, freed, Innermost.start)
  BY <1>1, <1>2, <1>6, FlowPop DEF Outer, Innermost
<1>9. freed \in [Entries -> Fence] /\ outer \in Entries /\ \A n \in DOMAIN Outer : Outer[n].entry # e
  <2> HIDE DEF freed, outer
  <2>1. freed \in [Entries -> Fence] /\ outer \in Entries
    BY <1>3, <1>7, LinkedFacts, InnermostFacts
  <2>2. \A n \in DOMAIN Outer : Outer[n].entry \in used \ {i}
    BY <1>7, LinkedFacts
  <2> QED BY <1>1, <2>1, <2>2
<1>10. /\ fence \in Fence /\ fence.fFenceValid /\ fence.nFenceType = "If" /\ fence.pNext = outer
       /\ fence.nFenceReturn = "Unknown"
  <2>1. PICK eat \in BOOLEAN : eat = TRUE
    OBVIOUS
  <2> DEFINE f == GetFence(e, "If", eat, "none")
             n == pool[outer].nLocals + pool[outer].nPrevLocals
  <2>2. "If" \in FenceTypes \cup {"Scope"} /\ current \in Entries \cup {NoFence}
    BY <1>3 DEF FenceTypes
  <2>3. f \in Fence /\ f.fFenceValid /\ f.nFenceType = "If" /\ f.nFenceReturn = "Unknown"
    BY <1>3, <2>2, GetFenceFacts
  <2>4. n \in Int
    <3> HIDE DEF outer
    <3> QED BY <1>3, <1>9 DEF Fence
  <2>5. fence = [f EXCEPT !.nPrevLocals = n, !.pNext = outer]
    BY <2>1
  <2> HIDE DEF f, n, fence, outer
  <2> QED BY <1>9, <2>3, <2>4, <2>5 DEF Fence
<1> HIDE DEF freed, outer, fence, k
<1>11. Linked(Append(Outer, k), fences, used', e)
  <2>1. fence.nFenceType = TypeOf(k.kind) /\ k.entry \notin used \ {i}
    BY <1>1, <1>4, <1>10 DEF TypeOf
  <2>2. Linked(Append(Outer, k), [freed EXCEPT ![k.entry] = fence], (used \ {i}) \cup {k.entry}, k.entry)
    BY <1>3, <1>4, <1>7, <1>10, <2>1, PushLinked
  <2> QED BY <1>1, <1>4, <2>2
<1>12. /\ \A x \in Entries : x # e => fences[x] = freed[x]
       /\ fences[e] = fence
  BY <1>9
<1> HIDE DEF fences
<1>13. ASSUME NEW r, \A x \in Entries : x # e => r[x] = fences[x],
              r[e].nFenceReturn # "Yes", FHadReturn \/ r[e].nFenceReturn = "No"
       PROVE  Flow(Append(Outer, k), r, reached')
  <2>1. \A n \in DOMAIN Outer : Outer[n].entry \in Entries
    BY <1>7, LinkedFacts
  <2>2. \A n \in DOMAIN Outer : r[Outer[n].entry].nFenceReturn = freed[Outer[n].entry].nFenceReturn
    BY <1>9, <1>12, <1>13, <2>1
  <2>3. ASSUME NEW n \in DOMAIN Outer, Stops(Outer, freed, n) PROVE ~reached' /\ Dead(k)
    <3>1. n \in 1 .. Len(open) - 1 /\ Outer[n] = open[n]
      <4>1. open \in Seq(Constructs)
        BY <1>2 DEF Linked
      <4> QED BY <4>1 DEF Outer
    <3>2. freed[Outer[n].entry] = pool[Outer[n].entry]
      <4>1. Outer[n].entry \in used \ {i}
        BY <1>7, LinkedFacts
      <4>2. Outer[n].entry \in Entries \ {i}
        BY <2>1, <4>1
      <4> QED BY <1>3, <4>2, FreedFacts DEF freed
    <3>3. Stops(open, pool, n)
      BY <2>3, <3>1, <3>2 DEF Stops
    <3> QED BY <1>1, <1>6, <3>1, <3>3
  <2>4. r[e].nFenceReturn # "No" => ~reached
    <3>1. SUFFICES ASSUME FHadReturn PROVE ~reached
      BY <1>13
    <3>2. Stops(open, pool, Len(open))
      BY <1>1, <1>3, <3>1 DEF Stops, FHadReturn, Innermost
    <3> QED BY <1>2, <1>3, <3>2 DEF Flow
  <2> QED BY <1>4, <1>7, <1>8, <1>13, <2>2, <2>3, <2>4, FlowPush
<1>14. CASE FHadReturn
  <2>1. pool' = fences
    BY <1>1, <1>14
  <2>2. fences[e].nFenceReturn = "Unknown"
    BY <1>10, <1>12
  <2>3. Flow(Append(Outer, k), fences, reached')
    BY <1>13, <1>14, <2>2
  <2> QED BY <1>1, <1>5, <1>11, <2>1, <2>3 DEF FencesInv
<1>15. CASE ~FHadReturn
  <2>1. PICK returns \in BOOLEAN : returns = FALSE
    OBVIOUS
  <2> DEFINE q == Append(Outer, k)
             r == SetFenceReturn(fences, e, returns)
  <2>2. pool' = r
    BY <1>1, <1>15, <2>1
  <2>3. q # <<>> /\ q[Len(q)] = k /\ Len(q) \in DOMAIN q /\ Len(q) \in Nat /\ DOMAIN q = 1 .. Len(q)
    <3>1. Outer \in Seq(Constructs)
      BY <1>7 DEF Linked
    <3> QED BY <1>4, <3>1
  <2> HIDE DEF q, r
  <2>4. /\ Linked(q, r, used', e)
        /\ \E n \in DOMAIN q : /\ Owner(q, Len(q), n)
                               /\ \A y \in Entries : y # q[n].entry => r[y] = fences[y]
                               /\ r[q[n].entry].nFenceReturn = "No"
    <3>1. Linked(q, fences, used', e) /\ r = SetFenceReturn(fences, e, returns)
      BY <1>11 DEF q, r
    <3>2. /\ Linked(q, r, used', e)
          /\ \E n \in DOMAIN q : /\ Owner(q, Len(q), n)
                                 /\ \A y \in Entries : y # q[n].entry => r[y] = fences[y]
                                 /\ ~returns => r[q[n].entry].nFenceReturn = "No"
      BY <2>3, <3>1, SetReturnStep
    <3> QED BY <2>1, <3>2
  <2>5. PICK n \in DOMAIN q : /\ Owner(q, Len(q), n)
                              /\ \A y \in Entries : y # q[n].entry => r[y] = fences[y]
                              /\ r[q[n].entry].nFenceReturn = "No"
    BY <2>4
  <2>6. n = Len(q)
    <3>1. q[Len(q)].kind # "Block"
      BY <1>4, <2>3
    <3> QED BY <2>3, <2>5, <3>1 DEF Owner
  <2>7. Flow(Append(Outer, k), r, reached')
    BY <1>4, <1>13, <2>3, <2>5, <2>6
  <2> QED BY <1>1, <1>5, <2>2, <2>4, <2>7 DEF FencesInv, q
<1> QED BY <1>14, <1>15

(* A return of the innermost construct that is no block, where control     *)
(* does not get any more. *)
LEMMA ReturnLinked ==
    ASSUME NEW o, NEW p, NEW u, NEW c, Linked(o, p, u, c), o # <<>>, Flow(o, p, FALSE)
    PROVE  Linked(o, SetFenceReturn(p, c, TRUE), u, c) /\ Flow(o, SetFenceReturn(p, c, TRUE), FALSE)
<1>1. PICK returns \in BOOLEAN : returns = TRUE
  OBVIOUS
<1> DEFINE r == SetFenceReturn(p, c, returns)
<1>2. /\ Linked(o, r, u, c)
      /\ \E k \in DOMAIN o :
           /\ Owner(o, Len(o), k)
           /\ \A y \in Entries : y # o[k].entry => r[y] = p[y]
           /\ returns => (r[o[k].entry].nFenceReturn = "No" <=> p[o[k].entry].nFenceReturn = "No")
  BY SetReturnStep
<1>3. r = SetFenceReturn(p, c, TRUE)
  BY <1>1
<1> HIDE DEF r
<1>4. Flow(o, r, FALSE)
  BY <1>1, <1>2, FlowReturn
<1> QED BY <1>2, <1>3, <1>4

LEMMA EndControlStep ==
    ASSUME FencesInv, EndControl
    PROVE  FencesInv'
<1> DEFINE i == Innermost.entry
           outer == Restored(i)
           freed == Freed(pool, i)
           had == BothReturn(Innermost, FHadReturn)
           behind == Behind(Innermost)
<1>1. /\ open # <<>> /\ Innermost.kind \in Controls /\ used' = used \ {i}
      /\ pool' = (IF had THEN SetFenceReturn(freed, outer, TRUE) ELSE freed)
      /\ current' = outer /\ open' = Outer /\ reached' = behind
  BY DEF EndControl, Ready
<1>2. Linked(open, pool, used, current) /\ Flow(open, pool, reached) /\ reached \in BOOLEAN
  BY DEF FencesInv
<1>3. /\ Innermost \in Constructs /\ Len(open) \in DOMAIN open
      /\ current = i /\ Outer # <<>>
  <2>1. Innermost.kind # "Block" /\ Innermost.kind # "Function"
    BY <1>1 DEF Controls, Loops
  <2> QED BY <1>1, <1>2, <2>1, InnermostFacts DEF Innermost, Outer
<1>4. /\ Innermost.start \in BOOLEAN /\ Innermost.first \in BOOLEAN /\ Innermost.broken \in BOOLEAN
      /\ Innermost.continued \in BOOLEAN /\ Innermost.endless \in BOOLEAN /\ Innermost.default \in BOOLEAN
  BY <1>3 DEF Constructs
<1>5. behind \in BOOLEAN
  BY <1>1, <1>2, <1>4 DEF Behind, Controls, Loops
<1>6. ASSUME NEW n \in 1 .. Len(open) - 1, Stops(open, pool, n)
      PROVE  ~behind
  <2>1. ~reached /\ Dead(Innermost)
    BY <1>1, <1>2, <1>6, StopsAround DEF Innermost
  <2>2. ~Innermost.start /\ ~Innermost.first /\ ~Innermost.broken /\ ~Innermost.continued
    BY <1>1, <2>1 DEF Dead, Controls, Loops
  <2> QED BY <1>1, <2>1, <2>2 DEF Behind, Controls, Loops
<1>7. Linked(Outer, freed, used \ {i}, outer)
  BY <1>1, <1>2, PopLinked DEF Outer, Restored, Innermost
<1> HIDE DEF behind
<1>8. Flow(Outer, freed, behind)
  BY <1>1, <1>2, <1>6, FlowPop DEF Outer, Innermost
<1> HIDE DEF freed, outer
<1>9. CASE had
  <2>1. Innermost.kind = "Else" /\ pool[i].nFenceReturn = "Yes"
    BY <1>3, <1>9 DEF BothReturn, FHadReturn
  <2>2. ~reached /\ ~Innermost.first
    <3>1. Stops(open, pool, Len(open))
      BY <2>1 DEF Stops, Innermost
    <3> QED BY <1>2, <1>3, <2>1, <3>1 DEF Flow, Innermost
  <2>3. behind = FALSE
    BY <2>1, <2>2, <1>5 DEF behind, Behind
  <2>4. pool' = SetFenceReturn(freed, outer, TRUE)
    BY <1>1, <1>9
  <2>5. /\ Linked(Outer, SetFenceReturn(freed, outer, TRUE), used \ {i}, outer)
        /\ Flow(Outer, SetFenceReturn(freed, outer, TRUE), FALSE)
    BY <1>3, <1>7, <1>8, <2>3, ReturnLinked
  <2> QED BY <1>1, <1>5, <2>3, <2>4, <2>5 DEF FencesInv
<1>10. CASE ~had
  BY <1>1, <1>5, <1>7, <1>8, <1>10 DEF FencesInv
<1> QED BY <1>9, <1>10

-----------------------------------------------------------------------------
LEMMA StatementStep == ASSUME FencesInv, NEW error \in BOOLEAN, Statement(error) PROVE FencesInv'
BY DEF FencesInv, Statement

LEMMA DeclareStep == ASSUME FencesInv, Declare PROVE FencesInv'
<1> DEFINE g == [pool[current] EXCEPT !.nLocals = @ + 1]
<1>1. /\ open # <<>> /\ pool' = [pool EXCEPT ![current] = g]
      /\ used' = used /\ current' = current /\ open' = open /\ reached' = reached
  BY DEF Declare, Expected
<1>2. Linked(open, pool, used, current) /\ Flow(open, pool, reached) /\ reached \in BOOLEAN
  BY DEF FencesInv
<1>3. /\ pool \in [Entries -> Fence] /\ current \in Entries /\ pool[current] \in Fence
      /\ open \in Seq(Constructs)
  BY <1>1, <1>2, LinkedFacts, InnermostFacts
<1>4. /\ g \in Fence /\ g.fFenceValid = pool[current].fFenceValid
      /\ g.nFenceType = pool[current].nFenceType /\ g.pNext = pool[current].pNext
      /\ g.nFenceReturn = pool[current].nFenceReturn
  <2>1. pool[current].nLocals + 1 \in Int
    BY <1>3 DEF Fence
  <2> QED BY <1>3, <2>1 DEF Fence
<1> HIDE DEF g
<1>5. /\ pool' \in [Entries -> Fence]
      /\ \A x \in Entries : /\ pool'[x].fFenceValid = pool[x].fFenceValid
                            /\ pool'[x].nFenceType = pool[x].nFenceType
                            /\ pool'[x].pNext = pool[x].pNext
                            /\ pool'[x].nFenceReturn = pool[x].nFenceReturn
  BY <1>1, <1>3, <1>4
<1>6. Linked(open, pool', used, current)
  BY <1>2, <1>3, <1>5, TouchLinked
<1>7. \A n \in DOMAIN open : Stops(open, pool, n) => ~reached
  BY <1>2 DEF Flow
<1>8. Flow(open, pool', reached)
  BY <1>2, <1>3, <1>5, <1>7, FlowTouch
<1> QED BY <1>1, <1>2, <1>6, <1>8 DEF FencesInv

LEMMA ReturnStep == ASSUME FencesInv, NEW value \in BOOLEAN, Return(value) PROVE FencesInv'
<1>1. /\ open # <<>> /\ pool' = SetFenceReturn(pool, current, TRUE) /\ reached' = FALSE
      /\ used' = used /\ current' = current /\ open' = open
  BY DEF Return, Expected
<1>2. Linked(open, pool, used, current) /\ Flow(open, pool, reached)
  BY DEF FencesInv
<1>3. Flow(open, pool, FALSE)
  <2>1. open \in Seq(Constructs)
    BY <1>2 DEF Linked
  <2> QED BY <1>2, <2>1, FlowTouch
<1>4. /\ Linked(open, SetFenceReturn(pool, current, TRUE), used, current)
      /\ Flow(open, SetFenceReturn(pool, current, TRUE), FALSE)
  BY <1>1, <1>2, <1>3, ReturnLinked
<1> QED BY <1>1, <1>4 DEF FencesInv

(* A construct gets another field: where control leaves it, or its labels. *)
LEMMA NoteLinked ==
    ASSUME NEW o, NEW p, NEW u, NEW c, Linked(o, p, u, c), NEW s \in BOOLEAN, Flow(o, p, s),
           NEW n, NEW g, NEW r, NEW t,
           n \in DOMAIN o =>
              /\ g \in Constructs /\ g.kind = o[n].kind /\ g.entry = o[n].entry
              /\ g.first = o[n].first /\ g.start = o[n].start
              /\ ~s => g.broken = o[n].broken /\ g.continued = o[n].continued,
           \A m \in DOMAIN o : Stops(o, p, m) => ~t,
           r \in [Entries -> Fence],
           \A x \in Entries : /\ r[x].fFenceValid = p[x].fFenceValid
                              /\ r[x].nFenceType = p[x].nFenceType
                              /\ r[x].pNext = p[x].pNext
                              /\ r[x].nFenceReturn = p[x].nFenceReturn
    PROVE  Linked([o EXCEPT ![n] = g], r, u, c) /\ Flow([o EXCEPT ![n] = g], r, t)
<1> DEFINE q == [o EXCEPT ![n] = g]
<1>1. o \in Seq(Constructs)
  BY DEF Linked
<1>2. q \in Seq(Constructs) /\ Len(q) = Len(o)
  <2>1. CASE n \in DOMAIN o
    BY <1>1, <2>1
  <2>2. CASE n \notin DOMAIN o
    <3>1. q = o
      BY <1>1, <2>2
    <3> QED BY <1>1, <3>1
  <2> QED BY <2>1, <2>2
<1>3. \A m \in DOMAIN o : q[m] = IF m = n THEN g ELSE o[m]
  OBVIOUS
<1> HIDE DEF q
<1>4. \A m \in DOMAIN o : /\ q[m].kind = o[m].kind /\ q[m].entry = o[m].entry
                          /\ q[m].first = o[m].first
  BY <1>3
<1>5. Linked(q, r, u, c)
  BY <1>2, <1>4, TouchLinked
<1>6. ASSUME ~s, NEW m \in DOMAIN o, Dead(o[m]) PROVE Dead(q[m])
  BY <1>3, <1>6 DEF Dead
<1>7. \A m \in DOMAIN o : Stops(o, p, m) => ~s
  BY DEF Flow
<1>8. Flow(q, r, t)
  BY <1>2, <1>4, <1>6, <1>7, FlowTouch
<1> QED BY <1>5, <1>8 DEF q

LEMMA BreakStep == ASSUME FencesInv, Break PROVE FencesInv'
<1> DEFINE n == Around(Loops \cup {"Switch"})
           b == open[n].broken \/ reached
           g == [open[n] EXCEPT !.broken = b]
<1>1. pool' = pool /\ used' = used /\ current' = current
  BY DEF Break
<1>2. Linked(open, pool, used, current) /\ Flow(open, pool, reached) /\ reached \in BOOLEAN
  BY DEF FencesInv
<1>3. \/ open' = open /\ reached' = reached
      \/ open' = [open EXCEPT ![n] = g] /\ reached' = FALSE
  BY DEF Break
<1>4. ASSUME n \in DOMAIN open
      PROVE  /\ g \in Constructs /\ g.kind = open[n].kind /\ g.entry = open[n].entry
             /\ g.first = open[n].first /\ g.start = open[n].start
             /\ ~reached => g.broken = open[n].broken /\ g.continued = open[n].continued
  <2>1. open[n] \in Constructs
    BY <1>2, <1>4, LinkedFacts
  <2> HIDE DEF n
  <2> QED BY <1>2, <2>1 DEF Constructs
<1> HIDE DEF n, g
<1>5. /\ pool \in [Entries -> Fence]
      /\ Linked([open EXCEPT ![n] = g], pool, used, current)
      /\ Flow([open EXCEPT ![n] = g], pool, FALSE)
  <2>1. pool \in [Entries -> Fence]
    BY <1>2, LinkedFacts
  <2> QED BY <1>2, <1>4, <2>1, NoteLinked
<1> QED BY <1>1, <1>2, <1>3, <1>5 DEF FencesInv

LEMMA ContinueStep == ASSUME FencesInv, Continue PROVE FencesInv'
<1> DEFINE n == Around(Loops)
           b == open[n].continued \/ reached
           g == [open[n] EXCEPT !.continued = b]
<1>1. pool' = pool /\ used' = used /\ current' = current
  BY DEF Continue
<1>2. Linked(open, pool, used, current) /\ Flow(open, pool, reached) /\ reached \in BOOLEAN
  BY DEF FencesInv
<1>3. \/ open' = open /\ reached' = reached
      \/ open' = [open EXCEPT ![n] = g] /\ reached' = FALSE
  BY DEF Continue
<1>4. ASSUME n \in DOMAIN open
      PROVE  /\ g \in Constructs /\ g.kind = open[n].kind /\ g.entry = open[n].entry
             /\ g.first = open[n].first /\ g.start = open[n].start
             /\ ~reached => g.broken = open[n].broken /\ g.continued = open[n].continued
  <2>1. open[n] \in Constructs
    BY <1>2, <1>4, LinkedFacts
  <2> HIDE DEF n
  <2> QED BY <1>2, <2>1 DEF Constructs
<1> HIDE DEF n, g
<1>5. /\ pool \in [Entries -> Fence]
      /\ Linked([open EXCEPT ![n] = g], pool, used, current)
      /\ Flow([open EXCEPT ![n] = g], pool, FALSE)
  <2>1. pool \in [Entries -> Fence]
    BY <1>2, LinkedFacts
  <2> QED BY <1>2, <1>4, <2>1, NoteLinked
<1> QED BY <1>1, <1>2, <1>3, <1>5 DEF FencesInv

(* A label is noted in the construct whose fence it is for, and control    *)
(* only gets there if it gets to the switch. *)
LEMMA SwitchFacts ==
    ASSUME FencesInv, open # <<>>, SwitchFence # NoFence
    PROVE  /\ SwitchFence \in Entries
           /\ InSwitch \in DOMAIN open /\ open[InSwitch].entry = SwitchFence
           /\ open[InSwitch].kind = "Switch"
           /\ \A n \in DOMAIN open : Stops(open, pool, n) => ~(reached \/ open[InSwitch].start)
<1>1. Linked(open, pool, used, current) /\ Flow(open, pool, reached)
  BY DEF FencesInv
<1>2. /\ DOMAIN open = 1 .. Len(open) /\ Len(open) \in Nat /\ Len(open) \in DOMAIN open
      /\ \A n \in DOMAIN open : open[n].entry \in Entries
      /\ \A n \in DOMAIN open : open[n] \in Constructs
  BY <1>1, LinkedFacts, InnermostFacts
<1>3. PICK k \in DOMAIN open : Owner(open, Len(open), k)
  BY <1>1, <1>2, OwnerExists
<1>4. SwitchFence = open[k].entry /\ pool[open[k].entry].nFenceType = "Switch"
  <2>1. Nearest(pool, current, FenceTypes) = open[k].entry
    BY <1>1, <1>3, NearestIsOwner
  <2> QED BY <2>1 DEF SwitchFence
<1>5. \A n \in DOMAIN open : open[n].kind \in Kinds
  BY <1>2 DEF Constructs
<1>6. open[k].kind = "Switch"
  <2>1. open[k].kind # "Block"
    BY <1>3 DEF Owner
  <2>2. pool[open[k].entry].nFenceType = TypeOf(open[k].kind)
    BY <1>1, <1>3, <2>1 DEF Linked
  <2> QED BY <1>4, <1>5, <2>1, <2>2 DEF TypeOf, Kinds, Controls, Loops
<1>7. InSwitch = k
  <2> DEFINE K == Controls \cup {"Function"}
             S == {n \in DOMAIN open : open[n].kind \in K}
  <2>1. \A n \in DOMAIN open : n \in S <=> open[n].kind # "Block"
    BY <1>5 DEF Kinds, Controls, Loops
  <2> HIDE DEF K
  <2>2. k \in S /\ S \subseteq DOMAIN open
    BY <1>6, <2>1
  <2> HIDE DEF S
  <2>3. ASSUME NEW m \in S PROVE m <= k
    <3>1. m \in 1 .. Len(open) /\ open[m].kind # "Block"
      BY <1>2, <2>1, <2>2
    <3>2. m \notin k + 1 .. Len(open)
      BY <1>3, <3>1 DEF Owner
    <3> QED BY <1>2, <3>1, <3>2
  <2>4. \A x \in S : (\A m \in S : m <= x) => x = k
    <3>1. \A x \in S : x \in Nat
      BY <1>2, <2>2
    <3> QED BY <2>2, <2>3, <3>1
  <2>5. InSwitch = CHOOSE n \in S : \A m \in S : m <= n
    BY <2>2 DEF InSwitch, Around, S, K
  <2> QED BY <2>2, <2>3, <2>4, <2>5
<1>8. ASSUME NEW n \in DOMAIN open, Stops(open, pool, n) PROVE ~(reached \/ open[k].start)
  <2>1. ~reached /\ \A m \in n + 1 .. Len(open) : Dead(open[m])
    BY <1>1, <1>8 DEF Flow
  <2>2. n # k
    BY <1>6, <1>8 DEF Stops
  <2>3. n \notin k + 1 .. Len(open)
    BY <1>3, <1>8 DEF Owner, Stops
  <2>4. k \in n + 1 .. Len(open)
    BY <1>2, <2>2, <2>3
  <2>5. Dead(open[k])
    BY <2>1, <2>4
  <2> QED BY <1>6, <2>1, <2>5 DEF Dead
<1> QED BY <1>2, <1>3, <1>4, <1>6, <1>7, <1>8

LEMMA CaseStep == ASSUME FencesInv, NEW v \in Values, Case(v) PROVE FencesInv'
<1> DEFINE e == SwitchFence
           n == InSwitch
           f == [pool[e] EXCEPT !.extra.cases = @ \cup {v}]
           g == [open[n] EXCEPT !.labels = @ \cup {v}]
           t == reached \/ open[n].start
<1>1. open # <<>> /\ used' = used /\ current' = current
  BY DEF Case, Expected
<1>2. Linked(open, pool, used, current) /\ Flow(open, pool, reached) /\ reached \in BOOLEAN
  BY DEF FencesInv
<1>3. CASE SwitchFence = NoFence
  <2>1. pool' = pool /\ open' = open /\ reached' = reached
    BY <1>3 DEF Case
  <2> QED BY <1>1, <1>2, <2>1 DEF FencesInv
<1>4. CASE SwitchFence # NoFence
  <2>1. pool' = [pool EXCEPT ![e] = f] /\ open' = [open EXCEPT ![n] = g] /\ reached' = t
    BY <1>4 DEF Case
  <2>2. /\ e \in Entries /\ n \in DOMAIN open
        /\ \A m \in DOMAIN open : Stops(open, pool, m) => ~t
    BY <1>1, <1>4, SwitchFacts
  <2>3. /\ open[n] \in Constructs /\ pool \in [Entries -> Fence] /\ pool[e] \in Fence
    BY <1>2, <2>2, LinkedFacts
  <2> HIDE DEF n, e
  <2>4. /\ g \in Constructs /\ g.kind = open[n].kind /\ g.entry = open[n].entry
        /\ g.first = open[n].first /\ g.start = open[n].start
        /\ g.broken = open[n].broken /\ g.continued = open[n].continued
    BY <2>3 DEF Constructs
  <2>5. /\ f \in Fence /\ f.fFenceValid = pool[e].fFenceValid
        /\ f.nFenceType = pool[e].nFenceType /\ f.pNext = pool[e].pNext
        /\ f.nFenceReturn = pool[e].nFenceReturn
    BY <2>3 DEF Fence
  <2>6. t \in BOOLEAN
    BY <1>2, <2>3 DEF Constructs
  <2> HIDE DEF f, g, t
  <2> DEFINE r == [pool EXCEPT ![e] = f]
  <2>7. /\ r \in [Entries -> Fence]
        /\ \A x \in Entries : /\ r[x].fFenceValid = pool[x].fFenceValid
                              /\ r[x].nFenceType = pool[x].nFenceType
                              /\ r[x].pNext = pool[x].pNext
                              /\ r[x].nFenceReturn = pool[x].nFenceReturn
    BY <2>2, <2>3, <2>5
  <2> HIDE DEF r
  <2>8. Linked([open EXCEPT ![n] = g], r, used, current) /\ Flow([open EXCEPT ![n] = g], r, t)
    BY <1>2, <2>2, <2>4, <2>7, NoteLinked
  <2> QED BY <1>1, <2>1, <2>6, <2>8 DEF FencesInv, r
<1> QED BY <1>3, <1>4

LEMMA DefaultStep == ASSUME FencesInv, Default PROVE FencesInv'
<1> DEFINE e == SwitchFence
           n == InSwitch
           f == [pool[e] EXCEPT !.fHasDefault = TRUE]
           g == [open[n] EXCEPT !.default = TRUE]
           t == reached \/ open[n].start
<1>1. open # <<>> /\ used' = used /\ current' = current
  BY DEF Default, Expected
<1>2. Linked(open, pool, used, current) /\ Flow(open, pool, reached) /\ reached \in BOOLEAN
  BY DEF FencesInv
<1>3. CASE SwitchFence = NoFence
  <2>1. pool' = pool /\ open' = open /\ reached' = reached
    BY <1>3 DEF Default
  <2> QED BY <1>1, <1>2, <2>1 DEF FencesInv
<1>4. CASE SwitchFence # NoFence
  <2>1. pool' = [pool EXCEPT ![e] = f] /\ open' = [open EXCEPT ![n] = g] /\ reached' = t
    BY <1>4 DEF Default
  <2>2. /\ e \in Entries /\ n \in DOMAIN open
        /\ \A m \in DOMAIN open : Stops(open, pool, m) => ~t
    BY <1>1, <1>4, SwitchFacts
  <2>3. /\ open[n] \in Constructs /\ pool \in [Entries -> Fence] /\ pool[e] \in Fence
    BY <1>2, <2>2, LinkedFacts
  <2> HIDE DEF n, e
  <2>4. /\ g \in Constructs /\ g.kind = open[n].kind /\ g.entry = open[n].entry
        /\ g.first = open[n].first /\ g.start = open[n].start
        /\ g.broken = open[n].broken /\ g.continued = open[n].continued
    BY <2>3 DEF Constructs
  <2>5. /\ f \in Fence /\ f.fFenceValid = pool[e].fFenceValid
        /\ f.nFenceType = pool[e].nFenceType /\ f.pNext = pool[e].pNext
        /\ f.nFenceReturn = pool[e].nFenceReturn
    BY <2>3 DEF Fence
  <2>6. t \in BOOLEAN
    BY <1>2, <2>3 DEF Constructs
  <2> HIDE DEF f, g, t
  <2> DEFINE r == [pool EXCEPT ![e] = f]
  <2>7. /\ r \in [Entries -> Fence]
        /\ \A x \in Entries : /\ r[x].fFenceValid = pool[x].fFenceValid
                              /\ r[x].nFenceType = pool[x].nFenceType
                              /\ r[x].pNext = pool[x].pNext
                              /\ r[x].nFenceReturn = pool[x].nFenceReturn
    BY <2>2, <2>3, <2>5
  <2> HIDE DEF r
  <2>8. Linked([open EXCEPT ![n] = g], r, used, current) /\ Flow([open EXCEPT ![n] = g], r, t)
    BY <1>2, <2>2, <2>4, <2>7, NoteLinked
  <2> QED BY <1>1, <2>1, <2>6, <2>8 DEF FencesInv, r
<1> QED BY <1>3, <1>4

-----------------------------------------------------------------------------
(* Each step keeps the fences linked, and the flags true of the flow. *)
LEMMA NextStep == ASSUME FencesInv, [FencesNext]_fenceVars PROVE FencesInv'
<1>1. ASSUME NEW fn \in {"value", "void", "none"}, NEW e \in Entries, BeginFunction(fn, e)
      PROVE  FencesInv'
  BY <1>1, BeginFunctionStep
<1>2. ASSUME NEW e \in Entries, BeginBlock(e) PROVE FencesInv'
  BY <1>2, BeginBlockStep
<1>3. ASSUME NEW kind \in Controls, NEW endless \in BOOLEAN, NEW e \in Entries,
             BeginControl(kind, endless, e)
      PROVE  FencesInv'
  BY <1>3, BeginControlStep
<1>4. ASSUME NEW e \in Entries, Else(e) PROVE FencesInv'
  BY <1>4, ElseStep
<1>5. ASSUME NEW error \in BOOLEAN, Statement(error) PROVE FencesInv'
  BY <1>5, StatementStep
<1>6. ASSUME NEW value \in BOOLEAN, Return(value) PROVE FencesInv'
  BY <1>6, ReturnStep
<1>7. ASSUME NEW v \in Values, Case(v) PROVE FencesInv'
  BY <1>7, CaseStep
<1>8. CASE UNCHANGED fenceVars
  BY <1>8 DEF FencesInv, fenceVars
<1> QED BY <1>1, <1>2, <1>3, <1>4, <1>5, <1>6, <1>7, <1>8, PrototypeStep, EndFunctionStep,
           EndBlockStep, EndControlStep, DeclareStep, BreakStep, ContinueStep, DefaultStep
        DEF FencesNext

(* The fences are linked as the constructs are nested, and what they say   *)
(* of returns is true of the flow of control (GetFence, RestoreFence,      *)
(* NscSetFenceReturn). *)
THEOREM FencesInvariant == FencesSpec => []FencesInv
<1> QED BY InitStep, NextStep, PTL DEF FencesSpec

(* A function with a result that is accepted does not end without a return *)
(* (NscBuildFunctionDef). *)
THEOREM FunctionsReturn == FencesSpec => AllPathsReturn
<1>1. ASSUME FencesInv, EndFunction, pool[Innermost.entry].fn = "value", reached
      PROVE  errors'
  <2>1. Linked(open, pool, used, current) /\ Flow(open, pool, reached)
    BY <1>1 DEF FencesInv
  <2>2. open # <<>> /\ Innermost.kind = "Function"
    BY <1>1 DEF EndFunction, Ready
  <2>3. Len(open) \in DOMAIN open
    BY <2>1, <2>2, InnermostFacts
  <2>4. ~Stops(open, pool, Len(open))
    BY <1>1, <2>1, <2>3 DEF Flow
  <2>5. pool[Innermost.entry].nFenceReturn # "Yes"
    BY <2>2, <2>4 DEF Stops, Innermost
  <2> QED BY <1>1, <2>5 DEF EndFunction
<1>2. FencesInv /\ [FencesNext]_fenceVars
        => [(EndFunction /\ pool[Innermost.entry].fn = "value" /\ reached) => errors']_fenceVars
  BY <1>1
<1>3. FencesSpec => [][FencesNext]_fenceVars
  BY PTL DEF FencesSpec
<1> QED BY <1>2, <1>3, FencesInvariant, PTL DEF AllPathsReturn

-----------------------------------------------------------------------------
(* The locals and the labels in the fence of the n-th construct. *)
Over(o, p, n) ==
    LET fence == p[o[n].entry] IN
    /\ n = 1 => fence.pNext = NoFence
    /\ n > 1 => fence.nPrevLocals = p[fence.pNext].nLocals + p[fence.pNext].nPrevLocals
                                    + (IF o[n].kind = "Switch" THEN 1 ELSE 0)
    /\ o[n].kind = "Switch" => fence.extra = [as |-> "switch", cases |-> o[n].labels]

Counted(o, p, c) ==
    /\ o = <<>> => c = NoFence
    /\ \A n \in DOMAIN o : p[o[n].entry].fFenceValid => Over(o, p, n)

(* What Over tells from the fence of entry e is the same in r. *)
Alike(r, p, e) ==
    /\ r[e].fFenceValid = p[e].fFenceValid /\ r[e].pNext = p[e].pNext /\ r[e].extra = p[e].extra
    /\ r[e].nLocals = p[e].nLocals /\ r[e].nPrevLocals = p[e].nPrevLocals

(* The fence outside of that of a construct. *)
LEMMA NextHeld ==
    ASSUME NEW o, NEW p, NEW u, NEW c, Linked(o, p, u, c), NEW n \in DOMAIN o, n > 1,
           p[o[n].entry].fFenceValid
    PROVE  /\ \E m \in 1 .. n - 1 : m \in DOMAIN o /\ p[o[n].entry].pNext = o[m].entry
           /\ p[o[n].entry].pNext # c
<1>1. PICK N \in Nat : N = Len(o) /\ DOMAIN o = 1 .. N
  BY LinkedFacts
<1>2. Holder(o, p, n - 1, p[o[n].entry].pNext)
  BY DEF Linked
<1>3. PICK m \in 1 .. n - 1 : p[o[n].entry].pNext = o[m].entry
  BY <1>2 DEF Holder
<1>4. m \in DOMAIN o
  BY <1>1
<1>5. PICK k \in 1 .. N : c = o[k].entry /\ \A j \in k + 1 .. N : ~p[o[j].entry].fFenceValid
  <2>1. Holder(o, p, N, c)
    BY <1>1 DEF Linked
  <2> QED BY <2>1 DEF Holder
<1>6. n \notin k + 1 .. N
  BY <1>5
<1>7. m # k
  BY <1>1, <1>6
<1>8. \A i, j \in DOMAIN o : o[i].entry = o[j].entry => i = j
  BY DEF Linked
<1> QED BY <1>1, <1>3, <1>4, <1>5, <1>7, <1>8

LEMMA OverSame ==
    ASSUME NEW o, NEW p, NEW u, NEW c, Linked(o, p, u, c), NEW n \in DOMAIN o,
           p[o[n].entry].fFenceValid, Over(o, p, n), NEW q, NEW r,
           q[n].kind = o[n].kind, q[n].entry = o[n].entry, q[n].labels = o[n].labels,
           \A m \in 1 .. n : Alike(r, p, o[m].entry)
    PROVE  Over(q, r, n)
<1>1. n \in Nat /\ n >= 1
  BY LinkedFacts
<1> DEFINE f == p[o[n].entry]
           g == r[q[n].entry]
<1>2. g.pNext = f.pNext /\ g.extra = f.extra /\ g.nPrevLocals = f.nPrevLocals
  BY <1>1 DEF Alike
<1>3. CASE n > 1
  <2>1. PICK m \in 1 .. n - 1 : f.pNext = o[m].entry
    BY <1>3, NextHeld
  <2>2. r[f.pNext].nLocals = p[f.pNext].nLocals /\ r[f.pNext].nPrevLocals = p[f.pNext].nPrevLocals
    BY <1>1, <2>1 DEF Alike
  <2> QED BY <1>1, <1>2, <1>3, <2>2 DEF Over
<1>4. CASE n = 1
  BY <1>2, <1>4 DEF Over
<1> QED BY <1>1, <1>3, <1>4

(* Nothing that Over tells changes. *)
LEMMA CountedSame ==
    ASSUME NEW o, NEW p, NEW u, NEW c, Linked(o, p, u, c), Counted(o, p, c), NEW q, NEW r,
           Len(q) = Len(o), q \in Seq(Constructs),
           \A n \in DOMAIN o : q[n].kind = o[n].kind /\ q[n].entry = o[n].entry
                               /\ q[n].labels = o[n].labels,
           \A e \in Entries : Alike(r, p, e)
    PROVE  Counted(q, r, c)
<1>1. /\ o \in Seq(Constructs) /\ DOMAIN o = 1 .. Len(o) /\ DOMAIN q = DOMAIN o
      /\ \A n \in DOMAIN o : o[n].entry \in Entries
  BY LinkedFacts
<1>2. ASSUME NEW n \in DOMAIN q, r[q[n].entry].fFenceValid PROVE Over(q, r, n)
  <2>1. n \in DOMAIN o /\ p[o[n].entry].fFenceValid
    BY <1>1, <1>2 DEF Alike
  <2>2. \A m \in 1 .. n : m \in DOMAIN o
    BY <1>1, <2>1
  <2>3. \A m \in 1 .. n : Alike(r, p, o[m].entry)
    BY <1>1, <2>2
  <2>4. Over(o, p, n)
    BY <2>1 DEF Counted
  <2> QED BY <2>1, <2>3, <2>4, OverSame
<1>3. q = <<>> => c = NoFence
  BY <1>1 DEF Counted
<1> QED BY <1>2, <1>3 DEF Counted

(* A construct with a fence begins. *)
LEMMA CountedPush ==
    ASSUME NEW o, NEW p, NEW u, NEW c, Linked(o, p, u, c), Counted(o, p, c), NEW k \in Constructs,
           NEW f \in Fence, k.entry \notin u, f.fFenceValid, f.pNext = c,
           o # <<>> => f.nPrevLocals = p[c].nLocals + p[c].nPrevLocals
                                       + (IF k.kind = "Switch" THEN 1 ELSE 0),
           k.kind = "Switch" => f.extra = NewCases /\ k.labels = {}
    PROVE  Counted(Append(o, k), [p EXCEPT ![k.entry] = f], k.entry)
<1> DEFINE e == k.entry
           q == Append(o, k)
           r == [p EXCEPT ![e] = f]
           N == Len(o)
<1>1. /\ o \in Seq(Constructs) /\ N \in Nat /\ DOMAIN o = 1 .. N /\ p \in [Entries -> Fence]
      /\ \A n \in DOMAIN o : o[n].entry \in Entries /\ o[n].entry \in u
      /\ u \subseteq Entries
  BY LinkedFacts
<1>2. e \in Entries /\ r[e] = f /\ \A x \in Entries \ {e} : r[x] = p[x]
  BY <1>1 DEF Constructs
<1>3. /\ DOMAIN q = 1 .. N + 1 /\ q[N + 1] = k /\ q # <<>>
      /\ \A n \in DOMAIN o : q[n] = o[n]
  BY <1>1
<1>4. \A n \in DOMAIN o : r[o[n].entry] = p[o[n].entry]
  <2> HIDE DEF r
  <2> QED BY <1>1, <1>2
<1> HIDE DEF q, r
<1>5. ASSUME NEW n \in DOMAIN q, r[q[n].entry].fFenceValid PROVE Over(q, r, n)
  <2>1. CASE n \in DOMAIN o
    <3>1. q[n] = o[n] /\ p[o[n].entry].fFenceValid
      BY <1>3, <1>4, <1>5, <2>1
    <3>2. Over(o, p, n)
      BY <2>1, <3>1 DEF Counted
    <3>3. \A m \in 1 .. n : m \in DOMAIN o
      BY <1>1, <2>1
    <3>4. \A m \in 1 .. n : Alike(r, p, o[m].entry)
      BY <1>4, <3>3 DEF Alike
    <3> QED BY <2>1, <3>1, <3>2, <3>4, OverSame
  <2>2. CASE n = N + 1
    <3>1. q[n] = k /\ r[q[n].entry] = f
      BY <1>2, <1>3, <2>2
    <3>2. k.kind = "Switch" => f.extra = [as |-> "switch", cases |-> k.labels]
      BY DEF NewCases
    <3>3. CASE o = <<>>
      BY <1>1, <2>2, <3>1, <3>2, <3>3 DEF Over, Counted
    <3>4. CASE o # <<>>
      <4>1. c \in Entries \ {e}
        <5>1. c \in Entries /\ p[c].fFenceValid
          BY <3>4, InnermostFacts
        <5>2. c \in u
          BY <5>1 DEF Linked
        <5> QED BY <5>1, <5>2
      <4>2. r[c] = p[c]
        BY <1>2, <4>1
      <4>3. n # 1
        BY <1>1, <2>2, <3>4
      <4> QED BY <3>1, <3>2, <3>4, <4>2, <4>3 DEF Over
    <3> QED BY <3>3, <3>4
  <2> QED BY <1>1, <1>3, <2>1, <2>2
<1>6. Counted(q, r, e)
  BY <1>3, <1>5 DEF Counted
<1> QED BY <1>6 DEF q, r

(* A block that has the fence of the statement before it begins. *)
LEMMA CountedPushBare ==
    ASSUME NEW o, NEW p, NEW u, NEW c, Linked(o, p, u, c), Counted(o, p, c), NEW k \in Constructs,
           k.entry \notin u
    PROVE  Counted(Append(o, k), p, c)
<1> DEFINE q == Append(o, k)
           N == Len(o)
<1>1. o \in Seq(Constructs) /\ N \in Nat /\ DOMAIN o = 1 .. N
  BY LinkedFacts
<1>2. ~p[k.entry].fFenceValid
  BY DEF Linked, Constructs
<1>3. /\ DOMAIN q = 1 .. N + 1 /\ q[N + 1] = k /\ q # <<>>
      /\ \A n \in DOMAIN o : q[n] = o[n]
  BY <1>1
<1> HIDE DEF q
<1>4. ASSUME NEW n \in DOMAIN q, p[q[n].entry].fFenceValid PROVE Over(q, p, n)
  <2>1. n \in DOMAIN o
    BY <1>1, <1>2, <1>3, <1>4
  <2>2. q[n] = o[n] /\ p[o[n].entry].fFenceValid
    BY <1>3, <1>4, <2>1
  <2>3. Over(o, p, n)
    BY <2>1, <2>2 DEF Counted
  <2>4. \A m \in 1 .. n : Alike(p, p, o[m].entry)
    BY DEF Alike
  <2> QED BY <2>1, <2>2, <2>3, <2>4, OverSame
<1>5. Counted(q, p, c)
  BY <1>3, <1>4 DEF Counted
<1> QED BY <1>5 DEF q

(* The innermost construct ends. *)
LEMMA CountedPop ==
    ASSUME NEW o, NEW p, NEW u, NEW c, Linked(o, p, u, c), Counted(o, p, c), o # <<>>,
           NEW e, e = o[Len(o)].entry
    PROVE  Counted(SubSeq(o, 1, Len(o) - 1), Freed(p, e),
                   IF p[e].fFenceValid THEN p[e].pNext ELSE c)
<1> DEFINE q == SubSeq(o, 1, Len(o) - 1)
           r == Freed(p, e)
           d == IF p[e].fFenceValid THEN p[e].pNext ELSE c
<1>1. PICK N \in Nat : N = Len(o) /\ DOMAIN o = 1 .. N /\ N \in DOMAIN o
  BY LinkedFacts, InnermostFacts
<1>2. /\ o \in Seq(Constructs) /\ p \in [Entries -> Fence]
      /\ (\A n \in DOMAIN o : o[n].entry \in Entries) /\ e \in Entries
      /\ \A m, n \in DOMAIN o : o[m].entry = o[n].entry => m = n
  <2>1. o \in Seq(Constructs) /\ p \in [Entries -> Fence] /\ \A n \in DOMAIN o : o[n].entry \in Entries
    BY LinkedFacts
  <2>2. \A m, n \in DOMAIN o : o[m].entry = o[n].entry => m = n
    BY DEF Linked
  <2> QED BY <1>1, <2>1, <2>2
<1>3. /\ DOMAIN q = 1 .. N - 1 /\ (q = <<>> <=> N = 1)
      /\ \A n \in 1 .. N - 1 : n \in DOMAIN o /\ q[n] = o[n]
  <2>1. q \in Seq(Constructs) /\ Len(q) = N - 1
    BY <1>1, <1>2
  <2>2. DOMAIN q = 1 .. N - 1 /\ \A n \in 1 .. N - 1 : n \in DOMAIN o /\ q[n] = o[n]
    BY <1>1, <1>2
  <2> HIDE DEF q
  <2>3. q = <<>> <=> N = 1
    BY <2>1
  <2> QED BY <2>2, <2>3
<1>4. \A n \in 1 .. N - 1 : r[o[n].entry] = p[o[n].entry]
  <2>1. \A x \in Entries \ {e} : r[x] = p[x]
    BY <1>2, FreedFacts
  <2>2. \A n \in 1 .. N - 1 : n # N
    OBVIOUS
  <2>3. \A n \in 1 .. N - 1 : o[n].entry # e
    BY <1>1, <1>2, <1>3, <2>2
  <2> HIDE DEF r
  <2> QED BY <1>2, <1>3, <2>1, <2>3
<1> HIDE DEF q, r
<1>5. ASSUME NEW n \in DOMAIN q, r[q[n].entry].fFenceValid PROVE Over(q, r, n)
  <2>1. n \in DOMAIN o /\ q[n] = o[n] /\ p[o[n].entry].fFenceValid
    BY <1>3, <1>4, <1>5
  <2>2. Over(o, p, n)
    BY <2>1 DEF Counted
  <2>3. \A m \in 1 .. n : m \in 1 .. N - 1
    BY <1>3
  <2>4. \A m \in 1 .. n : Alike(r, p, o[m].entry)
    BY <1>4, <2>3 DEF Alike
  <2> QED BY <2>1, <2>2, <2>4, OverSame
<1>6. q = <<>> => d = NoFence
  <2>1. SUFFICES ASSUME N = 1 PROVE d = NoFence
    BY <1>3
  <2>2. o[1].kind = "Function"
    BY <1>1, <2>1 DEF Linked
  <2>3. p[e].fFenceValid
    BY <1>1, <2>1, <2>2 DEF Linked
  <2>4. Over(o, p, 1)
    BY <1>1, <2>1, <2>3 DEF Counted
  <2> QED BY <1>1, <2>1, <2>3, <2>4 DEF Over
<1> QED BY <1>5, <1>6 DEF Counted, q, r

(* What GetFence tells of locals and labels. *)
LEMMA GetFenceCounts ==
    ASSUME pool \in [Entries -> Fence], NEW e \in Entries,
           NEW type \in FenceTypes \cup {"Scope"}, NEW eat \in BOOLEAN,
           NEW fn \in {"value", "void", "none"}
    PROVE  LET fence == GetFence(e, type, eat, fn) IN
           /\ current \in Entries =>
                fence.nPrevLocals = pool[current].nLocals + pool[current].nPrevLocals
                                    + (IF type = "Switch" THEN 1 ELSE 0)
           /\ type = "Switch" => fence.extra = NewCases
<1>1. current \in Entries => current # NoFence
  BY FencesAssumption
<1>2. type = "Switch" => Extra(pool[e], type) = NewCases
  BY DEF Extra
<1> QED BY <1>1, <1>2 DEF GetFence

(* NscSetFenceReturn tells nothing of them. *)
LEMMA SetFenceReturnCounts ==
    ASSUME NEW p \in [Entries -> Fence], NEW f, NEW returns \in BOOLEAN, NEW x \in Entries
    PROVE  Alike(SetFenceReturn(p, f, returns), p, x)
<1> DEFINE a == Nearest(p, f, FenceTypes)
           flag == IF ~returns THEN "No" ELSE IF p[a].nFenceReturn = "Unknown" THEN "Yes"
                   ELSE p[a].nFenceReturn
           g == [p[a] EXCEPT !.nFenceReturn = flag]
<1>1. SetFenceReturn(p, f, returns) = [p EXCEPT ![a] = g]
  BY DEF SetFenceReturn
<1> HIDE DEF flag
<1>2. x = a => /\ g.fFenceValid = p[x].fFenceValid /\ g.pNext = p[x].pNext
               /\ g.extra = p[x].extra /\ g.nLocals = p[x].nLocals
               /\ g.nPrevLocals = p[x].nPrevLocals
  BY DEF Fence
<1> HIDE DEF a, g
<1> QED BY <1>1, <1>2 DEF Alike

FencesCounted == Counted(open, pool, current)

LEMMA BeginFunctionCounts ==
    ASSUME FencesInv, FencesCounted, NEW fn \in {"value", "void", "none"}, NEW e \in Entries,
           BeginFunction(fn, e)
    PROVE  FencesCounted'
<1> DEFINE k == Construct("Function", e, FALSE)
           f == GetFence(e, "Function", FALSE, fn)
           n == IF fn = "none" THEN 0 ELSE 1
           g == [f EXCEPT !.nLocals = n]
<1>1. /\ open = <<>> /\ e \notin used /\ open' = Append(open, k)
      /\ pool' = [pool EXCEPT ![e] = g] /\ current' = e
  BY DEF BeginFunction, Begin
<1>2. Linked(open, pool, used, current) /\ Counted(open, pool, current) /\ reached \in BOOLEAN
  BY DEF FencesInv, FencesCounted
<1>3. k \in Constructs /\ k.kind = "Function" /\ k.entry = e
  BY <1>2, ConstructFacts DEF Kinds
<1>4. pool \in [Entries -> Fence] /\ current \in Entries \cup {NoFence}
  BY <1>2 DEF Linked
<1>5. f \in Fence /\ f.fFenceValid /\ f.pNext = current
  <2>1. "Function" \in FenceTypes \cup {"Scope"}
    BY DEF FenceTypes
  <2>2. PICK eat \in BOOLEAN : eat = FALSE
    OBVIOUS
  <2>3. f = GetFence(e, "Function", eat, fn)
    BY <2>2
  <2> HIDE DEF f
  <2> QED BY <1>4, <2>1, <2>3, GetFenceFacts
<1>6. g \in Fence /\ g.fFenceValid /\ g.pNext = current
  <2>1. n \in Int
    OBVIOUS
  <2> HIDE DEF f, n
  <2> QED BY <1>5, <2>1 DEF Fence
<1> HIDE DEF k, g
<1>7. Counted(Append(open, k), [pool EXCEPT ![k.entry] = g], k.entry)
  BY <1>1, <1>2, <1>3, <1>6, CountedPush
<1> QED BY <1>1, <1>3, <1>7 DEF FencesCounted

(* A function or block ends. *)
LEMMA EndCounts ==
    ASSUME FencesInv, FencesCounted, open # <<>>, current' = Restored(Innermost.entry),
           pool' = Freed(pool, Innermost.entry), open' = Outer
    PROVE  FencesCounted'
<1>1. Linked(open, pool, used, current) /\ Counted(open, pool, current)
  BY DEF FencesInv, FencesCounted
<1>2. Counted(Outer, Freed(pool, Innermost.entry), Restored(Innermost.entry))
  BY <1>1, CountedPop DEF Outer, Restored, Innermost
<1> QED BY <1>2 DEF FencesCounted

LEMMA PrototypeCounts == ASSUME FencesInv, FencesCounted, Prototype PROVE FencesCounted'
<1>1. Linked(open, pool, used, current)
  BY DEF FencesInv
<1>2. open # <<>> /\ Innermost.kind = "Function" /\ open' = <<>>
  BY DEF Prototype
<1>3. Outer = <<>>
  BY <1>1, <1>2, InnermostFacts DEF Outer, Innermost
<1> QED BY <1>2, <1>3, EndCounts DEF Prototype

LEMMA EndFunctionCounts == ASSUME FencesInv, FencesCounted, EndFunction PROVE FencesCounted'
<1>1. Linked(open, pool, used, current)
  BY DEF FencesInv
<1>2. open # <<>> /\ Innermost.kind = "Function" /\ open' = <<>>
  BY DEF EndFunction, Ready
<1>3. Outer = <<>>
  BY <1>1, <1>2, InnermostFacts DEF Outer, Innermost
<1> QED BY <1>2, <1>3, EndCounts DEF EndFunction

LEMMA EndBlockCounts == ASSUME FencesInv, FencesCounted, EndBlock PROVE FencesCounted'
BY EndCounts DEF EndBlock, InBlock

LEMMA BeginBlockCounts ==
    ASSUME FencesInv, FencesCounted, NEW e \in Entries, BeginBlock(e)
    PROVE  FencesCounted'
<1> DEFINE k == Construct("Block", e, FALSE)
           f == GetFence(e, "Scope", FALSE, "none")
<1>1. open # <<>> /\ e \notin used /\ open' = Append(open, k)
  BY DEF BeginBlock, Begin, Expected
<1>2. Linked(open, pool, used, current) /\ Counted(open, pool, current) /\ reached \in BOOLEAN
  BY DEF FencesInv, FencesCounted
<1>3. k \in Constructs /\ k.kind = "Block" /\ k.entry = e
  BY <1>2, ConstructFacts DEF Kinds
<1>4. pool \in [Entries -> Fence] /\ current \in Entries /\ pool[current] \in Fence
  BY <1>1, <1>2, LinkedFacts, InnermostFacts
<1> HIDE DEF k
<1>5. CASE pool[current].fEatScope
  <2> DEFINE g == [pool[current] EXCEPT !.fEatScope = FALSE]
             q == Append(open, k)
  <2>1. pool' = [pool EXCEPT ![current] = g] /\ current' = current
    BY <1>5 DEF BeginBlock
  <2>2. /\ g.fFenceValid = pool[current].fFenceValid /\ g.pNext = pool[current].pNext
        /\ g.extra = pool[current].extra /\ g.nLocals = pool[current].nLocals
        /\ g.nPrevLocals = pool[current].nPrevLocals
    BY <1>4 DEF Fence
  <2> HIDE DEF g
  <2>3. \A x \in Entries : Alike(pool', pool, x)
    BY <1>4, <2>1, <2>2 DEF Alike
  <2>4. Linked(q, pool, used \cup {e}, current)
    BY <1>1, <1>2, <1>3, PushBareLinked
  <2>5. Counted(q, pool, current)
    BY <1>1, <1>2, <1>3, CountedPushBare
  <2>6. q \in Seq(Constructs)
    BY <2>4 DEF Linked
  <2> HIDE DEF q
  <2>7. Counted(q, pool', current)
    BY <2>3, <2>4, <2>5, <2>6, CountedSame
  <2> QED BY <1>1, <2>1, <2>7 DEF FencesCounted, q
<1>6. CASE ~pool[current].fEatScope
  <2>1. pool' = [pool EXCEPT ![e] = f] /\ current' = e
    BY <1>6 DEF BeginBlock
  <2>2. /\ f \in Fence /\ f.fFenceValid /\ f.pNext = current
        /\ f.nPrevLocals = pool[current].nLocals + pool[current].nPrevLocals
    <3>1. PICK eat \in BOOLEAN : eat = FALSE
      OBVIOUS
    <3>2. PICK type \in FenceTypes \cup {"Scope"} : type = "Scope"
      OBVIOUS
    <3>3. f = GetFence(e, type, eat, "none")
      BY <3>1, <3>2
    <3> HIDE DEF f
    <3>4. f \in Fence /\ f.fFenceValid /\ f.pNext = current
      BY <1>4, <3>3, GetFenceFacts
    <3>5. f.nPrevLocals = pool[current].nLocals + pool[current].nPrevLocals + 0
      BY <1>4, <3>2, <3>3, GetFenceCounts
    <3>6. pool[current].nLocals + pool[current].nPrevLocals \in Int
      BY <1>4 DEF Fence
    <3> QED BY <3>4, <3>5, <3>6
  <2> HIDE DEF f
  <2>3. pool[current].nLocals + pool[current].nPrevLocals \in Int
    BY <1>4 DEF Fence
  <2>4. f.nPrevLocals = pool[current].nLocals + pool[current].nPrevLocals
                        + (IF k.kind = "Switch" THEN 1 ELSE 0)
    BY <1>3, <2>2, <2>3
  <2>5. Counted(Append(open, k), [pool EXCEPT ![k.entry] = f], k.entry)
    BY <1>1, <1>2, <1>3, <2>2, <2>4, CountedPush
  <2> QED BY <1>1, <1>3, <2>1, <2>5 DEF FencesCounted
<1> QED BY <1>5, <1>6

LEMMA BeginControlCounts ==
    ASSUME FencesInv, FencesCounted, NEW kind \in Controls, NEW endless \in BOOLEAN,
           NEW e \in Entries, BeginControl(kind, endless, e)
    PROVE  FencesCounted'
<1> DEFINE k == Construct(kind, e, endless)
           f == GetFence(e, kind, TRUE, "none")
<1>1. /\ open # <<>> /\ kind # "Else" /\ e \notin used
      /\ open' = Append(open, k) /\ pool' = [pool EXCEPT ![e] = f] /\ current' = e
  BY DEF BeginControl, Begin, Expected
<1>2. Linked(open, pool, used, current) /\ Counted(open, pool, current) /\ reached \in BOOLEAN
  BY DEF FencesInv, FencesCounted
<1>3. k \in Constructs /\ k.kind = kind /\ k.entry = e /\ k.labels = {}
  <2>1. kind \in Kinds
    BY DEF Kinds
  <2>2. k \in Constructs /\ k.kind = kind /\ k.entry = e
    BY <1>2, <2>1, ConstructFacts
  <2>3. k.labels = {}
    BY DEF Construct
  <2> QED BY <2>2, <2>3
<1>4. pool \in [Entries -> Fence] /\ current \in Entries
  BY <1>1, <1>2, LinkedFacts, InnermostFacts
<1>5. /\ f \in Fence /\ f.fFenceValid /\ f.pNext = current
      /\ f.nPrevLocals = pool[current].nLocals + pool[current].nPrevLocals
                         + (IF kind = "Switch" THEN 1 ELSE 0)
      /\ kind = "Switch" => f.extra = NewCases
  <2>1. PICK eat \in BOOLEAN : eat = TRUE
    OBVIOUS
  <2>2. kind \in FenceTypes \cup {"Scope"}
    BY <1>1 DEF Controls, FenceTypes
  <2>3. PICK g : g = GetFence(e, kind, eat, "none")
    OBVIOUS
  <2>4. /\ g \in Fence /\ g.fFenceValid /\ g.pNext = current
        /\ g.nPrevLocals = pool[current].nLocals + pool[current].nPrevLocals
                           + (IF kind = "Switch" THEN 1 ELSE 0)
        /\ kind = "Switch" => g.extra = NewCases
    <3>1. g \in Fence /\ g.fFenceValid /\ g.pNext = current
      BY <1>4, <2>2, <2>3, GetFenceFacts
    <3>2. /\ g.nPrevLocals = pool[current].nLocals + pool[current].nPrevLocals
                             + (IF kind = "Switch" THEN 1 ELSE 0)
          /\ kind = "Switch" => g.extra = NewCases
      BY <1>4, <2>2, <2>3, GetFenceCounts
    <3> QED BY <3>1, <3>2
  <2>5. f = g
    BY <2>1, <2>3
  <2> HIDE DEF f
  <2> QED BY <2>4, <2>5
<1> HIDE DEF k, f
<1>6. Counted(Append(open, k), [pool EXCEPT ![k.entry] = f], k.entry)
  BY <1>1, <1>2, <1>3, <1>5, CountedPush
<1> QED BY <1>1, <1>3, <1>6 DEF FencesCounted

(* NscSetFenceReturn, wherever it ends up. *)
LEMMA ReturnCounts ==
    ASSUME NEW o, NEW p, NEW u, NEW c, Linked(o, p, u, c), Counted(o, p, c), NEW f,
           NEW returns \in BOOLEAN
    PROVE  Counted(o, SetFenceReturn(p, f, returns), c)
<1> DEFINE r == SetFenceReturn(p, f, returns)
<1>1. o \in Seq(Constructs) /\ p \in [Entries -> Fence]
  BY LinkedFacts
<1>2. \A x \in Entries : Alike(r, p, x)
  BY <1>1, SetFenceReturnCounts
<1> HIDE DEF r
<1>3. Counted(o, r, c)
  BY <1>1, <1>2, CountedSame
<1> QED BY <1>3 DEF r

LEMMA ElseCounts ==
    ASSUME FencesInv, FencesCounted, NEW e \in Entries, Else(e)
    PROVE  FencesCounted'
<1> DEFINE i == Innermost.entry
           outer == Restored(i)
           fence == [GetFence(e, "If", TRUE, "none") EXCEPT
                       !.nPrevLocals = pool[outer].nLocals + pool[outer].nPrevLocals,
                       !.pNext = outer]
           freed == Freed(pool, i)
           fences == [freed EXCEPT ![e] = fence]
           k == [Innermost EXCEPT !.kind = "Else", !.entry = e, !.first = reached]
           q == Append(Outer, k)
<1>1. /\ open # <<>> /\ Innermost.kind = "If" /\ e \notin used
      /\ pool' = IF FHadReturn THEN fences ELSE SetFenceReturn(fences, e, FALSE)
      /\ current' = e /\ open' = q
  BY DEF Else, Ready
<1>2. Linked(open, pool, used, current) /\ Counted(open, pool, current) /\ reached \in BOOLEAN
  BY DEF FencesInv, FencesCounted
<1>3. /\ Innermost \in Constructs /\ i \in Entries /\ pool \in [Entries -> Fence]
      /\ current \in Entries /\ Outer # <<>>
  BY <1>1, <1>2, LinkedFacts, InnermostFacts DEF Innermost, Outer
<1>4. k \in Constructs /\ k.kind = "Else" /\ k.entry = e
  BY <1>2, <1>3 DEF Constructs, Kinds, Controls
<1>5. Linked(Outer, freed, used \ {i}, outer) /\ Counted(Outer, freed, outer)
  <2>1. Linked(Outer, freed, used \ {i}, outer)
    BY <1>1, <1>2, PopLinked DEF Outer, Restored, Innermost
  <2>2. Counted(Outer, freed, outer)
    BY <1>1, <1>2, CountedPop DEF Outer, Restored, Innermost
  <2> QED BY <2>1, <2>2
<1>6. outer \in Entries /\ freed[outer] = pool[outer] /\ pool[outer] \in Fence
  <2> HIDE DEF outer, i
  <2>1. outer \in Entries /\ freed[outer].fFenceValid
    BY <1>3, <1>5, InnermostFacts
  <2>2. outer # i /\ freed[outer] = pool[outer]
    BY <1>3, <2>1, FreedFacts
  <2> QED BY <1>3, <2>1, <2>2
<1>7. /\ fence \in Fence /\ fence.fFenceValid /\ fence.nFenceType = "If" /\ fence.pNext = outer
      /\ fence.nPrevLocals = freed[outer].nLocals + freed[outer].nPrevLocals
                             + (IF k.kind = "Switch" THEN 1 ELSE 0)
  <2>1. PICK eat \in BOOLEAN : eat = TRUE
    OBVIOUS
  <2>2. PICK f : f = GetFence(e, "If", eat, "none")
    OBVIOUS
  <2>3. PICK n \in Int : n = pool[outer].nLocals + pool[outer].nPrevLocals
    BY <1>6 DEF Fence
  <2>4. "If" \in FenceTypes \cup {"Scope"} /\ current \in Entries \cup {NoFence}
    BY <1>3 DEF FenceTypes
  <2>5. f \in Fence /\ f.fFenceValid /\ f.nFenceType = "If"
    BY <1>3, <2>2, <2>4, GetFenceFacts
  <2>6. fence = [f EXCEPT !.nPrevLocals = n, !.pNext = outer]
    BY <2>1, <2>2, <2>3
  <2> HIDE DEF fence, outer
  <2>7. /\ fence \in Fence /\ fence.fFenceValid /\ fence.nFenceType = "If" /\ fence.pNext = outer
        /\ fence.nPrevLocals = n
    BY <1>6, <2>5, <2>6 DEF Fence
  <2>8. freed[outer].nLocals + freed[outer].nPrevLocals + (IF k.kind = "Switch" THEN 1 ELSE 0) = n
    BY <1>4, <1>6, <2>3
  <2> QED BY <2>7, <2>8
<1>8. e \notin used \ {i} /\ k.kind # "Switch" /\ k.kind # "Function"
  BY <1>1, <1>4
<1> HIDE DEF i, outer, fence, freed, k
<1>9. Counted(q, fences, e) /\ Linked(q, fences, (used \ {i}) \cup {e}, e)
  <2>1. Counted(Append(Outer, k), [freed EXCEPT ![k.entry] = fence], k.entry)
    BY <1>4, <1>5, <1>7, <1>8, CountedPush
  <2>2. fence.nFenceType = TypeOf(k.kind)
    BY <1>4, <1>7 DEF TypeOf
  <2>3. Linked(Append(Outer, k), [freed EXCEPT ![k.entry] = fence], (used \ {i}) \cup {k.entry}, k.entry)
    BY <1>3, <1>4, <1>5, <1>7, <1>8, <2>2, PushLinked
  <2> QED BY <1>4, <2>1, <2>3
<1> HIDE DEF q, fences
<1>10. Counted(q, SetFenceReturn(fences, e, FALSE), e)
  <2>1. PICK returns \in BOOLEAN : returns = FALSE
    OBVIOUS
  <2>2. Counted(q, SetFenceReturn(fences, e, returns), e)
    BY <1>9, ReturnCounts
  <2> QED BY <2>1, <2>2
<1> QED BY <1>1, <1>9, <1>10 DEF FencesCounted

LEMMA EndControlCounts == ASSUME FencesInv, FencesCounted, EndControl PROVE FencesCounted'
<1> DEFINE i == Innermost.entry
           outer == Restored(i)
           freed == Freed(pool, i)
           had == BothReturn(Innermost, FHadReturn)
<1>1. /\ open # <<>>
      /\ pool' = (IF had THEN SetFenceReturn(freed, outer, TRUE) ELSE freed)
      /\ current' = outer /\ open' = Outer
  BY DEF EndControl, Ready
<1>2. Linked(open, pool, used, current) /\ Counted(open, pool, current)
  BY DEF FencesInv, FencesCounted
<1>3. Linked(Outer, freed, used \ {i}, outer)
  BY <1>1, <1>2, PopLinked DEF Outer, Restored, Innermost
<1>4. Counted(Outer, freed, outer)
  BY <1>1, <1>2, CountedPop DEF Outer, Restored, Innermost
<1> HIDE DEF i, outer, freed
<1>5. Counted(Outer, SetFenceReturn(freed, outer, TRUE), outer)
  <2>1. PICK returns \in BOOLEAN : returns = TRUE
    OBVIOUS
  <2>2. Counted(Outer, SetFenceReturn(freed, outer, returns), outer)
    BY <1>3, <1>4, ReturnCounts
  <2> QED BY <2>1, <2>2
<1> QED BY <1>1, <1>4, <1>5 DEF FencesCounted

(* A local is only in the innermost fence, that none is over. *)
LEMMA DeclareCounts == ASSUME FencesInv, FencesCounted, Declare PROVE FencesCounted'
<1> DEFINE g == [pool[current] EXCEPT !.nLocals = @ + 1]
<1>1. /\ open # <<>> /\ pool' = [pool EXCEPT ![current] = g] /\ current' = current /\ open' = open
  BY DEF Declare, Expected
<1>2. Linked(open, pool, used, current) /\ Counted(open, pool, current)
  BY DEF FencesInv, FencesCounted
<1>3. /\ pool \in [Entries -> Fence] /\ current \in Entries /\ pool[current] \in Fence
      /\ \A n \in DOMAIN open : open[n].entry \in Entries
      /\ DOMAIN open = 1 .. Len(open) /\ Len(open) \in Nat
  BY <1>1, <1>2, LinkedFacts, InnermostFacts
<1>4. /\ g.fFenceValid = pool[current].fFenceValid /\ g.pNext = pool[current].pNext
      /\ g.extra = pool[current].extra /\ g.nPrevLocals = pool[current].nPrevLocals
  BY <1>3 DEF Fence
<1> HIDE DEF g
<1>5. \A x \in Entries : /\ pool'[x].fFenceValid = pool[x].fFenceValid
                         /\ pool'[x].pNext = pool[x].pNext /\ pool'[x].extra = pool[x].extra
                         /\ pool'[x].nPrevLocals = pool[x].nPrevLocals
                         /\ x # current => pool'[x] = pool[x]
  BY <1>1, <1>3, <1>4
<1>6. ASSUME NEW n \in DOMAIN open, pool'[open[n].entry].fFenceValid PROVE Over(open, pool', n)
  <2>1. pool[open[n].entry].fFenceValid
    BY <1>3, <1>5, <1>6
  <2>2. Over(open, pool, n)
    BY <1>2, <1>6, <2>1 DEF Counted
  <2> DEFINE f == pool[open[n].entry]
  <2>3. CASE n > 1
    <3>1. f.pNext # current /\ f.pNext \in Entries
      BY <1>2, <1>3, <1>6, <2>1, <2>3, NextHeld
    <3>2. pool'[f.pNext] = pool[f.pNext]
      BY <1>5, <3>1
    <3> QED BY <1>3, <1>5, <1>6, <2>2, <2>3, <3>2 DEF Over
  <2>4. CASE n = 1
    BY <1>3, <1>5, <1>6, <2>2, <2>4 DEF Over
  <2> QED BY <1>3, <1>6, <2>3, <2>4
<1> QED BY <1>1, <1>6 DEF FencesCounted, Counted

LEMMA ReturnStepCounts ==
    ASSUME FencesInv, FencesCounted, NEW value \in BOOLEAN, Return(value) PROVE FencesCounted'
<1>1. pool' = SetFenceReturn(pool, current, TRUE) /\ current' = current /\ open' = open
  BY DEF Return
<1>2. PICK returns \in BOOLEAN : returns = TRUE
  OBVIOUS
<1>3. Counted(open, SetFenceReturn(pool, current, returns), current)
  BY ReturnCounts DEF FencesInv, FencesCounted
<1> QED BY <1>1, <1>2, <1>3 DEF FencesCounted

(* A construct is left. *)
LEMMA NoteCounts ==
    ASSUME NEW o, NEW p, NEW u, NEW c, Linked(o, p, u, c), Counted(o, p, c), NEW n, NEW g,
           n \in DOMAIN o => /\ g \in Constructs /\ g.kind = o[n].kind /\ g.entry = o[n].entry
                             /\ g.labels = o[n].labels,
           NEW r, \A x \in Entries : Alike(r, p, x)
    PROVE  Counted([o EXCEPT ![n] = g], r, c)
<1> DEFINE q == [o EXCEPT ![n] = g]
<1>1. o \in Seq(Constructs)
  BY LinkedFacts
<1>2. q \in Seq(Constructs) /\ Len(q) = Len(o)
  <2>1. CASE n \in DOMAIN o
    BY <1>1, <2>1
  <2>2. CASE n \notin DOMAIN o
    <3>1. q = o
      BY <1>1, <2>2
    <3> QED BY <1>1, <3>1
  <2> QED BY <2>1, <2>2
<1>3. \A m \in DOMAIN o : q[m] = IF m = n THEN g ELSE o[m]
  OBVIOUS
<1> HIDE DEF q
<1>4. \A m \in DOMAIN o : q[m].kind = o[m].kind /\ q[m].entry = o[m].entry
                          /\ q[m].labels = o[m].labels
  BY <1>3
<1>5. Counted(q, r, c)
  BY <1>2, <1>4, CountedSame
<1> QED BY <1>5 DEF q

LEMMA BreakCounts == ASSUME FencesInv, FencesCounted, Break PROVE FencesCounted'
<1> DEFINE n == Around(Loops \cup {"Switch"})
           b == open[n].broken \/ reached
           g == [open[n] EXCEPT !.broken = b]
<1>1. pool' = pool /\ current' = current /\ (open' = open \/ open' = [open EXCEPT ![n] = g])
  BY DEF Break
<1>2. Linked(open, pool, used, current) /\ Counted(open, pool, current) /\ reached \in BOOLEAN
  BY DEF FencesInv, FencesCounted
<1>3. n \in DOMAIN open => /\ g \in Constructs /\ g.kind = open[n].kind /\ g.entry = open[n].entry
                           /\ g.labels = open[n].labels
  <2>1. n \in DOMAIN open => open[n] \in Constructs
    BY <1>2, LinkedFacts
  <2> HIDE DEF n
  <2> QED BY <1>2, <2>1 DEF Constructs
<1> HIDE DEF n, g
<1>4. \A x \in Entries : Alike(pool, pool, x)
  BY DEF Alike
<1>5. Counted([open EXCEPT ![n] = g], pool, current)
  BY <1>2, <1>3, <1>4, NoteCounts
<1> QED BY <1>1, <1>2, <1>5 DEF FencesCounted

LEMMA ContinueCounts == ASSUME FencesInv, FencesCounted, Continue PROVE FencesCounted'
<1> DEFINE n == Around(Loops)
           b == open[n].continued \/ reached
           g == [open[n] EXCEPT !.continued = b]
<1>1. pool' = pool /\ current' = current /\ (open' = open \/ open' = [open EXCEPT ![n] = g])
  BY DEF Continue
<1>2. Linked(open, pool, used, current) /\ Counted(open, pool, current) /\ reached \in BOOLEAN
  BY DEF FencesInv, FencesCounted
<1>3. n \in DOMAIN open => /\ g \in Constructs /\ g.kind = open[n].kind /\ g.entry = open[n].entry
                           /\ g.labels = open[n].labels
  <2>1. n \in DOMAIN open => open[n] \in Constructs
    BY <1>2, LinkedFacts
  <2> HIDE DEF n
  <2> QED BY <1>2, <2>1 DEF Constructs
<1> HIDE DEF n, g
<1>4. \A x \in Entries : Alike(pool, pool, x)
  BY DEF Alike
<1>5. Counted([open EXCEPT ![n] = g], pool, current)
  BY <1>2, <1>3, <1>4, NoteCounts
<1> QED BY <1>1, <1>2, <1>5 DEF FencesCounted

(* A label comes into the construct and into its fence. *)
LEMMA CaseCounts == ASSUME FencesInv, FencesCounted, NEW v \in Values, Case(v) PROVE FencesCounted'
<1> DEFINE e == SwitchFence
           n == InSwitch
           x == [pool[e].extra EXCEPT !.cases = @ \cup {v}]
           f == [pool[e] EXCEPT !.extra = x]
           g == [open[n] EXCEPT !.labels = @ \cup {v}]
<1>1. open # <<>> /\ current' = current
  BY DEF Case, Expected
<1>2. Linked(open, pool, used, current) /\ Counted(open, pool, current)
  BY DEF FencesInv, FencesCounted
<1>3. CASE SwitchFence = NoFence
  <2>1. pool' = pool /\ open' = open
    BY <1>3 DEF Case
  <2> QED BY <1>1, <1>2, <2>1 DEF FencesCounted
<1>4. CASE SwitchFence # NoFence
  <2>1. pool' = [pool EXCEPT ![e] = f] /\ open' = [open EXCEPT ![n] = g]
    BY <1>4 DEF Case
  <2>2. e \in Entries /\ n \in DOMAIN open /\ open[n].entry = e /\ open[n].kind = "Switch"
    BY <1>1, <1>4, SwitchFacts
  <2>3. /\ open \in Seq(Constructs) /\ pool \in [Entries -> Fence] /\ pool[e] \in Fence
        /\ open[n] \in Constructs /\ DOMAIN open = 1 .. Len(open)
        /\ \A m \in DOMAIN open : open[m].entry \in Entries
    BY <1>2, <2>2, LinkedFacts
  <2>4. \A m \in DOMAIN open : open[m].entry = open[n].entry => m = n
    BY <1>2, <2>2 DEF Linked
  <2> HIDE DEF n, e
  <2>5. /\ f.fFenceValid = pool[e].fFenceValid /\ f.pNext = pool[e].pNext
        /\ f.nLocals = pool[e].nLocals /\ f.nPrevLocals = pool[e].nPrevLocals /\ f.extra = x
    BY <2>3 DEF Fence
  <2>6. /\ g.kind = open[n].kind /\ g.entry = open[n].entry /\ g.labels = open[n].labels \cup {v}
    BY <2>3 DEF Constructs
  <2>7. pool[e].extra = [as |-> "switch", cases |-> open[n].labels]
          => x = [as |-> "switch", cases |-> open[n].labels \cup {v}]
    OBVIOUS
  <2> HIDE DEF f, g, x
  <2>8. \A y \in Entries : /\ pool'[y].fFenceValid = pool[y].fFenceValid
                           /\ pool'[y].pNext = pool[y].pNext
                           /\ pool'[y].nLocals = pool[y].nLocals
                           /\ pool'[y].nPrevLocals = pool[y].nPrevLocals
                           /\ pool'[y].extra = IF y = e THEN x ELSE pool[y].extra
    BY <2>1, <2>2, <2>3, <2>5
  <2>9. /\ DOMAIN open' = DOMAIN open /\ open' # <<>>
        /\ \A m \in DOMAIN open : /\ open'[m].kind = open[m].kind
                                  /\ open'[m].entry = open[m].entry
                                  /\ open'[m].labels = IF m = n THEN open[n].labels \cup {v}
                                                       ELSE open[m].labels
    <3>1. DOMAIN open' = DOMAIN open /\ n \in DOMAIN open'
      BY <2>1, <2>2
    <3>2. open' # <<>>
      BY <3>1
    <3>3. \A m \in DOMAIN open : open'[m] = IF m = n THEN g ELSE open[m]
      BY <2>1
    <3> QED BY <2>6, <3>1, <3>2, <3>3
  <2>10. ASSUME NEW m \in DOMAIN open, pool'[open[m].entry].fFenceValid
         PROVE  Over(open', pool', m)
    <3> DEFINE h == pool[open[m].entry]
    <3>1. h.fFenceValid /\ Over(open, pool, m)
      BY <1>2, <2>3, <2>8, <2>10 DEF Counted
    <3>2. m > 1 => h.pNext \in Entries
      BY <1>2, <2>3, <3>1, NextHeld
    <3>3. open[m].kind = "Switch"
            => pool'[open'[m].entry].extra = [as |-> "switch", cases |-> open'[m].labels]
      <4>1. open[m].kind = "Switch" => h.extra = [as |-> "switch", cases |-> open[m].labels]
        BY <3>1 DEF Over
      <4>2. CASE m = n
        BY <2>2, <2>7, <2>8, <2>9, <4>1, <4>2
      <4>3. CASE m # n
        <5>1. open[m].entry # e
          BY <2>2, <2>4, <4>3
        <5> QED BY <2>3, <2>8, <2>9, <4>1, <4>3, <5>1
      <4> QED BY <4>2, <4>3
    <3>4. /\ m = 1 => pool'[open'[m].entry].pNext = NoFence
          /\ m > 1 => pool'[open'[m].entry].nPrevLocals
                        = pool'[h.pNext].nLocals + pool'[h.pNext].nPrevLocals
                          + (IF open'[m].kind = "Switch" THEN 1 ELSE 0)
          /\ pool'[open'[m].entry].pNext = h.pNext
      <4>1. /\ m = 1 => h.pNext = NoFence
            /\ m > 1 => h.nPrevLocals = pool[h.pNext].nLocals + pool[h.pNext].nPrevLocals
                                        + (IF open[m].kind = "Switch" THEN 1 ELSE 0)
        BY <3>1 DEF Over
      <4> QED BY <2>3, <2>8, <2>9, <3>2, <4>1
    <3> HIDE DEF h
    <3> QED BY <2>9, <3>3, <3>4 DEF Over
  <2>11. \A m \in DOMAIN open' : pool'[open'[m].entry].fFenceValid => Over(open', pool', m)
    BY <2>9, <2>10
  <2> QED BY <1>1, <2>9, <2>11 DEF FencesCounted, Counted
<1> QED BY <1>3, <1>4

LEMMA DefaultCounts == ASSUME FencesInv, FencesCounted, Default PROVE FencesCounted'
<1> DEFINE e == SwitchFence
           n == InSwitch
           f == [pool[e] EXCEPT !.fHasDefault = TRUE]
           g == [open[n] EXCEPT !.default = TRUE]
<1>1. /\ open # <<>> /\ current' = current
      /\ \/ pool' = pool /\ open' = open
         \/ SwitchFence # NoFence /\ pool' = [pool EXCEPT ![e] = f] /\ open' = [open EXCEPT ![n] = g]
  BY DEF Default, Expected
<1>2. Linked(open, pool, used, current) /\ Counted(open, pool, current)
  BY DEF FencesInv, FencesCounted
<1>3. CASE SwitchFence # NoFence /\ pool' = [pool EXCEPT ![e] = f] /\ open' = [open EXCEPT ![n] = g]
  <2>1. e \in Entries /\ n \in DOMAIN open
    BY <1>1, <1>3, SwitchFacts
  <2>2. open[n] \in Constructs /\ pool \in [Entries -> Fence] /\ pool[e] \in Fence
    BY <1>2, <2>1, LinkedFacts
  <2> HIDE DEF n, e
  <2>3. /\ g \in Constructs /\ g.kind = open[n].kind /\ g.entry = open[n].entry
        /\ g.labels = open[n].labels
    BY <2>2 DEF Constructs
  <2>4. /\ f.fFenceValid = pool[e].fFenceValid /\ f.pNext = pool[e].pNext
        /\ f.nLocals = pool[e].nLocals /\ f.nPrevLocals = pool[e].nPrevLocals
        /\ f.extra = pool[e].extra
    BY <2>2 DEF Fence
  <2> HIDE DEF f, g
  <2> DEFINE r == [pool EXCEPT ![e] = f]
  <2>5. \A x \in Entries : Alike(r, pool, x)
    BY <2>1, <2>2, <2>4 DEF Alike
  <2> HIDE DEF r
  <2>6. Counted([open EXCEPT ![n] = g], r, current)
    BY <1>2, <2>1, <2>3, <2>5, NoteCounts
  <2> QED BY <1>1, <1>3, <2>6 DEF FencesCounted, r
<1> QED BY <1>1, <1>2, <1>3 DEF FencesCounted

LEMMA NextCounts ==
    ASSUME FencesInv, FencesCounted, [FencesNext]_fenceVars PROVE FencesCounted'
<1>1. ASSUME NEW fn \in {"value", "void", "none"}, NEW e \in Entries, BeginFunction(fn, e)
      PROVE  FencesCounted'
  BY <1>1, BeginFunctionCounts
<1>2. ASSUME NEW e \in Entries, BeginBlock(e) PROVE FencesCounted'
  BY <1>2, BeginBlockCounts
<1>3. ASSUME NEW kind \in Controls, NEW endless \in BOOLEAN, NEW e \in Entries,
             BeginControl(kind, endless, e)
      PROVE  FencesCounted'
  BY <1>3, BeginControlCounts
<1>4. ASSUME NEW e \in Entries, Else(e) PROVE FencesCounted'
  BY <1>4, ElseCounts
<1>5. ASSUME NEW error \in BOOLEAN, Statement(error) PROVE FencesCounted'
  BY <1>5 DEF Statement, FencesCounted
<1>6. ASSUME NEW value \in BOOLEAN, Return(value) PROVE FencesCounted'
  BY <1>6, ReturnStepCounts
<1>7. ASSUME NEW v \in Values, Case(v) PROVE FencesCounted'
  BY <1>7, CaseCounts
<1>8. CASE UNCHANGED fenceVars
  BY <1>8 DEF FencesCounted, fenceVars
<1> QED BY <1>1, <1>2, <1>3, <1>4, <1>5, <1>6, <1>7, <1>8, PrototypeCounts, EndFunctionCounts,
           EndBlockCounts, EndControlCounts, DeclareCounts, BreakCounts, ContinueCounts,
           DefaultCounts
        DEF FencesNext

(* The nearest fence around is the one that is linked. *)
LEMMA HolderAround ==
    ASSUME FencesInv, NEW n \in Nat, n <= Len(open), NEW e, Holder(open, pool, n, e)
    PROVE  FenceAround(n + 1) = e
<1> DEFINE S == {m \in Fenced : m < n + 1}
<1>1. DOMAIN open = 1 .. Len(open) /\ Len(open) \in Nat
  BY LinkedFacts DEF FencesInv
<1>2. PICK k \in 1 .. n : /\ pool[open[k].entry].fFenceValid /\ e = open[k].entry
                          /\ \A j \in k + 1 .. n : ~pool[open[j].entry].fFenceValid
  BY DEF Holder
<1>3. k \in S
  BY <1>1, <1>2 DEF Fenced
<1>4. ASSUME NEW m \in S PROVE m \in Nat /\ m <= k
  <2>1. m \in 1 .. n /\ pool[open[m].entry].fFenceValid
    BY <1>1 DEF Fenced
  <2>2. m \notin k + 1 .. n
    BY <1>2, <2>1
  <2> QED BY <2>1, <2>2
<1>5. FenceAround(n + 1) = IF S = {} THEN NoFence
                           ELSE open[CHOOSE m \in S : \A j \in S : j <= m].entry
  BY DEF FenceAround
<1> HIDE DEF S
<1>6. \A x \in S : (\A j \in S : j <= x) => x = k
  BY <1>2, <1>3, <1>4
<1>7. (CHOOSE m \in S : \A j \in S : j <= m) = k
  BY <1>3, <1>4, <1>6
<1> QED BY <1>2, <1>3, <1>5, <1>7

LEMMA Follow == ASSUME FencesInv, FencesCounted PROVE FencesFollow
<1>1. Linked(open, pool, used, current) /\ Counted(open, pool, current)
  BY DEF FencesInv, FencesCounted
<1>2. DOMAIN open = 1 .. Len(open) /\ Len(open) \in Nat /\ (open = <<>> <=> Len(open) = 0)
  <2>1. open \in Seq(Constructs) /\ DOMAIN open = 1 .. Len(open) /\ Len(open) \in Nat
    BY <1>1, LinkedFacts
  <2> QED BY <2>1
<1>3. FenceAround(1) = NoFence
  BY <1>2 DEF FenceAround, Fenced
<1>4. current = FenceAround(Len(open) + 1)
  <2>1. CASE open = <<>>
    BY <1>1, <1>2, <1>3, <2>1 DEF Counted
  <2>2. CASE open # <<>>
    <3>1. Holder(open, pool, Len(open), current)
      BY <1>1, <2>2 DEF Linked
    <3> QED BY <1>2, <3>1, HolderAround
  <2> QED BY <2>1, <2>2
<1>5. ASSUME NEW n \in Fenced
      PROVE  LET fence == pool[open[n].entry] IN
             /\ fence.pNext = FenceAround(n)
             /\ fence.pNext # NoFence =>
                  fence.nPrevLocals = pool[fence.pNext].nLocals + pool[fence.pNext].nPrevLocals
                                      + (IF open[n].kind = "Switch" THEN 1 ELSE 0)
             /\ open[n].kind = "Switch" =>
                  fence.extra = [as |-> "switch", cases |-> open[n].labels]
  <2> DEFINE fence == pool[open[n].entry]
  <2>1. n \in DOMAIN open /\ fence.fFenceValid
    BY DEF Fenced
  <2>2. /\ n = 1 => fence.pNext = NoFence
        /\ n > 1 => fence.nPrevLocals = pool[fence.pNext].nLocals + pool[fence.pNext].nPrevLocals
                                        + (IF open[n].kind = "Switch" THEN 1 ELSE 0)
        /\ open[n].kind = "Switch" => fence.extra = [as |-> "switch", cases |-> open[n].labels]
    BY <1>1, <2>1 DEF Counted, Over
  <2>3. n > 1 => Holder(open, pool, n - 1, fence.pNext)
    BY <1>1, <2>1 DEF Linked
  <2> HIDE DEF fence
  <2>4. fence.pNext = FenceAround(n)
    <3>1. CASE n = 1
      BY <1>3, <2>2, <3>1
    <3>2. CASE n > 1
      <4>1. PICK m \in Nat : m = n - 1 /\ m <= Len(open)
        BY <1>2, <2>1, <3>2
      <4>2. FenceAround(m + 1) = fence.pNext
        BY <2>3, <3>2, <4>1, HolderAround
      <4>3. m + 1 = n
        BY <1>2, <2>1, <4>1
      <4> QED BY <4>2, <4>3
    <3> QED BY <1>2, <2>1, <3>1, <3>2
  <2>5. n = 1 \/ n > 1
    BY <1>2, <2>1
  <2> QED BY <2>2, <2>4, <2>5 DEF fence
<1> QED BY <1>4, <1>5 DEF FencesFollow

(* The chain of fences is that of the constructs around, each over the     *)
(* locals of the next, and a switch knows its labels (GetFence, Free,      *)
(* RestoreFence, NscBuild5Block, NscBuildCase). *)
THEOREM FencesAreFollowed == FencesSpec => []FencesFollow
<1>1. FencesInit => FencesCounted
  <2> SUFFICES ASSUME FencesInit PROVE FencesCounted
    OBVIOUS
  <2>1. open = <<>> /\ current = NoFence
    BY DEF FencesInit
  <2>2. DOMAIN open = {}
    BY <2>1
  <2> QED BY <2>1, <2>2 DEF FencesCounted, Counted
<1>2. FencesInv /\ FencesCounted /\ [FencesNext]_fenceVars => FencesCounted'
  BY NextCounts
<1>3. FencesInv /\ FencesCounted => FencesFollow
  BY Follow
<1> QED BY <1>1, <1>2, <1>3, FencesInvariant, PTL DEF FencesSpec

-----------------------------------------------------------------------------
-----------------------------------------------------------------------------
(* What codes mean: a tree, of whatever its nodes are, and whether they    *)
(* stop the checker for side effects. *)
Meaning(m) == /\ m = [tree |-> m.tree, stops |-> m.stops] /\ m.stops \in BOOLEAN
              /\ \E S : m.tree \in Seq(S)

LEMMA ConcatFacts ==
    ASSUME NEW S, NEW s \in Seq(S), NEW t \in Seq(S)
    PROVE  /\ Len(s) \in Nat /\ Len(t) \in Nat /\ s \o t \in Seq(S) /\ Len(s \o t) = Len(s) + Len(t)
           /\ \A k \in 1 .. Len(s) : (s \o t)[k] = s[k]
           /\ \A k \in 1 .. Len(t) : (s \o t)[Len(s) + k] = t[k]
<1>1. /\ Len(s) \in Nat /\ Len(t) \in Nat /\ s \o t \in Seq(S) /\ Len(s \o t) = Len(s) + Len(t)
  OBVIOUS
<1>2. ASSUME NEW k \in 1 .. Len(s) PROVE (s \o t)[k] = s[k]
  BY <1>1
<1>3. ASSUME NEW k \in 1 .. Len(t) PROVE (s \o t)[Len(s) + k] = t[k]
  BY <1>1
<1> QED BY <1>1, <1>2, <1>3

(* A sequence that is one behind another. *)
Follows(t, r, s) ==
    /\ Len(r) \in Nat /\ Len(s) \in Nat /\ Len(t) = Len(r) + Len(s)
    /\ \A k \in 1 .. Len(r) : t[k] = r[k]
    /\ \A k \in 1 .. Len(s) : t[Len(r) + k] = s[k]

LEMMA JoinedFacts ==
    ASSUME NEW m, NEW n, Meaning(m), Meaning(n)
    PROVE  /\ Meaning(Joined(m, n))
           /\ Follows(Joined(m, n).tree, m.tree, n.tree)
<1>1. PICK S : m.tree \in Seq(S)
  BY DEF Meaning
<1>2. PICK R : n.tree \in Seq(R)
  BY DEF Meaning
<1>3. m.tree \in Seq(S \cup R) /\ n.tree \in Seq(S \cup R)
  BY <1>1, <1>2, SeqMonotonic
<1>4. m.tree \o n.tree \in Seq(S \cup R)
  BY <1>3
<1>5. Joined(m, n).tree = m.tree \o n.tree
  BY DEF Joined
<1>6. Joined(m, n).stops \in BOOLEAN
  BY DEF Joined
<1>7. Joined(m, n) = [tree |-> Joined(m, n).tree, stops |-> Joined(m, n).stops]
  BY DEF Joined
<1>8. Meaning(Joined(m, n))
  BY <1>4, <1>5, <1>6, <1>7 DEF Meaning
<1>9. Follows(m.tree \o n.tree, m.tree, n.tree)
  <2> DEFINE U == S \cup R
  <2>1. m.tree \in Seq(U) /\ n.tree \in Seq(U)
    BY <1>3
  <2> HIDE DEF U
  <2>2. \A s, t \in Seq(U) : Follows(s \o t, s, t)
    BY ConcatFacts DEF Follows
  <2> QED BY <2>1, <2>2, Zenon
<1> QED BY <1>5, <1>8, <1>9

LEMMA JoinedNothing ==
    /\ Meaning(Nothing)
    /\ \A m : Meaning(m) => Joined(m, Nothing) = m /\ Joined(Nothing, m) = m
<1>1. Meaning(Nothing)
  BY DEF Meaning, Nothing
<1>2. ASSUME NEW m, Meaning(m) PROVE Joined(m, Nothing) = m /\ Joined(Nothing, m) = m
  <2>1. PICK S : m.tree \in Seq(S)
    BY <1>2 DEF Meaning
  <2>2. m.tree \o <<>> = m.tree /\ <<>> \o m.tree = m.tree
    BY <2>1, ConcatEmptySeq
  <2>3. (m.stops \/ FALSE) = m.stops /\ (FALSE \/ m.stops) = m.stops
    BY <1>2 DEF Meaning
  <2>4. m = [tree |-> m.tree, stops |-> m.stops]
    BY <1>2 DEF Meaning
  <2>5. Joined(m, Nothing) = [tree |-> m.tree, stops |-> m.stops]
    BY <2>2, <2>3 DEF Joined, Nothing
  <2>6. Joined(Nothing, m) = [tree |-> m.tree, stops |-> m.stops]
    BY <2>2, <2>3 DEF Joined, Nothing
  <2> QED BY <2>4, <2>5, <2>6, Zenon
<1> QED BY <1>1, <1>2

LEMMA JoinedAssociative ==
    ASSUME NEW k, NEW m, NEW n, Meaning(k), Meaning(m), Meaning(n)
    PROVE  Joined(Joined(k, m), n) = Joined(k, Joined(m, n))
<1>1. PICK S : k.tree \in Seq(S)
  BY DEF Meaning
<1>2. PICK R : m.tree \in Seq(R)
  BY DEF Meaning
<1>3. PICK Q : n.tree \in Seq(Q)
  BY DEF Meaning
<1> DEFINE U == S \cup R \cup Q
<1>4. k.tree \in Seq(U) /\ m.tree \in Seq(U) /\ n.tree \in Seq(U)
  <2>1. S \subseteq U /\ R \subseteq U /\ Q \subseteq U
    OBVIOUS
  <2> HIDE DEF U
  <2> QED BY <1>1, <1>2, <1>3, <2>1, SeqMonotonic
<1> HIDE DEF U
<1>5. (k.tree \o m.tree) \o n.tree = k.tree \o (m.tree \o n.tree)
  <2>1. \A s, t, u \in Seq(U) : (s \o t) \o u = s \o (t \o u)
    BY ConcatAssociative
  <2> QED BY <1>4, <2>1, Zenon
<1>6. ((k.stops \/ m.stops) \/ n.stops) = (k.stops \/ (m.stops \/ n.stops))
  BY DEF Meaning
<1> QED BY <1>5, <1>6 DEF Joined

LEMMA NodeFacts ==
    ASSUME NEW op, NEW type, NEW value, NEW parts
    PROVE  /\ Meaning(Node(op, type, value, parts)) /\ Len(Node(op, type, value, parts).tree) = 1
           /\ Node(op, type, value, parts).tree[1].op = op
           /\ Node(op, type, value, parts).tree[1].type = type
           /\ Node(op, type, value, parts).tree[1].value = value
<1> DEFINE nd == [op |-> op, type |-> type, value |-> value,
                  blocks |-> [n \in DOMAIN parts |-> parts[n].tree]]
           stops == Effect(op, value) \/ \E n \in DOMAIN parts : parts[n].stops
<1>1. Node(op, type, value, parts) = [tree |-> <<nd>>, stops |-> stops]
  BY DEF Node
<1>2. nd.op = op /\ nd.type = type /\ nd.value = value
  OBVIOUS
<1>3. stops \in BOOLEAN
  OBVIOUS
<1> HIDE DEF nd, stops
<1>4. <<nd>> \in Seq({nd}) /\ Len(<<nd>>) = 1 /\ <<nd>>[1] = nd
  OBVIOUS
<1>5. Meaning([tree |-> <<nd>>, stops |-> stops])
  BY <1>3, <1>4 DEF Meaning
<1> QED BY <1>1, <1>2, <1>4, <1>5

-----------------------------------------------------------------------------
(* The visits of the enumerator, and of what it visits, K deep. *)
Visiting(K, s) ==
    s = [n \in 0 .. K |-> IF n = 0 THEN [none \in Seq(Cell) |-> Nothing] ELSE Deeper(s[n - 1])]

LEMMA VisitingExists ==
    ASSUME NEW K \in Nat
    PROVE  \E s : Visiting(K, s)
<1> DEFINE T0 == {m \in Nat : ~ \E s : Visiting(m, s)}
<1>1. SUFFICES ASSUME T0 # {} PROVE FALSE
  OBVIOUS
<1>2. PICK m \in T0 : \A y \in T0 : m <= y
  <2>1. T0 \subseteq Nat
    OBVIOUS
  <2> HIDE DEF T0
  <2> QED BY <1>1, <2>1, Least
<1>3. m \in Nat /\ ~ \E s : Visiting(m, s)
  OBVIOUS
<1>4. CASE m = 0
  <2> DEFINE s == [n \in 0 .. 0 |-> [none \in Seq(Cell) |-> Nothing]]
  <2>1. s = [n \in 0 .. 0 |-> IF n = 0 THEN [none \in Seq(Cell) |-> Nothing] ELSE Deeper(s[n - 1])]
    OBVIOUS
  <2> QED BY <1>3, <1>4, <2>1 DEF Visiting
<1>5. CASE m # 0
  <2>1. m - 1 \in Nat /\ m - 1 \notin T0
    BY <1>2, <1>3, <1>5
  <2>2. PICK g : Visiting(m - 1, g)
    BY <2>1
  <2> DEFINE f == [n \in 0 .. m |-> IF n = m THEN Deeper(g[m - 1]) ELSE g[n]]
             h == [n \in 0 .. m |-> IF n = 0 THEN [none \in Seq(Cell) |-> Nothing] ELSE Deeper(f[n - 1])]
  <2>3. ASSUME NEW n \in 0 .. m PROVE f[n] = h[n]
    <3>1. CASE n = m
      <4>1. n - 1 \in 0 .. m /\ n - 1 # m
        BY <1>3, <1>5, <3>1
      <4>2. f[n - 1] = g[n - 1]
        BY <4>1
      <4> QED BY <1>5, <3>1, <4>2
    <3>2. CASE n # m /\ n # 0
      <4>1. n \in 0 .. m - 1 /\ n - 1 \in 0 .. m /\ n - 1 # m
        BY <1>3, <3>2
      <4>2. f[n - 1] = g[n - 1] /\ f[n] = g[n]
        BY <3>2, <4>1
      <4>3. g[n] = Deeper(g[n - 1])
        BY <2>2, <3>2, <4>1 DEF Visiting
      <4> QED BY <3>2, <4>2, <4>3
    <3>3. CASE n = 0
      <4>1. g[0] = [none \in Seq(Cell) |-> Nothing]
        <5>1. 0 \in 0 .. m - 1
          BY <1>3, <1>5
        <5> QED BY <2>2, <5>1 DEF Visiting
      <4> QED BY <1>5, <3>3, <4>1
    <3> QED BY <3>1, <3>2, <3>3
  <2>4. f = h
    <3>1. f = [n \in 0 .. m |-> f[n]] /\ h = [n \in 0 .. m |-> h[n]]
      OBVIOUS
    <3> HIDE DEF f, h
    <3> QED BY <2>3, <3>1
  <2>5. Visiting(m, f)
    <3>1. h = [n \in 0 .. m |-> IF n = 0 THEN [none \in Seq(Cell) |-> Nothing] ELSE Deeper(f[n - 1])]
      OBVIOUS
    <3> HIDE DEF f, h
    <3> QED BY <2>4, <3>1 DEF Visiting
  <2> QED BY <1>3, <2>5
<1> QED BY <1>4, <1>5

LEMMA VisitingFacts ==
    ASSUME NEW K \in Nat, NEW s, Visiting(K, s)
    PROVE  /\ \A n \in 0 .. K : s[n][<<>>] = Nothing
           /\ \A n \in 1 .. K : \A data \in Seq(Cell) : data # <<>> => s[n][data] = Visit(s[n - 1], data)
<1>1. ASSUME NEW n \in 0 .. K
      PROVE  s[n] = IF n = 0 THEN [none \in Seq(Cell) |-> Nothing] ELSE Deeper(s[n - 1])
  BY DEF Visiting
<1>2. ASSUME NEW n \in 1 .. K, NEW data \in Seq(Cell), data # <<>>
      PROVE  s[n][data] = Visit(s[n - 1], data)
  <2>1. s[n] = Deeper(s[n - 1])
    BY <1>1
  <2> QED BY <1>2, <2>1 DEF Deeper
<1>3. ASSUME NEW n \in 0 .. K PROVE s[n][<<>>] = Nothing
  <2>1. <<>> \in Seq(Cell)
    OBVIOUS
  <2>2. CASE n = 0
    BY <1>1, <2>1, <2>2
  <2>3. CASE n # 0
    <3>1. s[n] = Deeper(s[n - 1])
      BY <1>1, <2>3
    <3> QED BY <2>1, <3>1 DEF Deeper
  <2> QED BY <2>2, <2>3
<1> QED BY <1>2, <1>3

(* data means m: whatever comes behind it, the enumerator visits m first.  *)
VisitedFirst(data, m, K, s) ==
    \A b \in Seq(Cell) : \A behind :
      Meaning(behind) /\ (\A n \in Len(b) .. K : s[n][b] = behind) =>
        \A n \in Len(data) + Len(b) .. K : s[n][data \o b] = Joined(m, behind)
Means(data, m) == \A K \in Nat : \A s : Visiting(K, s) => VisitedFirst(data, m, K, s)

LEMMA MeansNothing == Means(<<>>, Nothing)
<1> SUFFICES ASSUME NEW K \in Nat, NEW s, Visiting(K, s), NEW b \in Seq(Cell), NEW behind,
                    Meaning(behind), \A n \in Len(b) .. K : s[n][b] = behind,
                    NEW n \in Len(<<>>) + Len(b) .. K
             PROVE  s[n][<<>> \o b] = Joined(Nothing, behind)
  BY DEF Means, VisitedFirst
<1>1. Len(b) \in Nat /\ n \in Len(b) .. K /\ <<>> \o b = b
  BY ConcatEmptySeq
<1> QED BY <1>1, JoinedNothing

LEMMA MeansConcat ==
    ASSUME NEW d \in Seq(Cell), NEW e \in Seq(Cell), NEW m, NEW n, Meaning(m), Meaning(n),
           Means(d, m), Means(e, n)
    PROVE  Means(d \o e, Joined(m, n))
<1> SUFFICES ASSUME NEW K \in Nat, NEW s, Visiting(K, s), NEW b \in Seq(Cell), NEW behind,
                    Meaning(behind), \A k \in Len(b) .. K : s[k][b] = behind,
                    NEW k \in Len(d \o e) + Len(b) .. K
             PROVE  s[k][(d \o e) \o b] = Joined(Joined(m, n), behind)
  BY DEF Means, VisitedFirst
<1>1. /\ Len(d) \in Nat /\ Len(e) \in Nat /\ Len(b) \in Nat /\ Len(d \o e) = Len(d) + Len(e)
      /\ e \o b \in Seq(Cell) /\ Len(e \o b) = Len(e) + Len(b)
  OBVIOUS
<1>2. \A j \in Len(e) + Len(b) .. K : s[j][e \o b] = Joined(n, behind)
  <2>1. VisitedFirst(e, n, K, s)
    BY DEF Means
  <2> QED BY <2>1 DEF VisitedFirst
<1>3. \A j \in Len(d) + Len(e \o b) .. K : s[j][d \o (e \o b)] = Joined(m, Joined(n, behind))
  <2>1. Meaning(Joined(n, behind))
    BY JoinedFacts
  <2>2. \A j \in Len(e \o b) .. K : s[j][e \o b] = Joined(n, behind)
    BY <1>1, <1>2
  <2>3. VisitedFirst(d, m, K, s)
    BY DEF Means
  <2> QED BY <1>1, <2>1, <2>2, <2>3 DEF VisitedFirst
<1>4. k \in Len(d) + Len(e \o b) .. K
  BY <1>1
<1>5. (d \o e) \o b = d \o (e \o b)
  BY ConcatAssociative
<1>6. Joined(Joined(m, n), behind) = Joined(m, Joined(n, behind))
  BY JoinedAssociative
<1> QED BY <1>3, <1>4, <1>5, <1>6, Zenon

(* The enumerator visits what the data means. *)
LEMMA MeansAll ==
    ASSUME NEW data \in Seq(Cell), NEW m, Meaning(m), Means(data, m), NEW K \in Nat, NEW s,
           Visiting(K, s)
    PROVE  \A n \in Len(data) .. K : s[n][data] = m
<1>1. <<>> \in Seq(Cell) /\ Len(<<>>) = 0 /\ Len(data) \in Nat /\ data \o <<>> = data
  BY ConcatEmptySeq
<1>2. \A n \in 0 .. K : s[n][<<>>] = Nothing
  BY VisitingFacts
<1>3. \A n \in Len(data) + Len(<<>>) .. K : s[n][data \o <<>>] = Joined(m, Nothing)
  <2>1. VisitedFirst(data, m, K, s)
    BY DEF Means
  <2>2. Meaning(Nothing) /\ \A n \in Len(<<>>) .. K : s[n][<<>>] = Nothing
    BY <1>1, <1>2, JoinedNothing
  <2> QED BY <1>1, <2>1, <2>2 DEF VisitedFirst
<1>4. Joined(m, Nothing) = m
  BY JoinedNothing
<1> QED BY <1>1, <1>3, <1>4

LEMMA ProcessMeans ==
    ASSUME NEW data \in Seq(Cell), NEW m, Meaning(m), Means(data, m)
    PROVE  ProcessPCodeBlock(data) = m
<1> DEFINE s == CHOOSE f : Visiting(Len(data), f)
<1>1. Len(data) \in Nat
  OBVIOUS
<1>2. Visiting(Len(data), s)
  BY <1>1, VisitingExists
<1>3. ProcessPCodeBlock(data) = s[Len(data)][data]
  BY DEF ProcessPCodeBlock, Visiting
<1> HIDE DEF s
<1> QED BY <1>1, <1>2, <1>3, MeansAll

-----------------------------------------------------------------------------
(* A code means its node, if its blocks mean the parts of it. *)
PartsFound(h, behind, parts) ==
    /\ DOMAIN parts = DOMAIN Blocks(h)
    /\ \A n \in DOMAIN parts : Meaning(parts[n])
    /\ \A n \in DOMAIN parts : \A b \in Seq(Cell) :
         LET x == Block((<<h>> \o behind) \o b, Blocks(h)[n])
         IN x \in Seq(Cell) /\ Len(x) <= Len(behind) /\ Means(x, parts[n])

LEMMA NodeSame ==
    ASSUME NEW op, NEW type, NEW value, NEW parts, NEW others, DOMAIN parts = DOMAIN others,
           \A n \in DOMAIN parts : parts[n] = others[n]
    PROVE  Node(op, type, value, parts) = Node(op, type, value, others)
<1>1. [n \in DOMAIN parts |-> parts[n].tree] = [n \in DOMAIN others |-> others[n].tree]
  OBVIOUS
<1>2. (\E n \in DOMAIN parts : parts[n].stops) = (\E n \in DOMAIN others : others[n].stops)
  OBVIOUS
<1> QED BY <1>1, <1>2 DEF Node

LEMMA PushedBehind ==
    ASSUME NEW h \in Cell, NEW behind \in Seq(Cell), NEW b \in Seq(Cell)
    PROVE  /\ (<<h>> \o behind) \o b \in Seq(Cell) /\ ((<<h>> \o behind) \o b)[1] = h
           /\ Len((<<h>> \o behind) \o b) = 1 + Len(behind) + Len(b)
           /\ Len(behind) \in Nat /\ Len(b) \in Nat
           /\ SubSeq((<<h>> \o behind) \o b, 1 + Len(behind) + 1, 1 + Len(behind) + Len(b)) = b
<1>1. /\ <<h>> \in Seq(Cell) /\ Len(<<h>>) = 1 /\ <<h>>[1] = h
      /\ Len(behind) \in Nat /\ Len(b) \in Nat
  OBVIOUS
<1> DEFINE u == <<h>> \o behind
<1>2. u \in Seq(Cell) /\ Len(u) = 1 + Len(behind) /\ u[1] = h
  BY <1>1
<1>3. (<<h>> \o behind) \o b = u \o b
  OBVIOUS
<1> HIDE DEF u
<1>4. /\ u \o b \in Seq(Cell) /\ (u \o b)[1] = h /\ Len(u \o b) = 1 + Len(behind) + Len(b)
  <2>1. 1 \in 1 .. Len(u)
    BY <1>1, <1>2
  <2>2. (u \o b)[1] = u[1]
    BY <1>2, <2>1, ConcatFacts
  <2> QED BY <1>1, <1>2, <2>2
<1> DEFINE r == SubSeq(u \o b, 1 + Len(behind) + 1, 1 + Len(behind) + Len(b))
<1>5. r \in Seq(Cell) /\ Len(r) = Len(b)
  BY <1>1, <1>4
<1>6. ASSUME NEW k \in 1 .. Len(b) PROVE r[k] = b[k]
  <2>1. r[k] = (u \o b)[1 + Len(behind) + k]
    BY <1>1, <1>4
  <2>2. (u \o b)[Len(u) + k] = b[k]
    BY <1>2, ConcatFacts
  <2> QED BY <1>2, <2>1, <2>2
<1>7. r = b
  <2> HIDE DEF r
  <2> QED BY <1>5, <1>6, SeqEqual
<1> QED BY <1>1, <1>3, <1>4, <1>7

LEMMA CodeMeans ==
    ASSUME NEW h \in Cell, NEW behind \in Seq(Cell), h.opSize = 1 + Len(behind), NEW parts,
           PartsFound(h, behind, parts)
    PROVE  Means(<<h>> \o behind, Node(h.op, h.type, h.value, parts))
<1> DEFINE node == Node(h.op, h.type, h.value, parts)
           u == <<h>> \o behind
<1> SUFFICES ASSUME NEW K \in Nat, NEW s, Visiting(K, s), NEW b \in Seq(Cell), NEW after,
                    Meaning(after), \A n \in Len(b) .. K : s[n][b] = after,
                    NEW n \in Len(u) + Len(b) .. K
             PROVE  s[n][u \o b] = Joined(node, after)
  BY DEF Means, VisitedFirst
<1> DEFINE data == u \o b
<1>1. /\ data \in Seq(Cell) /\ data[1] = h /\ Len(data) = 1 + Len(behind) + Len(b)
      /\ Len(behind) \in Nat /\ Len(b) \in Nat /\ Len(u) = 1 + Len(behind)
      /\ SubSeq(data, 1 + Len(behind) + 1, 1 + Len(behind) + Len(b)) = b
  <2>1. Len(u) = 1 + Len(behind)
    OBVIOUS
  <2> QED BY <2>1, PushedBehind
<1> HIDE DEF u
<1>2. n \in 1 .. K /\ n - 1 \in Len(b) .. K /\ n - 1 \in Len(behind) .. K /\ data # <<>>
  BY <1>1
<1>3. s[n][data] = Visit(s[n - 1], data)
  BY <1>1, <1>2, VisitingFacts
<1> DEFINE found == [k \in DOMAIN Blocks(h) |-> s[n - 1][Block(data, Blocks(h)[k])]]
<1>4. Visit(s[n - 1], data) =
        Joined(Node(h.op, h.type, h.value, found), s[n - 1][SubSeq(data, h.opSize + 1, Len(data))])
  BY <1>1 DEF Visit
<1>5. s[n - 1][SubSeq(data, h.opSize + 1, Len(data))] = after
  BY <1>1, <1>2
<1>6. ASSUME NEW k \in DOMAIN parts PROVE found[k] = parts[k]
  <2> DEFINE x == Block(data, Blocks(h)[k])
  <2>1. x \in Seq(Cell) /\ Len(x) <= Len(behind) /\ Means(x, parts[k]) /\ Meaning(parts[k])
    BY DEF PartsFound, u
  <2>2. n - 1 \in Len(x) .. K
    BY <1>1, <1>2, <2>1
  <2>3. k \in DOMAIN Blocks(h)
    BY DEF PartsFound
  <2>4. found[k] = s[n - 1][x]
    BY <2>3
  <2> HIDE DEF x
  <2>5. s[n - 1][x] = parts[k]
    BY <2>1, <2>2, MeansAll
  <2> QED BY <2>4, <2>5
<1>7. DOMAIN found = DOMAIN parts
  BY DEF PartsFound
<1> HIDE DEF found
<1>8. Node(h.op, h.type, h.value, found) = node
  BY <1>6, <1>7, NodeSame
<1> QED BY <1>3, <1>4, <1>5, <1>8

(* A block is found where it was copied, whatever is around it. *)
LEMMA BlockFound ==
    ASSUME NEW h \in Cell, NEW pre \in Seq(Cell), NEW x \in Seq(Cell), NEW post \in Seq(Cell),
           NEW b \in Seq(Cell)
    PROVE  Block((<<h>> \o ((pre \o x) \o post)) \o b, [offset |-> 1 + Len(pre), size |-> Len(x)]) = x
<1> DEFINE w == pre \o x
           v == w \o post
           u == <<h>> \o v
           data == u \o b
           r == SubSeq(data, (1 + Len(pre)) + 1, (1 + Len(pre)) + Len(x))
<1>1. Block(data, [offset |-> 1 + Len(pre), size |-> Len(x)]) = r
  BY DEF Block
<1>2. /\ Len(pre) \in Nat /\ Len(x) \in Nat /\ Len(post) \in Nat /\ Len(b) \in Nat
      /\ <<h>> \in Seq(Cell) /\ Len(<<h>>) = 1
  OBVIOUS
<1> HIDE DEF w, v, u, data
<1>3. /\ w \in Seq(Cell) /\ Len(w) = Len(pre) + Len(x)
      /\ \A k \in 1 .. Len(x) : w[Len(pre) + k] = x[k]
  BY ConcatFacts DEF w
<1>4. /\ v \in Seq(Cell) /\ Len(v) = Len(w) + Len(post)
      /\ \A k \in 1 .. Len(w) : v[k] = w[k]
  <2>1. w \in Seq(Cell)
    BY <1>3
  <2> QED BY <2>1, ConcatFacts DEF v
<1>5. /\ u \in Seq(Cell) /\ Len(u) = 1 + Len(v)
      /\ \A k \in 1 .. Len(v) : u[1 + k] = v[k]
  <2>1. v \in Seq(Cell)
    BY <1>4
  <2> QED BY <1>2, <2>1, ConcatFacts DEF u
<1>6. /\ data \in Seq(Cell) /\ Len(data) = Len(u) + Len(b)
      /\ \A k \in 1 .. Len(u) : data[k] = u[k]
  <2>1. u \in Seq(Cell)
    BY <1>5
  <2> QED BY <2>1, ConcatFacts DEF data
<1>7. r \in Seq(Cell) /\ Len(r) = Len(x)
  BY <1>2, <1>3, <1>4, <1>5, <1>6
<1>8. ASSUME NEW k \in 1 .. Len(x) PROVE r[k] = x[k]
  <2>1. r[k] = data[(1 + Len(pre)) + k]
    BY <1>2, <1>3, <1>4, <1>5, <1>6
  <2>2. /\ (1 + Len(pre)) + k \in 1 .. Len(u) /\ Len(pre) + k \in 1 .. Len(v)
        /\ Len(pre) + k \in 1 .. Len(w) /\ (1 + Len(pre)) + k = 1 + (Len(pre) + k)
    BY <1>2, <1>3, <1>4, <1>5
  <2>3. data[(1 + Len(pre)) + k] = u[1 + (Len(pre) + k)]
    BY <1>6, <2>2
  <2>4. u[1 + (Len(pre) + k)] = v[Len(pre) + k]
    BY <1>5, <2>2
  <2>5. v[Len(pre) + k] = w[Len(pre) + k]
    BY <1>4, <2>2
  <2> QED BY <1>3, <2>1, <2>3, <2>4, <2>5
<1>9. r = x
  <2> HIDE DEF r
  <2> QED BY <1>7, <1>8, SeqEqual
<1> QED BY <1>1, <1>9 DEF data, u, v, w

(* What the enumerator visits first, and behind it. *)
Rest(data) == SubSeq(data, data[1].opSize + 1, Len(data))

LEMMA Look ==
    ASSUME NEW K \in Nat, NEW s, Visiting(K, s), NEW n \in 1 .. K, NEW data \in Seq(Cell), data # <<>>
    PROVE  /\ Rest(data) \in Seq(Cell)
           /\ \E parts : s[n][data] =
                Joined(Node(data[1].op, data[1].type, data[1].value, parts), s[n - 1][Rest(data)])
<1>1. data[1] \in Cell /\ Len(data) \in Nat /\ data[1].opSize \in Nat
  <2>1. data[1] \in Cell /\ Len(data) \in Nat
    OBVIOUS
  <2> QED BY <2>1 DEF Cell
<1>2. Rest(data) \in Seq(Cell)
  BY <1>1 DEF Rest
<1>3. s[n][data] = Visit(s[n - 1], data)
  BY VisitingFacts
<1> DEFINE parts == [k \in DOMAIN Blocks(data[1]) |-> s[n - 1][Block(data, Blocks(data[1])[k])]]
<1>4. Visit(s[n - 1], data) =
        Joined(Node(data[1].op, data[1].type, data[1].value, parts), s[n - 1][Rest(data)])
  BY DEF Visit, Rest
<1> HIDE DEF parts
<1> QED BY <1>2, <1>3, <1>4

LEMMA VisitedMeaning ==
    ASSUME NEW K \in Nat, NEW s, Visiting(K, s)
    PROVE  \A n \in 0 .. K : \A data \in Seq(Cell) : Meaning(s[n][data])
<1> DEFINE T0 == {m \in Nat : m <= K /\ ~ \A data \in Seq(Cell) : Meaning(s[m][data])}
<1>1. SUFFICES ASSUME T0 # {} PROVE FALSE
  OBVIOUS
<1>2. PICK m \in T0 : \A y \in T0 : m <= y
  <2>1. T0 \subseteq Nat
    OBVIOUS
  <2> HIDE DEF T0
  <2> QED BY <1>1, <2>1, Least
<1>3. m \in Nat /\ m <= K
  OBVIOUS
<1>4. PICK data \in Seq(Cell) : ~Meaning(s[m][data])
  OBVIOUS
<1>5. CASE data = <<>>
  BY <1>3, <1>4, <1>5, VisitingFacts, JoinedNothing
<1>6. CASE m = 0
  <2>1. s[0] = [none \in Seq(Cell) |-> Nothing]
    BY DEF Visiting
  <2> QED BY <1>4, <1>6, <2>1, JoinedNothing
<1>7. CASE data # <<>> /\ m # 0
  <2>1. m \in 1 .. K /\ m - 1 \in Nat /\ m - 1 <= K /\ ~(m <= m - 1)
    BY <1>3, <1>7
  <2>2. Rest(data) \in Seq(Cell)
    BY <1>7, <2>1, Look
  <2>3. PICK parts : s[m][data] =
                Joined(Node(data[1].op, data[1].type, data[1].value, parts), s[m - 1][Rest(data)])
    BY <1>7, <2>1, Look
  <2>4. m - 1 \notin T0
    <3> HIDE DEF T0
    <3> QED BY <1>2, <2>1
  <2>5. Meaning(s[m - 1][Rest(data)])
    BY <2>1, <2>2, <2>4
  <2> HIDE DEF T0
  <2>6. Meaning(s[m][data])
    <3>1. Meaning(Node(data[1].op, data[1].type, data[1].value, parts))
      BY NodeFacts
    <3>2. Meaning(Joined(Node(data[1].op, data[1].type, data[1].value, parts), s[m - 1][Rest(data)]))
      BY <2>5, <3>1, JoinedFacts
    <3> QED BY <2>3, <3>2
  <2> QED BY <1>4, <2>6
<1> QED BY <1>5, <1>6, <1>7

(* The tree begins with what the data begins with. *)
LEMMA LookTree ==
    ASSUME NEW K \in Nat, NEW s, Visiting(K, s), NEW n \in 1 .. K, NEW data \in Seq(Cell), data # <<>>
    PROVE  LET t == s[n][data].tree
               r == s[n - 1][Rest(data)].tree
           IN /\ Len(r) \in Nat /\ Len(t) = 1 + Len(r)
              /\ t[1].op = data[1].op /\ t[1].type = data[1].type /\ t[1].value = data[1].value
              /\ \A k \in 1 .. Len(r) : t[1 + k] = r[k]
<1>1. Rest(data) \in Seq(Cell)
  BY Look
<1>2. PICK parts : s[n][data] =
              Joined(Node(data[1].op, data[1].type, data[1].value, parts), s[n - 1][Rest(data)])
  BY Look
<1>3. Meaning(s[n - 1][Rest(data)])
  BY <1>1, VisitedMeaning
<1> DEFINE node == Node(data[1].op, data[1].type, data[1].value, parts)
           after == s[n - 1][Rest(data)]
<1>4. /\ Meaning(node) /\ Len(node.tree) = 1 /\ node.tree[1].op = data[1].op
      /\ node.tree[1].type = data[1].type /\ node.tree[1].value = data[1].value
  BY NodeFacts
<1>5. s[n][data] = Joined(node, after)
  BY <1>2
<1> HIDE DEF node, after
<1>6. /\ Len(after.tree) \in Nat /\ Len(Joined(node, after).tree) = 1 + Len(after.tree)
      /\ Joined(node, after).tree[1] = node.tree[1]
      /\ \A k \in 1 .. Len(after.tree) : Joined(node, after).tree[1 + k] = after.tree[k]
  <2>1. Follows(Joined(node, after).tree, node.tree, after.tree)
    BY <1>3, <1>4, JoinedFacts DEF after
  <2>2. Len(node.tree) = 1 /\ Len(after.tree) \in Nat /\ Len(Joined(node, after).tree) = 1 + Len(after.tree)
    BY <1>4, <2>1 DEF Follows
  <2>3. Joined(node, after).tree[1] = node.tree[1]
    BY <2>1, <2>2 DEF Follows
  <2>4. ASSUME NEW k \in 1 .. Len(after.tree)
        PROVE  Joined(node, after).tree[1 + k] = after.tree[k]
    BY <2>1, <2>2 DEF Follows
  <2> QED BY <2>2, <2>3, <2>4
<1> QED BY <1>4, <1>5, <1>6 DEF after
-----------------------------------------------------------------------------
(* Codes of which the parser makes new constants have nothing behind them. *)
Short(c) == c.op = "Negate" \/ (c.op = "Constant" /\ c.type \in {"int", "float"})
Sound == {c \in Cell : Short(c) => c.opSize = 1}

(* What is in an entry: sound cells that mean m. *)
Coded(data, m) ==
    /\ data \in Seq(Sound) /\ (data # <<>> => data[1].opSize <= Len(data))
    /\ Meaning(m) /\ Means(data, m)

LEMMA SoundCells == \A data \in Seq(Sound) : data \in Seq(Cell)
<1>1. Sound \subseteq Cell
  BY DEF Sound
<1> QED BY <1>1, SeqMonotonic

LEMMA CodedNothing == Coded(<<>>, Nothing)
BY MeansNothing, JoinedNothing DEF Coded

LEMMA CodedConcat ==
    ASSUME NEW d, NEW e, NEW m, NEW n, Coded(d, m), Coded(e, n)
    PROVE  Coded(d \o e, Joined(m, n))
<1>1. d \in Seq(Sound) /\ e \in Seq(Sound) /\ d \o e \in Seq(Sound)
  BY DEF Coded
<1>2. Meaning(Joined(m, n))
  BY JoinedFacts DEF Coded
<1>3. Means(d \o e, Joined(m, n))
  <2>1. d \in Seq(Cell) /\ e \in Seq(Cell)
    BY <1>1, SoundCells
  <2>2. Meaning(m) /\ Meaning(n) /\ Means(d, m) /\ Means(e, n)
    BY DEF Coded
  <2> QED BY <2>1, <2>2, MeansConcat
<1>4. ASSUME d \o e # <<>> PROVE (d \o e)[1].opSize <= Len(d \o e)
  <2>1. Len(d) \in Nat /\ Len(e) \in Nat /\ Len(d \o e) = Len(d) + Len(e)
    BY <1>1
  <2>2. CASE d = <<>>
    <3>1. d \o e = e
      BY <1>1, <2>2, ConcatEmptySeq
    <3> QED BY <1>4, <3>1 DEF Coded
  <2>3. CASE d # <<>>
    <3>1. 1 \in 1 .. Len(d) /\ d[1] \in Sound
      BY <1>1, <2>3
    <3>2. (d \o e)[1] = d[1]
      BY <1>1, <3>1, ConcatFacts
    <3>3. d[1].opSize <= Len(d) /\ d[1].opSize \in Nat
      BY <2>3, <3>1 DEF Coded, Sound, Cell
    <3> QED BY <2>1, <3>2, <3>3
  <2> QED BY <2>2, <2>3
<1> QED BY <1>1, <1>2, <1>3, <1>4 DEF Coded

LEMMA CodedCode ==
    ASSUME NEW h \in Sound, NEW behind \in Seq(Sound), h.opSize = 1 + Len(behind), NEW parts,
           PartsFound(h, behind, parts)
    PROVE  Coded(<<h>> \o behind, Node(h.op, h.type, h.value, parts))
<1>1. h \in Cell /\ behind \in Seq(Cell)
  BY SoundCells DEF Sound
<1>2. Means(<<h>> \o behind, Node(h.op, h.type, h.value, parts))
  BY <1>1, CodeMeans
<1>3. <<h>> \o behind \in Seq(Sound) /\ (<<h>> \o behind)[1] = h /\ Len(<<h>> \o behind) = 1 + Len(behind)
  OBVIOUS
<1>4. Len(behind) \in Nat
  OBVIOUS
<1> QED BY <1>2, <1>3, <1>4, NodeFacts DEF Coded

(* A code without blocks, whatever is behind it. *)
LEMMA CodedBare ==
    ASSUME NEW h \in Sound, NEW behind \in Seq(Sound), h.opSize = 1 + Len(behind), Blocks(h) = <<>>
    PROVE  Coded(<<h>> \o behind, Node(h.op, h.type, h.value, <<>>))
<1>1. PartsFound(h, behind, <<>>)
  BY DEF PartsFound
<1> QED BY <1>1, CodedCode

(* A code with a block behind something. *)
LEMMA CodedAround ==
    ASSUME NEW h \in Sound, NEW pre \in Seq(Sound), NEW x, NEW m, Coded(x, m),
           h.opSize = 1 + Len(pre \o x), Blocks(h) = <<[offset |-> 1 + Len(pre), size |-> Len(x)]>>
    PROVE  Coded(<<h>> \o (pre \o x), Node(h.op, h.type, h.value, <<m>>))
<1>1. x \in Seq(Sound) /\ pre \o x \in Seq(Sound) /\ Meaning(m) /\ Means(x, m)
  BY DEF Coded
<1>2. h \in Cell /\ x \in Seq(Cell) /\ pre \in Seq(Cell) /\ pre \o x \in Seq(Cell) /\ <<>> \in Seq(Cell)
  BY <1>1, SoundCells DEF Sound
<1>3. (pre \o x) \o <<>> = pre \o x
  BY <1>2, ConcatEmptySeq
<1>4. Len(x) <= Len(pre \o x)
  BY <1>2
<1>5. ASSUME NEW b \in Seq(Cell)
      PROVE  Block((<<h>> \o (pre \o x)) \o b, [offset |-> 1 + Len(pre), size |-> Len(x)]) = x
  <2>1. ASSUME NEW post \in Seq(Cell)
        PROVE  Block((<<h>> \o ((pre \o x) \o post)) \o b, [offset |-> 1 + Len(pre), size |-> Len(x)]) = x
    BY <1>2, BlockFound
  <2> QED BY <1>2, <1>3, <2>1
<1>6. PartsFound(h, pre \o x, <<m>>)
  <2>1. DOMAIN <<m>> = {1} /\ <<m>>[1] = m /\ DOMAIN Blocks(h) = {1}
        /\ Blocks(h)[1] = [offset |-> 1 + Len(pre), size |-> Len(x)]
    OBVIOUS
  <2> QED BY <1>1, <1>2, <1>4, <1>5, <2>1 DEF PartsFound
<1> QED BY <1>1, <1>6, CodedCode

(* The first code of an entry, and those behind it. *)
LEMMA CodedTree ==
    ASSUME NEW data, NEW m, Coded(data, m), data # <<>>
    PROVE  \E r : /\ Len(r) \in Nat /\ Len(m.tree) = 1 + Len(r)
                  /\ m.tree[1].op = data[1].op /\ m.tree[1].type = data[1].type
                  /\ m.tree[1].value = data[1].value
                  /\ \A k \in 1 .. Len(r) : m.tree[1 + k] = r[k]
                  /\ Rest(data) \in Seq(Cell) /\ (Rest(data) = <<>> => Len(r) = 0)
                  /\ Rest(data) # <<>> =>
                       /\ r[1].op = Rest(data)[1].op
                       /\ Rest(Rest(data)) = <<>> => Len(r) = 1
                       /\ Rest(Rest(data)) # <<>> => Len(r) > 1
                       /\ Len(r) > 0
<1>1. data \in Seq(Cell) /\ Meaning(m) /\ Means(data, m) /\ Len(data) \in Nat
  BY SoundCells DEF Coded
<1> DEFINE K == Len(data) + 3
<1>2. K \in Nat /\ K \in Len(data) .. K /\ K \in 1 .. K /\ K - 1 \in 1 .. K /\ K - 1 \in 0 .. K
      /\ (K - 1) - 1 \in 1 .. K /\ (K - 1) - 1 \in 0 .. K
  BY <1>1
<1> HIDE DEF K
<1>3. PICK s : Visiting(K, s)
  BY <1>2, VisitingExists
<1>4. s[K][data] = m
  BY <1>1, <1>2, <1>3, MeansAll
<1> DEFINE r == s[K - 1][Rest(data)].tree
           q == s[(K - 1) - 1][Rest(Rest(data))].tree
<1>5. /\ Len(r) \in Nat /\ Len(m.tree) = 1 + Len(r)
      /\ m.tree[1].op = data[1].op /\ m.tree[1].type = data[1].type /\ m.tree[1].value = data[1].value
      /\ \A k \in 1 .. Len(r) : m.tree[1 + k] = r[k]
  <2>1. LET t == s[K][data].tree
        IN /\ Len(r) \in Nat /\ Len(t) = 1 + Len(r)
           /\ t[1].op = data[1].op /\ t[1].type = data[1].type /\ t[1].value = data[1].value
           /\ \A k \in 1 .. Len(r) : t[1 + k] = r[k]
    BY <1>1, <1>2, <1>3, LookTree
  <2> QED BY <1>4, <2>1
<1>6. Rest(data) \in Seq(Cell)
  BY <1>1, <1>2, <1>3, Look
<1>7. Rest(data) = <<>> => Len(r) = 0
  BY <1>2, <1>3, VisitingFacts DEF Nothing
<1>8. ASSUME Rest(data) # <<>>
      PROVE  Len(q) \in Nat /\ Len(r) = 1 + Len(q) /\ r[1].op = Rest(data)[1].op
  BY <1>2, <1>3, <1>6, <1>8, LookTree
<1>9. Rest(data) # <<>> => Rest(Rest(data)) \in Seq(Cell)
  BY <1>2, <1>3, <1>6, Look
<1>10. Rest(Rest(data)) = <<>> => Len(q) = 0
  BY <1>2, <1>3, VisitingFacts DEF Nothing
<1>11. Rest(data) # <<>> /\ Rest(Rest(data)) # <<>> => Len(q) > 0
  <2> SUFFICES ASSUME Rest(data) # <<>>, Rest(Rest(data)) # <<>> PROVE Len(q) > 0
    OBVIOUS
  <2>1. LET p == s[((K - 1) - 1) - 1][Rest(Rest(Rest(data)))].tree
        IN Len(p) \in Nat /\ Len(q) = 1 + Len(p)
    BY <1>2, <1>3, <1>9, LookTree
  <2> HIDE DEF q
  <2> QED BY <2>1
<1> HIDE DEF r, q
<1>12. /\ Rest(data) # <<>> =>
            /\ r[1].op = Rest(data)[1].op
            /\ Rest(Rest(data)) = <<>> => Len(r) = 1
            /\ Rest(Rest(data)) # <<>> => Len(r) > 1
            /\ Len(r) > 0
  <2> SUFFICES ASSUME Rest(data) # <<>>
               PROVE  /\ r[1].op = Rest(data)[1].op
                      /\ Rest(Rest(data)) = <<>> => Len(r) = 1
                      /\ Rest(Rest(data)) # <<>> => Len(r) > 1
                      /\ Len(r) > 0
    OBVIOUS
  <2>1. Len(q) \in Nat /\ Len(r) = 1 + Len(q) /\ r[1].op = Rest(data)[1].op
    BY <1>8
  <2>2. Rest(Rest(data)) # <<>> => Len(q) > 0
    BY <1>11
  <2> QED BY <1>10, <2>1, <2>2
<1> QED BY <1>5, <1>6, <1>7, <1>12

-----------------------------------------------------------------------------
(* The memory of an entry. *)
Doubled(size, room) == IF size > room THEN 2 * room ELSE room
Growing(alloc, size, K, s) ==
    s = [n \in 0 .. K |-> IF n = 0 THEN alloc ELSE Doubled(size, s[n - 1])]

LEMMA GrowingExists ==
    ASSUME NEW alloc, NEW size, NEW K \in Nat
    PROVE  \E s : Growing(alloc, size, K, s)
<1> DEFINE T0 == {m \in Nat : ~ \E s : Growing(alloc, size, m, s)}
<1>1. SUFFICES ASSUME T0 # {} PROVE FALSE
  OBVIOUS
<1>2. PICK m \in T0 : \A y \in T0 : m <= y
  <2>1. T0 \subseteq Nat
    OBVIOUS
  <2> HIDE DEF T0
  <2> QED BY <1>1, <2>1, Least
<1>3. m \in Nat /\ ~ \E s : Growing(alloc, size, m, s)
  OBVIOUS
<1>4. CASE m = 0
  <2> DEFINE s == [n \in 0 .. 0 |-> alloc]
  <2>1. s = [n \in 0 .. 0 |-> IF n = 0 THEN alloc ELSE Doubled(size, s[n - 1])]
    OBVIOUS
  <2> QED BY <1>3, <1>4, <2>1 DEF Growing
<1>5. CASE m # 0
  <2>1. m - 1 \in Nat /\ m - 1 \notin T0
    BY <1>2, <1>3, <1>5
  <2>2. PICK g : Growing(alloc, size, m - 1, g)
    BY <2>1
  <2> DEFINE f == [n \in 0 .. m |-> IF n = m THEN Doubled(size, g[m - 1]) ELSE g[n]]
             h == [n \in 0 .. m |-> IF n = 0 THEN alloc ELSE Doubled(size, f[n - 1])]
  <2>3. ASSUME NEW n \in 0 .. m PROVE f[n] = h[n]
    <3>1. CASE n = m
      <4>1. n - 1 \in 0 .. m /\ n - 1 # m
        BY <1>3, <1>5, <3>1
      <4>2. f[n - 1] = g[n - 1]
        BY <4>1
      <4> QED BY <1>5, <3>1, <4>2
    <3>2. CASE n # m /\ n # 0
      <4>1. n \in 0 .. m - 1 /\ n - 1 \in 0 .. m /\ n - 1 # m
        BY <1>3, <3>2
      <4>2. f[n - 1] = g[n - 1] /\ f[n] = g[n]
        BY <3>2, <4>1
      <4>3. g[n] = Doubled(size, g[n - 1])
        BY <2>2, <3>2, <4>1 DEF Growing
      <4> QED BY <3>2, <4>2, <4>3
    <3>3. CASE n = 0
      <4>1. g[0] = alloc
        <5>1. 0 \in 0 .. m - 1
          BY <1>3, <1>5
        <5> QED BY <2>2, <5>1 DEF Growing
      <4> QED BY <1>5, <3>3, <4>1
    <3> QED BY <3>1, <3>2, <3>3
  <2>4. f = h
    <3>1. f = [n \in 0 .. m |-> f[n]] /\ h = [n \in 0 .. m |-> h[n]]
      OBVIOUS
    <3> HIDE DEF f, h
    <3> QED BY <2>3, <3>1
  <2>5. Growing(alloc, size, m, f)
    <3>1. h = [n \in 0 .. m |-> IF n = 0 THEN alloc ELSE Doubled(size, f[n - 1])]
      OBVIOUS
    <3> HIDE DEF f, h
    <3> QED BY <2>4, <3>1 DEF Growing
  <2> QED BY <1>3, <2>5
<1> QED BY <1>4, <1>5

LEMMA GrowingGrows ==
    ASSUME NEW alloc \in Nat \ {0}, NEW size \in Nat, NEW s, Growing(alloc, size, size, s)
    PROVE  \A n \in 0 .. size : s[n] \in Nat \ {0} /\ (s[n] > n \/ s[n] >= size)
<1> DEFINE T0 == {m \in Nat : m <= size /\ ~(s[m] \in Nat \ {0} /\ (s[m] > m \/ s[m] >= size))}
<1>1. SUFFICES ASSUME T0 # {} PROVE FALSE
  OBVIOUS
<1>2. PICK m \in T0 : \A y \in T0 : m <= y
  <2>1. T0 \subseteq Nat
    OBVIOUS
  <2> HIDE DEF T0
  <2> QED BY <1>1, <2>1, Least
<1>3. m \in 0 .. size /\ ~(s[m] \in Nat \ {0} /\ (s[m] > m \/ s[m] >= size))
  OBVIOUS
<1>4. s[m] = IF m = 0 THEN alloc ELSE Doubled(size, s[m - 1])
  BY <1>3 DEF Growing
<1>5. CASE m = 0
  BY <1>3, <1>4, <1>5
<1>6. CASE m # 0
  <2>1. m - 1 \in Nat /\ m - 1 <= size /\ ~(m <= m - 1)
    BY <1>3, <1>6
  <2>2. m - 1 \notin T0
    <3> HIDE DEF T0
    <3> QED BY <1>2, <2>1
  <2>3. s[m - 1] \in Nat \ {0} /\ (s[m - 1] > m - 1 \/ s[m - 1] >= size)
    BY <2>1, <2>2
  <2>4. s[m] = IF size > s[m - 1] THEN 2 * s[m - 1] ELSE s[m - 1]
    BY <1>4, <1>6 DEF Doubled
  <2> HIDE DEF T0
  <2> QED BY <1>3, <1>6, <2>3, <2>4
<1> QED BY <1>5, <1>6

LEMMA MakesRoom ==
    ASSUME NEW alloc \in Nat \ {0}, NEW size \in Nat
    PROVE  MakeRoom(alloc, size) \in Nat \ {0} /\ MakeRoom(alloc, size) >= size
<1> DEFINE s == CHOOSE f : Growing(alloc, size, size, f)
<1>1. Growing(alloc, size, size, s)
  BY GrowingExists
<1>2. MakeRoom(alloc, size) = s[size]
  BY DEF MakeRoom, Growing, Doubled
<1> HIDE DEF s
<1>3. size \in 0 .. size
  OBVIOUS
<1>4. s[size] \in Nat \ {0} /\ (s[size] > size \/ s[size] >= size)
  BY <1>1, <1>3, GrowingGrows
<1> QED BY <1>2, <1>4

-----------------------------------------------------------------------------
(* Blocks of five, one behind the other. *)
Stacking(blocks, K, s) ==
    s = [n \in 0 .. K |-> IF n = 0 THEN <<>> ELSE s[n - 1] \o blocks[n]]

LEMMA StackingExists ==
    ASSUME NEW blocks, NEW K \in Nat
    PROVE  \E s : Stacking(blocks, K, s)
<1> DEFINE T0 == {m \in Nat : ~ \E s : Stacking(blocks, m, s)}
<1>1. SUFFICES ASSUME T0 # {} PROVE FALSE
  OBVIOUS
<1>2. PICK m \in T0 : \A y \in T0 : m <= y
  <2>1. T0 \subseteq Nat
    OBVIOUS
  <2> HIDE DEF T0
  <2> QED BY <1>1, <2>1, Least
<1>3. m \in Nat /\ ~ \E s : Stacking(blocks, m, s)
  OBVIOUS
<1>4. CASE m = 0
  <2> DEFINE s == [n \in 0 .. 0 |-> <<>>]
  <2>1. s = [n \in 0 .. 0 |-> IF n = 0 THEN <<>> ELSE s[n - 1] \o blocks[n]]
    OBVIOUS
  <2> QED BY <1>3, <1>4, <2>1 DEF Stacking
<1>5. CASE m # 0
  <2>1. m - 1 \in Nat /\ m - 1 \notin T0
    BY <1>2, <1>3, <1>5
  <2>2. PICK g : Stacking(blocks, m - 1, g)
    BY <2>1
  <2> DEFINE f == [n \in 0 .. m |-> IF n = m THEN g[m - 1] \o blocks[m] ELSE g[n]]
             h == [n \in 0 .. m |-> IF n = 0 THEN <<>> ELSE f[n - 1] \o blocks[n]]
  <2>3. ASSUME NEW n \in 0 .. m PROVE f[n] = h[n]
    <3>1. CASE n = m
      <4>1. n - 1 \in 0 .. m /\ n - 1 # m
        BY <1>3, <1>5, <3>1
      <4>2. f[n - 1] = g[n - 1]
        BY <4>1
      <4> QED BY <1>5, <3>1, <4>2
    <3>2. CASE n # m /\ n # 0
      <4>1. n \in 0 .. m - 1 /\ n - 1 \in 0 .. m /\ n - 1 # m
        BY <1>3, <3>2
      <4>2. f[n - 1] = g[n - 1] /\ f[n] = g[n]
        BY <3>2, <4>1
      <4>3. g[n] = g[n - 1] \o blocks[n]
        BY <2>2, <3>2, <4>1 DEF Stacking
      <4> QED BY <3>2, <4>2, <4>3
    <3>3. CASE n = 0
      <4>1. g[0] = <<>>
        <5>1. 0 \in 0 .. m - 1
          BY <1>3, <1>5
        <5> QED BY <2>2, <5>1 DEF Stacking
      <4> QED BY <1>5, <3>3, <4>1
    <3> QED BY <3>1, <3>2, <3>3
  <2>4. f = h
    <3>1. f = [n \in 0 .. m |-> f[n]] /\ h = [n \in 0 .. m |-> h[n]]
      OBVIOUS
    <3> HIDE DEF f, h
    <3> QED BY <2>3, <3>1
  <2>5. Stacking(blocks, m, f)
    <3>1. h = [n \in 0 .. m |-> IF n = 0 THEN <<>> ELSE f[n - 1] \o blocks[n]]
      OBVIOUS
    <3> HIDE DEF f, h
    <3> QED BY <2>4, <3>1 DEF Stacking
  <2> QED BY <1>3, <2>5
<1> QED BY <1>4, <1>5

LEMMA StackingSteps ==
    ASSUME NEW blocks, NEW K \in Nat, NEW s, Stacking(blocks, K, s)
    PROVE  s[0] = <<>> /\ \A n \in 1 .. K : s[n] = s[n - 1] \o blocks[n]
<1>1. ASSUME NEW n \in 0 .. K PROVE s[n] = IF n = 0 THEN <<>> ELSE s[n - 1] \o blocks[n]
  BY DEF Stacking
<1>2. s[0] = <<>>
  BY <1>1
<1>3. ASSUME NEW n \in 1 .. K PROVE s[n] = s[n - 1] \o blocks[n]
  <2>1. n \in 0 .. K /\ n # 0
    OBVIOUS
  <2> QED BY <1>1, <2>1, Zenon
<1> QED BY <1>2, <1>3

(* Concatenation, of sound cells. *)
LEMMA SoundAssociative == \A s, t, u \in Seq(Sound) : (s \o t) \o u = s \o (t \o u)
BY ConcatAssociative

InStack(blocks, s, n) ==
    /\ s[n - 1] \in Seq(Sound)
    /\ \E post \in Seq(Sound) : s[5] = (s[n - 1] \o blocks[n]) \o post

LEMMA Stacked ==
    ASSUME NEW blocks, \A n \in 1 .. 5 : blocks[n] \in Seq(Sound), NEW s, Stacking(blocks, 5, s)
    PROVE  \A n \in 1 .. 5 : InStack(blocks, s, n)
<1>1. s[0] = <<>>
  BY StackingSteps
<1>2. \A n \in 1 .. 5 : s[n] = s[n - 1] \o blocks[n]
  BY StackingSteps
<1>3. s[1] = s[0] \o blocks[1] /\ s[2] = s[1] \o blocks[2] /\ s[3] = s[2] \o blocks[3]
      /\ s[4] = s[3] \o blocks[4] /\ s[5] = s[4] \o blocks[5]
  <2>1. ASSUME NEW n \in 1 .. 5, NEW k, k = n - 1 PROVE s[n] = s[k] \o blocks[n]
    BY <1>2, <2>1
  <2>2. /\ 1 \in 1 .. 5 /\ 2 \in 1 .. 5 /\ 3 \in 1 .. 5 /\ 4 \in 1 .. 5 /\ 5 \in 1 .. 5
        /\ 0 = 1 - 1 /\ 1 = 2 - 1 /\ 2 = 3 - 1 /\ 3 = 4 - 1 /\ 4 = 5 - 1
    OBVIOUS
  <2> QED BY <2>1, <2>2, Zenon
<1>4. /\ blocks[1] \in Seq(Sound) /\ blocks[2] \in Seq(Sound) /\ blocks[3] \in Seq(Sound)
      /\ blocks[4] \in Seq(Sound) /\ blocks[5] \in Seq(Sound)
  OBVIOUS
<1>5. s[0] \in Seq(Sound) /\ s[1] \in Seq(Sound)
  BY <1>1, <1>3, <1>4
<1>6. s[2] \in Seq(Sound)
  BY <1>3, <1>4, <1>5
<1>7. s[3] \in Seq(Sound)
  BY <1>3, <1>4, <1>6
<1>8. s[4] \in Seq(Sound)
  BY <1>3, <1>4, <1>7
<1>9. s[5] \in Seq(Sound)
  BY <1>3, <1>4, <1>8
<1>10. \A t, u, v \in Seq(Sound) : (t \o u) \o v = t \o (u \o v) /\ u \o v \in Seq(Sound)
  <2>1. \A t, u, v \in Seq(Sound) : (t \o u) \o v = t \o (u \o v)
    BY SoundAssociative
  <2>2. \A u, v \in Seq(Sound) : u \o v \in Seq(Sound)
    OBVIOUS
  <2> QED BY <2>1, <2>2
<1>11. \E post \in Seq(Sound) : s[5] = s[5] \o post
  <2>1. s[5] = s[5] \o <<>>
    BY <1>9, ConcatEmptySeq
  <2>2. <<>> \in Seq(Sound)
    OBVIOUS
  <2> QED BY <2>1, <2>2, Zenon
<1>12. \E post \in Seq(Sound) : s[5] = s[4] \o post
  BY <1>3, <1>4, Zenon
<1>13. \E post \in Seq(Sound) : s[5] = s[3] \o post
  <2>1. PICK post \in Seq(Sound) : s[5] = s[4] \o post
    BY <1>12
  <2>2. blocks[4] \o post \in Seq(Sound)
    BY <1>4, <1>10, <2>1
  <2>3. (s[3] \o blocks[4]) \o post = s[3] \o (blocks[4] \o post)
    BY <1>4, <1>7, <1>10, <2>1, Zenon
  <2>4. s[5] = s[3] \o (blocks[4] \o post)
    BY <1>3, <2>1, <2>3, Zenon
  <2> QED BY <2>2, <2>4, Zenon
<1>14. \E post \in Seq(Sound) : s[5] = s[2] \o post
  <2>1. PICK post \in Seq(Sound) : s[5] = s[3] \o post
    BY <1>13
  <2>2. blocks[3] \o post \in Seq(Sound)
    BY <1>4, <1>10, <2>1
  <2>3. (s[2] \o blocks[3]) \o post = s[2] \o (blocks[3] \o post)
    BY <1>4, <1>6, <1>10, <2>1, Zenon
  <2>4. s[5] = s[2] \o (blocks[3] \o post)
    BY <1>3, <2>1, <2>3, Zenon
  <2> QED BY <2>2, <2>4, Zenon
<1>15. \E post \in Seq(Sound) : s[5] = s[1] \o post
  <2>1. PICK post \in Seq(Sound) : s[5] = s[2] \o post
    BY <1>14
  <2>2. blocks[2] \o post \in Seq(Sound)
    BY <1>4, <1>10, <2>1
  <2>3. (s[1] \o blocks[2]) \o post = s[1] \o (blocks[2] \o post)
    <3>1. s[1] \in Seq(Sound) /\ blocks[2] \in Seq(Sound) /\ post \in Seq(Sound)
      BY <1>4, <1>5, <2>1
    <3> QED BY <1>10, <3>1, Zenon
  <2>4. s[5] = s[1] \o (blocks[2] \o post)
    BY <1>3, <2>1, <2>3, Zenon
  <2> QED BY <2>2, <2>4, Zenon
<1>16. ASSUME NEW n \in 1 .. 5 PROVE InStack(blocks, s, n)
  <2>1. s[n] = s[n - 1] \o blocks[n]
    BY <1>2
  <2>2. n - 1 = 0 \/ n - 1 = 1 \/ n - 1 = 2 \/ n - 1 = 3 \/ n - 1 = 4
    OBVIOUS
  <2>3. s[n - 1] \in Seq(Sound)
    BY <1>5, <1>6, <1>7, <1>8, <2>2
  <2>4. n = 1 \/ n = 2 \/ n = 3 \/ n = 4 \/ n = 5
    OBVIOUS
  <2>5. \E post \in Seq(Sound) : s[5] = s[n] \o post
    BY <1>11, <1>12, <1>13, <1>14, <1>15, <2>4, Zenon
  <2> QED BY <2>1, <2>3, <2>5 DEF InStack
<1> QED BY <1>16

LEMMA CodedFive ==
    ASSUME NEW op \in FiveBlocks, NEW blocks, NEW parts, DOMAIN parts = 1 .. 5,
           \A n \in 1 .. 5 : Coded(blocks[n], parts[n])
    PROVE  Coded(Push5Block(op, blocks), Node(op, "unknown", 0, parts))
<1> DEFINE s == CHOOSE f : Stacking(blocks, 5, f)
           more == [n \in 1 .. 5 |-> [offset |-> 1 + Len(s[n - 1]), size |-> Len(blocks[n])]]
           h == [op |-> op, type |-> "unknown", value |-> 0, opSize |-> 1 + Len(s[5]), more |-> more]
<1>1. Stacking(blocks, 5, s)
  BY StackingExists
<1>2. Push5Block(op, blocks) = <<h>> \o s[5]
  BY DEF Push5Block, Code, Stacking
<1> HIDE DEF s
<1>3. \A n \in 1 .. 5 : blocks[n] \in Seq(Sound) /\ blocks[n] \in Seq(Cell)
  BY SoundCells DEF Coded
<1>4. \A n \in 1 .. 5 : InStack(blocks, s, n)
  <2>1. \A n \in 1 .. 5 : blocks[n] \in Seq(Sound)
    BY <1>3
  <2> QED BY <1>1, <2>1, Stacked
<1>5. s[5] \in Seq(Sound)
  <2>1. InStack(blocks, s, 1) /\ blocks[1] \in Seq(Sound)
    BY <1>3, <1>4
  <2>2. PICK post \in Seq(Sound) : s[5] = (s[1 - 1] \o blocks[1]) \o post
    BY <2>1 DEF InStack
  <2>3. s[1 - 1] \in Seq(Sound)
    BY <2>1 DEF InStack
  <2> QED BY <2>1, <2>2, <2>3
<1>6. h \in Sound /\ Blocks(h) = more /\ h.opSize = 1 + Len(s[5])
  <2>1. more \in Seq(Place)
    <3>1. ASSUME NEW n \in 1 .. 5 PROVE more[n] \in Place
      <4>1. Len(s[n - 1]) \in Nat /\ Len(blocks[n]) \in Nat
        BY <1>3, <1>4 DEF InStack
      <4> QED BY <4>1 DEF Place
    <3>2. more = [n \in 1 .. 5 |-> more[n]]
      OBVIOUS
    <3> HIDE DEF more
    <3> QED BY <3>1, <3>2
  <2>2. Len(s[5]) \in Nat
    BY <1>5
  <2> HIDE DEF more
  <2>3. op \in WithBlocks /\ op # "Negate" /\ op # "Constant"
    <3>1. op \in WithBlocks
      BY DEF WithBlocks
    <3> QED BY <3>1 DEF FiveBlocks
  <2>4. h \in Cell
    BY <2>1, <2>2, <2>3 DEF Cell
  <2> QED BY <2>3, <2>4 DEF Sound, Short, Blocks
<1>7. PartsFound(h, s[5], parts)
  <2>1. DOMAIN parts = DOMAIN Blocks(h)
    BY <1>6
  <2>2. ASSUME NEW n \in DOMAIN parts PROVE Meaning(parts[n])
    BY DEF Coded
  <2>3. ASSUME NEW n \in DOMAIN parts, NEW b \in Seq(Cell)
        PROVE  LET x == Block((<<h>> \o s[5]) \o b, Blocks(h)[n])
               IN x \in Seq(Cell) /\ Len(x) <= Len(s[5]) /\ Means(x, parts[n])
    <3>1. Blocks(h)[n] = [offset |-> 1 + Len(s[n - 1]), size |-> Len(blocks[n])]
      BY <1>6
    <3>2. PICK post \in Seq(Sound) : s[5] = (s[n - 1] \o blocks[n]) \o post
      BY <1>4 DEF InStack
    <3>3. /\ s[n - 1] \in Seq(Cell) /\ blocks[n] \in Seq(Cell) /\ post \in Seq(Cell) /\ h \in Cell
      BY <1>3, <1>4, <1>6, SoundCells DEF Sound, InStack
    <3> HIDE DEF h
    <3>4. Block((<<h>> \o ((s[n - 1] \o blocks[n]) \o post)) \o b,
                [offset |-> 1 + Len(s[n - 1]), size |-> Len(blocks[n])]) = blocks[n]
      BY <3>3, BlockFound
    <3>5. Len(blocks[n]) <= Len(s[5])
      <4>1. \A u, v, w \in Seq(Cell) : Len(v) <= Len((u \o v) \o w)
        OBVIOUS
      <4> QED BY <3>2, <3>3, <4>1, Zenon
    <3>6. Means(blocks[n], parts[n])
      BY DEF Coded
    <3>7. Block((<<h>> \o s[5]) \o b, Blocks(h)[n]) = blocks[n]
      BY <3>1, <3>2, <3>4, Zenon
    <3> QED BY <3>3, <3>5, <3>6, <3>7
  <2> HIDE DEF h
  <2> QED BY <2>1, <2>2, <2>3 DEF PartsFound
<1>8. h.op = op /\ h.type = "unknown" /\ h.value = 0
  OBVIOUS
<1> HIDE DEF h
<1>9. Coded(<<h>> \o s[5], Node(h.op, h.type, h.value, parts))
  BY <1>5, <1>6, <1>7, CodedCode
<1> QED BY <1>2, <1>8, <1>9

LEMMA PairOf ==
    ASSUME NEW S, NEW a \in S, NEW b \in S
    PROVE  <<a>> \o <<b>> = <<a, b>>
<1>1. /\ <<a>> \in Seq(S) /\ <<b>> \in Seq(S) /\ <<a, b>> \in Seq(S)
      /\ Len(<<a>>) = 1 /\ Len(<<b>>) = 1 /\ Len(<<a, b>>) = 2
      /\ <<a>>[1] = a /\ <<b>>[1] = b /\ <<a, b>>[1] = a /\ <<a, b>>[2] = b
  OBVIOUS
<1> DEFINE u == <<a>>
           v == <<b>>
           w == <<a, b>>
<1> HIDE DEF u, v, w
<1>2. u \in Seq(S) /\ v \in Seq(S) /\ w \in Seq(S) /\ Len(u) = 1 /\ Len(v) = 1 /\ Len(w) = 2
      /\ u[1] = w[1] /\ v[1] = w[2]
  BY <1>1 DEF u, v, w
<1>3. u \o v \in Seq(S) /\ Len(u \o v) = 2 /\ (u \o v)[1] = u[1] /\ (u \o v)[2] = v[1]
  <2>1. u \in Seq(S) /\ v \in Seq(S)
    BY <1>2
  <2>2. u \o v \in Seq(S) /\ Follows(u \o v, u, v)
    BY <2>1, ConcatFacts DEF Follows
  <2>3. Len(u) = 1 /\ Len(v) = 1
    BY <1>2
  <2> QED BY <2>2, <2>3 DEF Follows
<1>4. \A k \in 1 .. 2 : (u \o v)[k] = w[k]
  BY <1>2, <1>3
<1>5. u \o v = w
  BY <1>2, <1>3, <1>4, SeqEqual
<1> QED BY <1>5 DEF u, v, w

(* A logical operation, with its right side behind its left. *)
LEMMA CodedLogical ==
    ASSUME NEW op \in {"LogicalAND", "LogicalOR"}, NEW lhs, NEW rhs, NEW l, NEW r,
           Coded(lhs, l), Coded(rhs, r)
    PROVE  Coded(PushLogicalOp(op, lhs, rhs), Node(op, "int", 0, <<l, r>>))
<1> DEFINE first == [offset |-> 1, size |-> Len(lhs)]
           second == [offset |-> 1 + Len(lhs), size |-> Len(rhs)]
           more == <<first, second>>
           behind == lhs \o rhs
           h == [op |-> op, type |-> "int", value |-> 0, opSize |-> 1 + Len(behind), more |-> more]
<1>1. PushLogicalOp(op, lhs, rhs) = <<h>> \o behind
  <2>1. first \in Place /\ second \in Place
    BY DEF Place, Coded
  <2> HIDE DEF first, second
  <2>2. <<first>> \o <<second>> = more
    BY <2>1, PairOf, Zenon
  <2> QED BY <2>2 DEF PushLogicalOp, Code, Data, first, second
<1>2. /\ lhs \in Seq(Sound) /\ rhs \in Seq(Sound) /\ lhs \in Seq(Cell) /\ rhs \in Seq(Cell)
      /\ Len(lhs) \in Nat /\ Len(rhs) \in Nat /\ behind \in Seq(Sound)
      /\ Len(behind) = Len(lhs) + Len(rhs) /\ <<>> \in Seq(Cell)
  <2>1. lhs \in Seq(Sound) /\ rhs \in Seq(Sound)
    BY DEF Coded
  <2> QED BY <2>1, SoundCells
<1>3. h \in Sound /\ Blocks(h) = more
  <2>1. more \in Seq(Place)
    BY <1>2 DEF Place
  <2>2. Len(behind) \in Nat
    BY <1>2
  <2> HIDE DEF more, behind
  <2>3. op \in WithBlocks /\ op # "Negate" /\ op # "Constant"
    <3>1. op \in WithBlocks
      BY DEF WithBlocks, CaseOps
    <3> QED BY <3>1
  <2>4. h \in Cell
    BY <2>1, <2>2, <2>3 DEF Cell
  <2> QED BY <2>3, <2>4 DEF Sound, Short, Blocks
<1>4. h.op = op /\ h.type = "int" /\ h.value = 0 /\ h.opSize = 1 + Len(behind)
  OBVIOUS
<1>5. h \in Cell
  BY <1>3 DEF Sound
<1>6. PartsFound(h, behind, <<l, r>>)
  <2> HIDE DEF h
  <2>1. DOMAIN <<l, r>> = {1, 2} /\ DOMAIN Blocks(h) = {1, 2} /\ <<l, r>>[1] = l /\ <<l, r>>[2] = r
        /\ Blocks(h)[1] = first /\ Blocks(h)[2] = second
    BY <1>3
  <2>2. ASSUME NEW b \in Seq(Cell)
        PROVE  Block((<<h>> \o behind) \o b, first) = lhs
    <3>1. Block((<<h>> \o ((<<>> \o lhs) \o rhs)) \o b, [offset |-> 1 + Len(<<>>), size |-> Len(lhs)]) = lhs
      <4>1. \A pre \in Seq(Cell) :
              Block((<<h>> \o ((pre \o lhs) \o rhs)) \o b, [offset |-> 1 + Len(pre), size |-> Len(lhs)]) = lhs
        BY <1>2, <1>5, BlockFound
      <4> QED BY <1>2, <4>1, Zenon
    <3>2. <<>> \o lhs = lhs
      BY <1>2, ConcatEmptySeq
    <3>3. [offset |-> 1 + Len(<<>>), size |-> Len(lhs)] = first
      OBVIOUS
    <3> QED BY <3>1, <3>2, <3>3
  <2>3. ASSUME NEW b \in Seq(Cell)
        PROVE  Block((<<h>> \o behind) \o b, second) = rhs
    <3>1. Block((<<h>> \o ((lhs \o rhs) \o <<>>)) \o b, [offset |-> 1 + Len(lhs), size |-> Len(rhs)]) = rhs
      <4>1. \A post \in Seq(Cell) :
              Block((<<h>> \o ((lhs \o rhs) \o post)) \o b, [offset |-> 1 + Len(lhs), size |-> Len(rhs)]) = rhs
        BY <1>2, <1>5, BlockFound
      <4> QED BY <1>2, <4>1, Zenon
    <3>2. (lhs \o rhs) \o <<>> = lhs \o rhs
      BY <1>2, ConcatEmptySeq
    <3> QED BY <3>1, <3>2
  <2>4. Meaning(l) /\ Meaning(r) /\ Means(lhs, l) /\ Means(rhs, r)
    BY DEF Coded
  <2>5. Len(lhs) <= Len(behind) /\ Len(rhs) <= Len(behind)
    BY <1>2
  <2> HIDE DEF behind, first, second
  <2> QED BY <1>2, <2>1, <2>2, <2>3, <2>4, <2>5 DEF PartsFound
<1> HIDE DEF h, behind
<1>7. Coded(<<h>> \o behind, Node(h.op, h.type, h.value, <<l, r>>))
  BY <1>2, <1>3, <1>4, <1>6, CodedCode
<1> QED BY <1>1, <1>4, <1>7

-----------------------------------------------------------------------------
(* Each code that is pushed means its node. *)
Types == {"int", "float", "string", "object", "unknown", "none"}

LEMMA HeadSound ==
    ASSUME NEW op \in WithBlocks, NEW type \in Types, NEW value \in Int, NEW size \in Nat,
           NEW more \in Seq(Place)
    PROVE  LET h == [op |-> op, type |-> type, value |-> value, opSize |-> 1 + size, more |-> more]
           IN h \in Sound /\ Blocks(h) = more
<1> DEFINE h == [op |-> op, type |-> type, value |-> value, opSize |-> 1 + size, more |-> more]
<1>1. h \in Cell
  BY DEF Cell, Types
<1>2. op # "Negate" /\ op # "Constant"
  BY DEF WithBlocks, Assignments, FiveBlocks, DataOps, CaseOps
<1>3. h.op = op /\ h.more = more
  OBVIOUS
<1> HIDE DEF h
<1>4. h \in Sound
  BY <1>1, <1>2, <1>3 DEF Sound, Short
<1>5. Blocks(h) = more
  BY <1>3 DEF Blocks
<1> QED BY <1>4, <1>5 DEF h

LEMMA BareSound ==
    ASSUME NEW op \in {"Constant", "Variable", "Negate", "Add", "Line"}, NEW type \in Types,
           NEW value \in Int, NEW size \in Nat, size = 0 \/ (op = "Constant" /\ type = "string")
    PROVE  LET h == [op |-> op, type |-> type, value |-> value, opSize |-> 1 + size, more |-> <<>>]
           IN h \in Sound /\ Blocks(h) = <<>>
<1> DEFINE h == [op |-> op, type |-> type, value |-> value, opSize |-> 1 + size, more |-> <<>>]
<1>1. h \in Cell
  <2>1. <<>> \in Seq(Place)
    OBVIOUS
  <2> QED BY <2>1 DEF Cell, Types
<1>2. op \notin WithBlocks
  BY DEF WithBlocks, Assignments, FiveBlocks, DataOps, CaseOps
<1>3. h.op = op /\ h.type = type /\ h.opSize = 1 + size
  OBVIOUS
<1> HIDE DEF h
<1>4. h \in Sound
  BY <1>1, <1>3 DEF Sound, Short
<1>5. Blocks(h) = <<>>
  BY <1>2, <1>3 DEF Blocks
<1> QED BY <1>4, <1>5 DEF h

LEMMA CodedSimple ==
    ASSUME NEW op \in {"Constant", "Variable", "Negate", "Add", "Line"}, NEW type \in Types,
           NEW value \in Int
    PROVE  Coded(Simple(op, type, value), Node(op, type, value, <<>>))
<1> DEFINE h == [op |-> op, type |-> type, value |-> value, opSize |-> 1 + Len(<<>>), more |-> <<>>]
<1>1. h \in Sound /\ Blocks(h) = <<>>
  <2>1. Len(<<>>) \in Nat /\ Len(<<>>) = 0
    OBVIOUS
  <2> QED BY <2>1, BareSound
<1>2. h.op = op /\ h.type = type /\ h.value = value /\ h.opSize = 1 + Len(<<>>)
  OBVIOUS
<1>3. Simple(op, type, value) = <<h>> \o <<>>
  BY DEF Simple, Code
<1>4. <<>> \in Seq(Sound)
  OBVIOUS
<1> HIDE DEF h
<1>5. Coded(<<h>> \o <<>>, Node(h.op, h.type, h.value, <<>>))
  BY <1>1, <1>2, <1>4, CodedBare
<1> QED BY <1>2, <1>3, <1>5

LEMMA TextSound ==
    ASSUME NEW length \in Nat
    PROVE  Text(length) \in Seq(Sound) /\ Len(Text(length)) = length
<1>1. Character \in Sound
  <2>1. <<>> \in Seq(Place)
    OBVIOUS
  <2> QED BY <2>1 DEF Character, Sound, Cell, Short
<1> QED BY <1>1 DEF Text

LEMMA CodedText ==
    ASSUME NEW n \in Nat
    PROVE  Coded(PushConstantText("string", n), Node("Constant", "string", n, <<>>))
<1> DEFINE behind == Text(n)
           h == [op |-> "Constant", type |-> "string", value |-> n, opSize |-> 1 + Len(behind), more |-> <<>>]
<1>1. behind \in Seq(Sound) /\ Len(behind) \in Nat
  BY TextSound
<1>2. PushConstantText("string", n) = <<h>> \o behind
  BY DEF PushConstantText, Code
<1> HIDE DEF behind
<1>3. h \in Sound /\ Blocks(h) = <<>>
  <2>1. "string" \in Types /\ n \in Int
    BY DEF Types
  <2> QED BY <1>1, <2>1, BareSound
<1>4. h.op = "Constant" /\ h.type = "string" /\ h.value = n /\ h.opSize = 1 + Len(behind)
  OBVIOUS
<1> HIDE DEF h
<1>5. Coded(<<h>> \o behind, Node(h.op, h.type, h.value, <<>>))
  BY <1>1, <1>3, <1>4, CodedBare
<1> QED BY <1>2, <1>4, <1>5

(* A code around data, behind a name. *)
LEMMA CodedNamed ==
    ASSUME NEW op \in WithBlocks, NEW type \in Types, NEW value \in Int, NEW pre \in Seq(Sound),
           NEW data, NEW m, Coded(data, m)
    PROVE  Coded(Code(op, type, value, Data(1 + Len(pre), data), pre \o data),
                 Node(op, type, value, <<m>>))
<1> DEFINE behind == pre \o data
           more == <<[offset |-> 1 + Len(pre), size |-> Len(data)]>>
           h == [op |-> op, type |-> type, value |-> value, opSize |-> 1 + Len(behind), more |-> more]
<1>1. data \in Seq(Sound) /\ Len(pre) \in Nat /\ Len(data) \in Nat /\ Len(behind) \in Nat
  BY DEF Coded
<1>2. Code(op, type, value, Data(1 + Len(pre), data), pre \o data) = <<h>> \o behind
  BY DEF Code, Data
<1>3. more \in Seq(Place)
  BY <1>1 DEF Place
<1>4. h.op = op /\ h.type = type /\ h.value = value /\ h.opSize = 1 + Len(behind)
  OBVIOUS
<1> HIDE DEF more
<1>5. h \in Sound /\ Blocks(h) = more
  <2> HIDE DEF behind
  <2> QED BY <1>1, <1>3, HeadSound
<1> HIDE DEF h
<1>6. Coded(<<h>> \o (pre \o data), Node(h.op, h.type, h.value, <<m>>))
  BY <1>4, <1>5, CodedAround DEF more
<1> QED BY <1>2, <1>4, <1>6

LEMMA CodedData ==
    ASSUME NEW op \in WithBlocks, NEW type \in Types, NEW value \in Int, NEW data, NEW m, Coded(data, m)
    PROVE  Coded(Code(op, type, value, Data(1, data), data), Node(op, type, value, <<m>>))
<1>1. <<>> \in Seq(Sound) /\ 1 + Len(<<>>) = 1
  OBVIOUS
<1>2. <<>> \o data = data
  <2>1. data \in Seq(Sound)
    BY DEF Coded
  <2> QED BY <2>1, ConcatEmptySeq
<1>3. \A pre \in Seq(Sound) :
        Coded(Code(op, type, value, Data(1 + Len(pre), data), pre \o data), Node(op, type, value, <<m>>))
  BY CodedNamed
<1>4. Coded(Code(op, type, value, Data(1 + Len(<<>>), data), <<>> \o data), Node(op, type, value, <<m>>))
  BY <1>1, <1>3, Zenon
<1> QED BY <1>1, <1>2, <1>4

-----------------------------------------------------------------------------
(* A negated constant is one of data just when it is one of what it means, *)
(* and its simplification means the constant. *)
LEMMA CodedEmpty ==
    ASSUME NEW m, Coded(<<>>, m)
    PROVE  m = Nothing
<1>1. PICK s : Visiting(0, s)
  BY VisitingExists
<1>2. <<>> \in Seq(Cell) /\ Len(<<>>) = 0 /\ 0 \in 0 .. 0 /\ 0 \in Nat
  OBVIOUS
<1>3. s[0][<<>>] = Nothing
  BY <1>1, <1>2, VisitingFacts
<1>4. \A n \in Len(<<>>) .. 0 : s[n][<<>>] = m
  <2>1. Meaning(m) /\ Means(<<>>, m)
    BY DEF Coded
  <2>2. \A data \in Seq(Cell) : Means(data, m) => \A n \in Len(data) .. 0 : s[n][data] = m
    BY <1>1, <1>2, <2>1, MeansAll
  <2> QED BY <1>2, <2>1, <2>2, Zenon
<1> QED BY <1>2, <1>3, <1>4

LEMMA RestFacts ==
    ASSUME NEW data \in Seq(Sound), data # <<>>, data[1].opSize <= Len(data)
    PROVE  /\ data[1] \in Sound /\ data[1].opSize \in Nat \ {0} /\ Len(data) \in Nat \ {0}
           /\ Rest(data) \in Seq(Sound) /\ Len(Rest(data)) = Len(data) - data[1].opSize
           /\ \A k \in 1 .. Len(Rest(data)) : Rest(data)[k] = data[data[1].opSize + k]
<1>1. data[1] \in Sound /\ Len(data) \in Nat \ {0}
  OBVIOUS
<1>2. data[1].opSize \in Nat \ {0}
  BY <1>1 DEF Sound, Cell
<1> DEFINE size == data[1].opSize
           r == SubSeq(data, size + 1, Len(data))
<1>3. Rest(data) = r
  BY DEF Rest
<1>4. size \in Nat \ {0} /\ size <= Len(data)
  BY <1>2
<1> HIDE DEF size
<1>5. r \in Seq(Sound) /\ Len(r) = Len(data) - size
  BY <1>1, <1>4
<1>6. ASSUME NEW k \in 1 .. Len(r) PROVE r[k] = data[size + k]
  BY <1>1, <1>4, <1>5
<1> HIDE DEF r
<1> QED BY <1>1, <1>2, <1>3, <1>5, <1>6 DEF size

(* What Plain asks of a tree. *)
NegatedTree(t) == /\ Len(t) = 2 /\ t[1].op = "Constant" /\ t[2].op = "Negate"
                  /\ t[1].type \in {"int", "float"}

LEMMA NegatedAgree ==
    ASSUME NEW d, NEW m, Coded(d, m), d # <<>>
    PROVE  /\ Negated(d) <=> NegatedTree(m.tree)
           /\ m.tree[1].type = d[1].type /\ m.tree[1].value = d[1].value
<1>1. d \in Seq(Sound) /\ d[1].opSize <= Len(d)
  BY DEF Coded
<1>2. PICK r : /\ Len(r) \in Nat /\ Len(m.tree) = 1 + Len(r)
               /\ m.tree[1].op = d[1].op /\ m.tree[1].type = d[1].type
               /\ m.tree[1].value = d[1].value
               /\ \A k \in 1 .. Len(r) : m.tree[1 + k] = r[k]
               /\ Rest(d) \in Seq(Cell) /\ (Rest(d) = <<>> => Len(r) = 0)
               /\ Rest(d) # <<>> =>
                    /\ r[1].op = Rest(d)[1].op
                    /\ Rest(Rest(d)) = <<>> => Len(r) = 1
                    /\ Rest(Rest(d)) # <<>> => Len(r) > 1
                    /\ Len(r) > 0
  BY CodedTree
<1>3. /\ d[1] \in Sound /\ d[1].opSize \in Nat \ {0} /\ Len(d) \in Nat \ {0}
      /\ Rest(d) \in Seq(Sound) /\ Len(Rest(d)) = Len(d) - d[1].opSize
      /\ \A k \in 1 .. Len(Rest(d)) : Rest(d)[k] = d[d[1].opSize + k]
  BY <1>1, RestFacts
<1>4. ASSUME Rest(d) # <<>>, d[1].opSize = 1, Rest(d)[1].op = "Negate"
      PROVE  /\ Len(d) >= 2 /\ Rest(d)[1] = d[2] /\ Len(Rest(d)) = Len(d) - 1
             /\ Rest(Rest(d)) = <<>> <=> Len(d) = 2
  <2>1. Len(Rest(d)) \in Nat \ {0} /\ Len(Rest(d)) = Len(d) - 1
    BY <1>3, <1>4
  <2>2. Rest(d)[1] = d[2] /\ Len(d) >= 2
    BY <1>3, <1>4, <2>1
  <2>3. Rest(d)[1] \in Sound
    BY <1>3, <1>4
  <2>4. Rest(d)[1].opSize = 1
    BY <1>4, <2>3 DEF Sound, Short
  <2>5. Rest(Rest(d)) \in Seq(Sound) /\ Len(Rest(Rest(d))) = Len(Rest(d)) - 1
    BY <1>3, <1>4, <2>1, <2>4, RestFacts
  <2>6. Len(d) \in Nat
    BY <1>3
  <2>7. Rest(Rest(d)) = <<>> <=> Len(Rest(Rest(d))) = 0
    <3>1. \A t \in Seq(Sound) : t = <<>> <=> Len(t) = 0
      OBVIOUS
    <3> QED BY <2>5, <3>1
  <2> QED BY <2>1, <2>2, <2>5, <2>6, <2>7
<1>5. ASSUME Negated(d) PROVE NegatedTree(m.tree)
  <2>1. Len(d) = 2 /\ d[1].op = "Constant" /\ d[1].type \in {"int", "float"} /\ d[2].op = "Negate"
    BY <1>5 DEF Negated
  <2>2. d[1].opSize = 1
    BY <1>3, <2>1 DEF Sound, Short
  <2>3. Len(Rest(d)) = 1 /\ Rest(d) # <<>>
    <3>1. Len(Rest(d)) = Len(d) - d[1].opSize
      BY <1>3
    <3>2. Len(Rest(d)) = 1
      BY <2>1, <2>2, <3>1
    <3> QED BY <3>2
  <2>4. Rest(d)[1] = d[2]
    BY <1>3, <2>2, <2>3
  <2>5. Rest(Rest(d)) = <<>>
    BY <1>4, <2>1, <2>2, <2>3, <2>4
  <2>6. Len(r) = 1 /\ r[1].op = "Negate"
    BY <1>2, <2>1, <2>3, <2>4, <2>5
  <2>7. m.tree[2] = r[1]
    <3>1. m.tree[1 + 1] = r[1]
      BY <1>2, <2>6
    <3> QED BY <3>1
  <2> QED BY <1>2, <2>1, <2>6, <2>7 DEF NegatedTree
<1>6. ASSUME NegatedTree(m.tree) PROVE Negated(d)
  <2>1. /\ Len(m.tree) = 2 /\ d[1].op = "Constant" /\ d[1].type \in {"int", "float"}
        /\ m.tree[2].op = "Negate"
    BY <1>2, <1>6 DEF NegatedTree
  <2>2. d[1].opSize = 1
    BY <1>3, <2>1 DEF Sound, Short
  <2>3. Len(r) = 1
    <3>1. Len(r) \in Nat /\ Len(m.tree) = 1 + Len(r)
      BY <1>2
    <3>2. Len(m.tree) = 2
      BY <2>1
    <3>3. \A k \in Nat : 2 = 1 + k => k = 1
      OBVIOUS
    <3> QED BY <3>1, <3>2, <3>3, Zenon
  <2>4. Rest(d) # <<>> /\ Rest(Rest(d)) = <<>> /\ r[1].op = Rest(d)[1].op
    BY <1>2, <2>3
  <2>5. m.tree[1 + 1] = r[1]
    BY <1>2, <2>3
  <2>6. Rest(d)[1].op = "Negate"
    BY <2>1, <2>4, <2>5
  <2> QED BY <1>4, <2>1, <2>2, <2>4, <2>6 DEF Negated
<1> QED BY <1>2, <1>5, <1>6

LEMMA CodedSimplify ==
    ASSUME NEW d, NEW m, Coded(d, m)
    PROVE  Coded(NscSimplifyConstant(d), Plain(m))
<1>1. Plain(m) = IF NegatedTree(m.tree)
                 THEN Node("Constant", m.tree[1].type, -m.tree[1].value, <<>>) ELSE m
  BY DEF Plain, NegatedTree
<1>2. CASE d = <<>>
  <2>1. m = Nothing
    BY <1>2, CodedEmpty
  <2>2. ~NegatedTree(m.tree) /\ ~Negated(d)
    BY <1>2, <2>1 DEF NegatedTree, Negated, Nothing
  <2> QED BY <1>1, <2>2 DEF NscSimplifyConstant
<1>3. CASE d # <<>> /\ ~Negated(d)
  <2>1. ~NegatedTree(m.tree)
    BY <1>3, NegatedAgree
  <2> QED BY <1>1, <1>3, <2>1 DEF NscSimplifyConstant
<1>4. CASE d # <<>> /\ Negated(d)
  <2>1. NegatedTree(m.tree) /\ m.tree[1].type = d[1].type /\ m.tree[1].value = d[1].value
    BY <1>4, NegatedAgree
  <2>2. d[1] \in Sound
    <3>1. d \in Seq(Sound)
      BY DEF Coded
    <3> QED BY <1>4, <3>1
  <2>3. d[1].op = "Constant" /\ d[1].type \in {"int", "float"}
    BY <1>4 DEF Negated
  <2>4. d[1].opSize = 1 /\ d[1].value \in Int /\ d[1] \in Cell
    BY <2>2, <2>3 DEF Sound, Short, Cell
  <2> DEFINE h == [d[1] EXCEPT !.value = -@]
  <2>5. NscSimplifyConstant(d) = <<h>>
    BY <1>4 DEF NscSimplifyConstant
  <2>6. h \in Cell /\ h.op = "Constant" /\ h.type = d[1].type /\ h.value = -d[1].value /\ h.opSize = 1
    BY <2>3, <2>4 DEF Cell
  <2> HIDE DEF h
  <2>7. h \in Sound
    BY <2>6 DEF Sound
  <2>8. Blocks(h) = <<>>
    BY <2>6 DEF Blocks, WithBlocks, Assignments, FiveBlocks, DataOps, CaseOps
  <2>9. <<>> \in Seq(Sound) /\ h.opSize = 1 + Len(<<>>)
    BY <2>6
  <2>10. Coded(<<h>> \o <<>>, Node(h.op, h.type, h.value, <<>>))
    BY <2>7, <2>8, <2>9, CodedBare
  <2>11. <<h>> \o <<>> = <<h>>
    <3>1. <<h>> \in Seq(Sound)
      BY <2>7
    <3> QED BY <3>1, ConcatEmptySeq
  <2> QED BY <1>1, <2>1, <2>5, <2>6, <2>10, <2>11
<1> QED BY <1>2, <1>3, <1>4

(* A lone code is known by its size. *)
LEMMA SimpleAgrees ==
    ASSUME NEW d, NEW m, Coded(d, m), NEW op
    PROVE  /\ IsSimple(d, op) <=> Len(m.tree) = 1 /\ m.tree[1].op = op
           /\ IsSimple(d, op) => m.tree[1].value = d[1].value
<1>1. CASE d = <<>>
  <2>1. m.tree = <<>>
    BY <1>1, CodedEmpty DEF Nothing
  <2> QED BY <1>1, <2>1 DEF IsSimple
<1>2. CASE d # <<>>
  <2>1. d \in Seq(Sound) /\ d[1].opSize <= Len(d)
    BY <1>2 DEF Coded
  <2>2. PICK r : /\ Len(r) \in Nat /\ Len(m.tree) = 1 + Len(r)
                 /\ m.tree[1].op = d[1].op /\ m.tree[1].type = d[1].type
                 /\ m.tree[1].value = d[1].value
                 /\ \A k \in 1 .. Len(r) : m.tree[1 + k] = r[k]
                 /\ Rest(d) \in Seq(Cell) /\ (Rest(d) = <<>> => Len(r) = 0)
                 /\ Rest(d) # <<>> =>
                      /\ r[1].op = Rest(d)[1].op
                      /\ Rest(Rest(d)) = <<>> => Len(r) = 1
                      /\ Rest(Rest(d)) # <<>> => Len(r) > 1
                      /\ Len(r) > 0
    BY <1>2, CodedTree
  <2>3. /\ d[1].opSize \in Nat \ {0} /\ Len(d) \in Nat \ {0}
        /\ Rest(d) \in Seq(Sound) /\ Len(Rest(d)) = Len(d) - d[1].opSize
    BY <1>2, <2>1, RestFacts
  <2>4. Rest(d) = <<>> <=> d[1].opSize = Len(d)
    BY <2>3
  <2>5. Rest(d) = <<>> <=> Len(m.tree) = 1
    BY <2>2
  <2> QED BY <1>2, <2>2, <2>4, <2>5 DEF IsSimple
<1> QED BY <1>1, <1>2

-----------------------------------------------------------------------------
(* Every entry has what it means, within its memory. *)
Entered(r) ==
    /\ r = [data |-> r.data, alloc |-> r.alloc, means |-> r.means]
    /\ r.alloc \in Nat \ {0} /\ Len(r.data) <= r.alloc /\ Coded(r.data, r.means)

PStackInv ==
    /\ allocated \subseteq PStackEntries /\ reserve \in Seq(PStackEntries)
    /\ entries = [e \in PStackEntries |-> entries[e]]
    /\ \A e \in PStackEntries : Entered(entries[e])

LEMMA PStackInitStep == PStackInit => PStackInv
<1> SUFFICES ASSUME PStackInit PROVE PStackInv
  OBVIOUS
<1>1. reserve \in Seq(PStackEntries)
  <2>1. Cardinality(PStackEntries) \in Nat
    BY FS_CardinalityType, PStackAssumption
  <2> QED BY <2>1 DEF PStackInit
<1>2. Entered(Fresh)
  <2>1. Len(<<>>) = 0
    OBVIOUS
  <2> QED BY <2>1, CodedNothing, PStackAssumption DEF Entered, Fresh
<1>3. entries = [e \in PStackEntries |-> Fresh] /\ allocated = {}
  BY DEF PStackInit
<1> QED BY <1>1, <1>2, <1>3 DEF PStackInv

LEMMA PushStep ==
    ASSUME PStackInv, NEW e \in PStackEntries, NEW code, NEW m, Coded(code, m), Push(e, code, m)
    PROVE  PStackInv'
<1> DEFINE r == entries[e]
           size == Len(r.data) + Len(code)
           new == [data |-> r.data \o code, alloc |-> MakeRoom(r.alloc, size),
                   means |-> Joined(r.means, m)]
<1>1. Entered(r)
  BY DEF PStackInv
<1>2. entries' = [entries EXCEPT ![e] = new] /\ allocated' = allocated /\ reserve' = reserve
  BY DEF Push
<1>3. r.data \in Seq(Sound) /\ code \in Seq(Sound)
  BY <1>1 DEF Entered, Coded
<1>4. size \in Nat /\ Len(r.data \o code) = size
  BY <1>3
<1>5. Entered(new)
  <2>1. r.alloc \in Nat \ {0}
    BY <1>1 DEF Entered
  <2>2. MakeRoom(r.alloc, size) \in Nat \ {0} /\ MakeRoom(r.alloc, size) >= size
    BY <1>4, <2>1, MakesRoom
  <2>3. Coded(r.data \o code, Joined(r.means, m))
    BY <1>1, CodedConcat DEF Entered
  <2>4. /\ new.data = r.data \o code /\ new.alloc = MakeRoom(r.alloc, size)
        /\ new.means = Joined(r.means, m)
        /\ new = [data |-> new.data, alloc |-> new.alloc, means |-> new.means]
    OBVIOUS
  <2> HIDE DEF new, r, size
  <2>5. Len(new.data) = size
    BY <1>4, <2>4
  <2> QED BY <1>4, <2>2, <2>3, <2>4, <2>5 DEF Entered
<1> HIDE DEF new, r, size
<1>6. entries' = [x \in PStackEntries |-> entries'[x]] /\ \A x \in PStackEntries : Entered(entries'[x])
  BY <1>2, <1>5 DEF PStackInv
<1> QED BY <1>2, <1>6 DEF PStackInv

LEMMA GetStep ==
    ASSUME PStackInv, GetPStackEntry
    PROVE  PStackInv'
<1> DEFINE e == Head(reserve)
           r == entries[e]
           new == [data |-> <<>>, alloc |-> r.alloc, means |-> Nothing]
<1>1. e \in PStackEntries /\ Tail(reserve) \in Seq(PStackEntries)
  BY DEF PStackInv, GetPStackEntry
<1>2. /\ entries' = [entries EXCEPT ![e] = new]
      /\ allocated' = allocated \cup {e} /\ reserve' = Tail(reserve)
  BY DEF GetPStackEntry
<1> HIDE DEF e
<1>3. Entered(r)
  BY <1>1 DEF PStackInv
<1>4. Entered(new)
  <2>1. Len(<<>>) = 0 /\ r.alloc \in Nat \ {0}
    BY <1>3 DEF Entered
  <2> HIDE DEF r
  <2> QED BY <2>1, CodedNothing DEF Entered
<1> HIDE DEF new, r
<1>5. entries' = [x \in PStackEntries |-> entries'[x]] /\ \A x \in PStackEntries : Entered(entries'[x])
  BY <1>1, <1>2, <1>4 DEF PStackInv
<1> QED BY <1>1, <1>2, <1>5 DEF PStackInv

LEMMA FreeStep ==
    ASSUME PStackInv, NEW e \in allocated, FreePStackEntry(e)
    PROVE  PStackInv'
<1>1. e \in PStackEntries
  BY DEF PStackInv
<1>2. allocated' = allocated \ {e} /\ reserve' = <<e>> \o reserve /\ entries' = entries
  BY DEF FreePStackEntry
<1>3. <<e>> \o reserve \in Seq(PStackEntries)
  BY <1>1 DEF PStackInv
<1> QED BY <1>2, <1>3 DEF PStackInv

LEMMA LeafStep ==
    ASSUME PStackInv, NEW e \in PStackEntries, PushLeaf(e)
    PROVE  PStackInv'
<1>1. CASE Push(e, PushConstantInteger(1), Node("Constant", "int", 1, <<>>))
  <2>1. Coded(PushConstantInteger(1), Node("Constant", "int", 1, <<>>))
    BY CodedSimple DEF PushConstantInteger, Types
  <2> QED BY <1>1, <2>1, PushStep
<1>2. ASSUME NEW n \in Lengths, Push(e, PushConstantText("string", n), Node("Constant", "string", n, <<>>))
      PROVE  PStackInv'
  <2>1. n \in Nat
    BY PStackAssumption
  <2>2. Coded(PushConstantText("string", n), Node("Constant", "string", n, <<>>))
    BY <2>1, CodedText
  <2> QED BY <1>2, <2>2, PushStep
<1>3. CASE Push(e, PushConstantObject("object"), Node("Constant", "object", 0, <<>>))
  <2>1. Coded(PushConstantObject("object"), Node("Constant", "object", 0, <<>>))
    BY CodedSimple DEF PushConstantObject, Types
  <2> QED BY <1>3, <2>1, PushStep
<1>4. CASE Push(e, PushSimpleOp("Negate", "int"), Node("Negate", "int", 0, <<>>))
  <2>1. Coded(PushSimpleOp("Negate", "int"), Node("Negate", "int", 0, <<>>))
    BY CodedSimple DEF PushSimpleOp, Types
  <2> QED BY <1>4, <2>1, PushStep
<1>5. CASE Push(e, PushBinaryOp("Add", "int"), Node("Add", "int", 0, <<>>))
  <2>1. Coded(PushBinaryOp("Add", "int"), Node("Add", "int", 0, <<>>))
    BY CodedSimple DEF PushBinaryOp, Types
  <2> QED BY <1>5, <2>1, PushStep
<1>6. ASSUME NEW flags \in 0 .. 1, Push(e, PushVariable(flags), Node("Variable", "int", flags, <<>>))
      PROVE  PStackInv'
  <2>1. flags \in Int
    OBVIOUS
  <2>2. Coded(PushVariable(flags), Node("Variable", "int", flags, <<>>))
    BY <2>1, CodedSimple DEF PushVariable, Types
  <2> QED BY <1>6, <2>2, PushStep
<1>7. CASE Push(e, PushLine(1), Node("Line", "unknown", 1, <<>>))
  <2>1. Coded(PushLine(1), Node("Line", "unknown", 1, <<>>))
    BY CodedSimple DEF PushLine, Types
  <2> QED BY <1>7, <2>1, PushStep
<1> QED BY <1>1, <1>2, <1>3, <1>4, <1>5, <1>6, <1>7 DEF PushLeaf

LEMMA AroundStep ==
    ASSUME PStackInv, NEW e \in PStackEntries, NEW data, NEW m, Coded(data, m),
           PushAround(e, data, m)
    PROVE  PStackInv'
<1>1. ASSUME NEW n \in Lengths, Push(e, PushDeclaration(n, NscSimplifyConstant(data)),
                                        Node("Declaration", "int", n, <<Plain(m)>>))
      PROVE  PStackInv'
  <2> DEFINE simple == NscSimplifyConstant(data)
             plain == Plain(m)
  <2>1. n \in Nat /\ n \in Int
    BY PStackAssumption
  <2>2. Text(n) \in Seq(Sound) /\ Len(Text(n)) = n
    BY <2>1, TextSound
  <2>3. Coded(simple, plain)
    BY CodedSimplify
  <2>4. "Declaration" \in WithBlocks /\ "int" \in Types
    BY DEF WithBlocks, DataOps, Types
  <2> HIDE DEF simple, plain
  <2>5. Coded(Code("Declaration", "int", n, Data(1 + Len(Text(n)), simple), Text(n) \o simple),
              Node("Declaration", "int", n, <<plain>>))
    BY <2>1, <2>2, <2>3, <2>4, CodedNamed
  <2>6. Coded(PushDeclaration(n, simple), Node("Declaration", "int", n, <<plain>>))
    BY <2>2, <2>5 DEF PushDeclaration
  <2> QED BY <1>1, <2>6, PushStep DEF simple, plain
<1>2. CASE Push(e, PushStatement(2, data), Node("Statement", "unknown", 2, <<m>>))
  <2>1. "Statement" \in WithBlocks /\ "unknown" \in Types
    BY DEF WithBlocks, DataOps, Types
  <2>2. Coded(PushStatement(2, data), Node("Statement", "unknown", 2, <<m>>))
    BY <2>1, CodedData DEF PushStatement
  <2> QED BY <1>2, <2>2, PushStep
<1>3. CASE Push(e, PushArgument(data), Node("Argument", "int", 0, <<m>>))
  <2>1. "Argument" \in WithBlocks /\ "int" \in Types
    BY DEF WithBlocks, DataOps, Types
  <2>2. Coded(PushArgument(data), Node("Argument", "int", 0, <<m>>))
    BY <2>1, CodedData DEF PushArgument
  <2> QED BY <1>3, <2>2, PushStep
<1>4. ASSUME NEW pure \in 0 .. 1, Push(e, PushCall(pure, data), Node("Call", "int", pure, <<m>>))
      PROVE  PStackInv'
  <2>1. "Call" \in WithBlocks /\ "int" \in Types /\ pure \in Int
    BY DEF WithBlocks, DataOps, Types
  <2>2. Coded(PushCall(pure, data), Node("Call", "int", pure, <<m>>))
    BY <2>1, CodedData DEF PushCall
  <2> QED BY <1>4, <2>2, PushStep
<1>5. ASSUME NEW op \in Assignments, Push(e, PushAssignment(op, data), Node(op, "int", 0, <<m>>))
      PROVE  PStackInv'
  <2>1. op \in WithBlocks /\ "int" \in Types
    BY DEF WithBlocks, Types
  <2>2. Coded(PushAssignment(op, data), Node(op, "int", 0, <<m>>))
    BY <2>1, CodedData DEF PushAssignment
  <2> QED BY <1>5, <2>2, PushStep
<1>6. CASE Push(e, PushElement(1, data), Node("Element", "float", 1, <<m>>))
  <2>1. "Element" \in WithBlocks /\ "float" \in Types
    BY DEF WithBlocks, DataOps, Types
  <2>2. Coded(PushElement(1, data), Node("Element", "float", 1, <<m>>))
    BY <2>1, CodedData DEF PushElement
  <2> QED BY <1>6, <2>2, PushStep
<1>7. CASE Push(e, PushReturn(data), Node("Return", "int", 0, <<m>>))
  <2>1. "Return" \in WithBlocks /\ "int" \in Types
    BY DEF WithBlocks, DataOps, Types
  <2>2. Coded(PushReturn(data), Node("Return", "int", 0, <<m>>))
    BY <2>1, CodedData DEF PushReturn
  <2> QED BY <1>7, <2>2, PushStep
<1>8. ASSUME NEW op \in {"Case", "Default"},
             Push(e, PushCase(op, NscSimplifyConstant(data)), Node(op, "unknown", 0, <<Plain(m)>>))
      PROVE  PStackInv'
  <2> DEFINE simple == NscSimplifyConstant(data)
             plain == Plain(m)
  <2>1. op \in WithBlocks /\ "unknown" \in Types
    BY DEF WithBlocks, CaseOps, Types
  <2>2. Coded(simple, plain)
    BY CodedSimplify
  <2> HIDE DEF simple, plain
  <2>3. Coded(PushCase(op, simple), Node(op, "unknown", 0, <<plain>>))
    BY <2>1, <2>2, CodedData DEF PushCase
  <2> QED BY <1>8, <2>3, PushStep DEF simple, plain
<1>9. CASE Push(e, data, m)
  BY <1>9, PushStep
<1> QED BY <1>1, <1>2, <1>3, <1>4, <1>5, <1>6, <1>7, <1>8, <1>9 DEF PushAround

LEMMA CodedLaid ==
    ASSUME NEW layout \in Layouts, NEW lhs, NEW rhs, NEW l, NEW r, Coded(lhs, l), Coded(rhs, r)
    PROVE  /\ DOMAIN Laid(layout, Nothing, l, r) = 1 .. 5
           /\ \A n \in 1 .. 5 : Coded(Laid(layout, <<>>, lhs, rhs)[n], Laid(layout, Nothing, l, r)[n])
<1>1. DOMAIN Laid(layout, Nothing, l, r) = 1 .. 5
  BY DEF Laid
<1>2. ASSUME NEW n \in 1 .. 5
      PROVE  Coded(Laid(layout, <<>>, lhs, rhs)[n], Laid(layout, Nothing, l, r)[n])
  <2>1. CASE layout[n] = 0
    BY <2>1, CodedNothing DEF Laid
  <2>2. CASE layout[n] # 0 /\ layout[n] = 1
    BY <2>2 DEF Laid
  <2>3. CASE layout[n] # 0 /\ layout[n] # 1
    BY <2>3 DEF Laid
  <2> QED BY <2>1, <2>2, <2>3
<1> QED BY <1>1, <1>2

LEMMA BetweenStep ==
    ASSUME PStackInv, NEW e \in PStackEntries, NEW lhs, NEW rhs, NEW l, NEW r,
           Coded(lhs, l), Coded(rhs, r), PushBetween(e, lhs, rhs, l, r)
    PROVE  PStackInv'
<1>1. ASSUME NEW op \in {"LogicalAND", "LogicalOR"},
             Push(e, PushLogicalOp(op, lhs, rhs), Node(op, "int", 0, <<l, r>>))
      PROVE  PStackInv'
  <2>1. Coded(PushLogicalOp(op, lhs, rhs), Node(op, "int", 0, <<l, r>>))
    BY CodedLogical
  <2> QED BY <1>1, <2>1, PushStep
<1>2. ASSUME NEW op \in FiveBlocks, NEW layout \in Layouts,
             Push(e, Push5Block(op, Laid(layout, <<>>, lhs, rhs)),
                     Node(op, "unknown", 0, Laid(layout, Nothing, l, r)))
      PROVE  PStackInv'
  <2>1. Coded(Push5Block(op, Laid(layout, <<>>, lhs, rhs)),
              Node(op, "unknown", 0, Laid(layout, Nothing, l, r)))
    BY CodedLaid, CodedFive
  <2> QED BY <1>2, <2>1, PushStep
<1> QED BY <1>1, <1>2 DEF PushBetween

LEMMA PStackNextStep == ASSUME PStackInv, [PStackNext]_pstackVars PROVE PStackInv'
<1>1. \A e \in allocated : e \in PStackEntries /\ Coded(DataOf(e), MeaningOf(e))
  BY DEF PStackInv, Entered, DataOf, MeaningOf
<1>2. CASE GetPStackEntry
  BY <1>2, GetStep
<1>3. ASSUME NEW e \in allocated, FreePStackEntry(e) PROVE PStackInv'
  BY <1>3, FreeStep
<1>4. ASSUME NEW e \in allocated, PushLeaf(e) PROVE PStackInv'
  BY <1>1, <1>4, LeafStep
<1>5. ASSUME NEW e \in allocated, NEW o \in allocated, PushAround(e, DataOf(o), MeaningOf(o))
      PROVE  PStackInv'
  BY <1>1, <1>5, AroundStep
<1>6. ASSUME NEW e \in allocated, NEW l \in allocated, NEW r \in allocated,
             PushBetween(e, DataOf(l), DataOf(r), MeaningOf(l), MeaningOf(r))
      PROVE  PStackInv'
  BY <1>1, <1>6, BetweenStep
<1>7. CASE UNCHANGED pstackVars
  BY <1>7 DEF PStackInv, pstackVars
<1> QED BY <1>2, <1>3, <1>4, <1>5, <1>6, <1>7 DEF PStackNext

(* What an entry holds means what was pushed into it: the meaning of each  *)
(* code is found by offset and size, whatever was copied where and comes   *)
(* behind it. *)
THEOREM PStackInvariant == PStackSpec => []PStackInv
<1>1. PStackInv /\ [PStackNext]_pstackVars => PStackInv'
  BY PStackNextStep
<1> QED BY <1>1, PStackInitStep, PTL DEF PStackSpec

(* An enumerator visits the codes that were pushed, in their order and     *)
(* nesting, and the checker for side effects sees each of them             *)
(* (ProcessPCodeBlockInternal, GetHasSideEffects); they are within the     *)
(* memory of the entry (MakeRoom). *)
THEOREM CodesAreVisited == PStackSpec => []VisitsWhatWasPushed
<1>1. PStackInv => VisitsWhatWasPushed
  <2> SUFFICES ASSUME PStackInv, NEW e \in allocated
               PROVE  /\ Len(DataOf(e)) <= entries[e].alloc
                      /\ ProcessPCodeBlock(DataOf(e)).tree = TreeOf(e)
                      /\ GetHasSideEffects(DataOf(e)) = MeaningOf(e).stops
    BY DEF VisitsWhatWasPushed
  <2>1. Entered(entries[e])
    BY DEF PStackInv
  <2>2. Len(DataOf(e)) <= entries[e].alloc /\ Coded(DataOf(e), MeaningOf(e))
    BY <2>1 DEF Entered, DataOf, MeaningOf
  <2>3. ProcessPCodeBlock(DataOf(e)) = MeaningOf(e)
    BY <2>2, SoundCells, ProcessMeans DEF Coded
  <2> QED BY <2>2, <2>3 DEF TreeOf, GetHasSideEffects
<1> QED BY <1>1, PStackInvariant, PTL

(* The parser takes for a lone constant, variable or assignment just what  *)
(* is one (IsSimpleConstant, IsSimpleVariable, IsAssignment). *)
THEOREM SimplesAreRecognised == PStackSpec => []SimplesRecognised
<1>1. PStackInv => SimplesRecognised
  <2> SUFFICES ASSUME PStackInv, NEW e \in allocated
               PROVE  /\ IsSimpleConstant(DataOf(e)) <=> Lone(TreeOf(e), {"Constant"})
                      /\ IsSimpleVariable(DataOf(e)) <=>
                           Lone(TreeOf(e), {"Variable"}) /\ TreeOf(e)[1].value = 0
                      /\ IsAssignment(DataOf(e)) <=> Lone(TreeOf(e), Assignments)
    BY DEF SimplesRecognised
  <2>1. Coded(DataOf(e), MeaningOf(e))
    BY DEF PStackInv, Entered, DataOf, MeaningOf
  <2>2. \A op : /\ IsSimple(DataOf(e), op) <=> Len(TreeOf(e)) = 1 /\ TreeOf(e)[1].op = op
                /\ IsSimple(DataOf(e), op) => TreeOf(e)[1].value = DataOf(e)[1].value
    BY <2>1, SimpleAgrees DEF TreeOf
  <2>3. IsSimpleConstant(DataOf(e)) <=> Lone(TreeOf(e), {"Constant"})
    BY <2>2 DEF IsSimpleConstant, Lone
  <2>4. IsSimpleVariable(DataOf(e)) <=> Lone(TreeOf(e), {"Variable"}) /\ TreeOf(e)[1].value = 0
    BY <2>2 DEF IsSimpleVariable, Lone
  <2>5. IsAssignment(DataOf(e)) <=> Lone(TreeOf(e), Assignments)
    BY <2>2 DEF IsAssignment, Lone
  <2> QED BY <2>3, <2>4, <2>5
<1> QED BY <1>1, PStackInvariant, PTL
=============================================================================
