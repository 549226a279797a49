------------------------ MODULE NscSymbolTableProofs ------------------------
(***************************************************************************)
(* Proofs about NscSymbolTable: its chains and fences are sound, so that   *)
(* Find returns the newest visible declaration, for any number of names,   *)
(* hash function and sizes.                                                *)
(***************************************************************************)
EXTENDS NscSymbolTable, WellFoundedInduction, TLAPS

(* Every non-empty set of natural numbers has a least element. *)
LEMMA LessThanWellFounded == IsWellFoundedOn({ss \in Nat \X Nat : ss[1] < ss[2]}, Nat)
BY NatLessThanWellFounded DEF OpToRel

LEMMA Least ==
    ASSUME NEW T, T \subseteq Nat, T # {}
    PROVE  \E x \in T : \A y \in T : x <= y
<1> DEFINE R == {ss \in Nat \X Nat : ss[1] < ss[2]}
<1>1. \A x, y \in Nat : y < x => <<y, x>> \in R
  OBVIOUS
<1>2. IsWellFoundedOn(R, Nat)
  BY LessThanWellFounded
<1> HIDE DEF R
<1>3. \E x \in T : \A y \in T : ~ (<<y, x>> \in R)
  BY <1>2, WFMin, Zenon
<1>4. PICK x \in T : \A y \in T : ~ (<<y, x>> \in R)
  BY <1>3
<1>5. ASSUME NEW y \in T PROVE ~ (y < x)
  <2>1. x \in Nat /\ y \in Nat
    OBVIOUS
  <2> QED BY <1>1, <1>4, <2>1, Zenon
<1>6. ASSUME NEW y \in T PROVE x <= y
  BY <1>5
<1> QED BY <1>6

(* Every bounded set of positive numbers has a newest element. *)
LEMMA NewestExists ==
    ASSUME NEW T, T \subseteq Nat \ {0}, NEW n \in Nat, \A x \in T : x <= n
    PROVE  \E p \in Nat : Newest(p, T)
<1>1. CASE T = {}
  BY <1>1 DEF Newest
<1>2. CASE T # {}
  <2> DEFINE U == {x \in Nat : \E p \in T : x = n - p}
  <2>1. U \subseteq Nat /\ U # {}
    <3>1. PICK p \in T : TRUE
      BY <1>2
    <3>2. n - p \in U
      BY <3>1
    <3> QED BY <3>2
  <2>2. PICK x \in U : \A y \in U : x <= y
    <3> HIDE DEF U
    <3> QED BY <2>1, Least
  <2>3. PICK p \in T : x = n - p
    OBVIOUS
  <2>4. \A q \in T : n - q \in U
    OBVIOUS
  <2>5. \A q \in T : q <= p
    BY <2>2, <2>3, <2>4
  <2> QED BY <1>2, <2>3, <2>5 DEF Newest
<1> QED BY <1>1, <1>2

(* There is one newest element. *)
LEMMA NewestUnique ==
    ASSUME NEW T, T \subseteq Nat, NEW p, NEW q, Newest(p, T), Newest(q, T)
    PROVE  p = q
<1>1. CASE T = {}
  BY <1>1 DEF Newest
<1>2. CASE T # {}
  <2>1. p \in T /\ q \in T /\ p <= q /\ q <= p
    BY <1>2 DEF Newest
  <2> QED BY <2>1
<1> QED BY <1>1, <1>2

(* A symbol holds a name, a kind and the offset of an older one. *)
LEMMA SymbolFacts ==
    ASSUME NEW t, WellFormed(t), NEW o \in Symbols(t)
    PROVE  /\ o \in Nat \ {0} /\ o < t.size
           /\ t.data[o] \in Symbol
           /\ t.data[o].name \in Names /\ t.data[o].kind \in Kinds
           /\ t.data[o].next \in Nat /\ t.data[o].refs \in SUBSET Nat
<1>1. o \in DOMAIN t.data /\ t.data[o].kind \in Kinds
  BY DEF Symbols
<1>2. o \in 1 .. t.size - 1 /\ t.size \in Nat
  BY <1>1 DEF WellFormed
<1>3. t.data[o] \in Symbol \cup Datum
  BY <1>1 DEF WellFormed
<1>4. t.data[o] \in Symbol
  BY <1>1, <1>3 DEF Datum, Kinds
<1> QED BY <1>2, <1>4 DEF Symbol

(* The chain of a name leads to its newest visible declaration. *)
LEMMA FindIsNewest ==
    ASSUME NEW t, WellFormed(t), Chained(t), NEW n \in Names, NEW kinds
    PROVE  Newest(Find(t, n, kinds),
                  {o \in Symbols(t) : t.data[o].name = n /\ t.data[o].kind \in kinds})
<1> DEFINE D == Symbols(t) \cup {0}
           Hit(o) == o = 0 \/ (t.data[o].name = n /\ t.data[o].kind \in kinds)
           from[o \in D] == IF Hit(o) THEN o ELSE from[t.data[o].next]
           M(x) == {o \in Symbols(t) : o <= x /\ t.data[o].name = n /\ t.data[o].kind \in kinds}
           b == HashIndex[n]
           In(o) == o # 0 /\ HashIndex[t.data[o].name] = b
           best == [o \in D |-> IF In(o) THEN CHOOSE p \in Nat : Newest(p, M(o)) ELSE 0]
<1>1. /\ b \in Buckets
      /\ \A o \in Symbols(t) : HashIndex[t.data[o].name] \in Buckets
  BY TableAssumption, SymbolFacts
<1>2. Symbols(t) \subseteq Nat \ {0} /\ D \subseteq Nat /\ t.size \in Nat
  BY SymbolFacts DEF WellFormed
<1>3. ASSUME NEW o \in Symbols(t)
      PROVE  LET x == t.data[o].next
             IN /\ x \in D /\ x < o
                /\ x # 0 => x \in Symbols(t)
                         /\ HashIndex[t.data[x].name] = HashIndex[t.data[o].name]
                /\ \A q \in Symbols(t) :
                     q < o /\ HashIndex[t.data[q].name] = HashIndex[t.data[o].name] => q <= x
  <2> DEFINE x == t.data[o].next
             S == Below(t, HashIndex[t.data[o].name], o)
  <2>1. Newest(x, S) /\ o \in Nat \ {0}
    BY <1>2 DEF Chained
  <2>2. S = {} => x = 0
    BY <2>1 DEF Newest
  <2>3. S # {} => x \in S /\ \A q \in S : q <= x
    BY <2>1 DEF Newest
  <2> QED BY <1>2, <2>1, <2>2, <2>3 DEF Below
<1>4. ASSUME NEW o \in Symbols(t), In(o), ~Hit(o)
      PROVE  M(o) = M(t.data[o].next)
  BY <1>2, <1>3, <1>4
<1>5. ASSUME NEW o \in D, In(o)
      PROVE  best[o] \in Nat /\ Newest(best[o], M(o))
  <2>1. M(o) \subseteq Nat \ {0} /\ o \in Nat /\ \A x \in M(o) : x <= o
    BY <1>2
  <2>2. \E p \in Nat : Newest(p, M(o))
    BY <2>1, NewestExists
  <2> QED BY <1>5, <2>2
<1>6. ASSUME NEW o \in D
      PROVE  best[o] = IF Hit(o) THEN o ELSE best[t.data[o].next]
  <2>1. 0 \in D /\ best[0] = 0
    OBVIOUS
  <2>2. CASE o = 0
    BY <2>1, <2>2
  <2>3. CASE o # 0 /\ Hit(o)
    <3>1. o \in Symbols(t) /\ In(o)
      BY <2>3
    <3>2. o \in M(o) /\ M(o) \subseteq Nat /\ \A q \in M(o) : q <= o
      BY <1>2, <2>3, <3>1
    <3>3. Newest(o, M(o))
      BY <3>2 DEF Newest
    <3>4. Newest(best[o], M(o))
      BY <1>5, <3>1
    <3>5. best[o] = o
      <4> HIDE DEF M, best
      <4> QED BY <3>2, <3>3, <3>4, NewestUnique
    <3> QED BY <2>3, <3>5
  <2>4. CASE o # 0 /\ ~Hit(o) /\ In(o)
    <3> DEFINE x == t.data[o].next
    <3>1. o \in Symbols(t) /\ M(o) = M(x) /\ Newest(best[o], M(o))
      BY <1>4, <1>5, <2>4
    <3>2. CASE x = 0
      <4>1. M(x) = {}
        BY <1>2, <3>2
      <4> QED BY <2>1, <2>4, <3>1, <3>2, <4>1 DEF Newest
    <3>3. CASE x # 0
      <4>1. x \in D /\ In(x)
        BY <1>3, <2>4, <3>1, <3>3
      <4>2. Newest(best[x], M(x))
        BY <1>5, <4>1
      <4>3. M(x) \subseteq Nat
        BY <1>2
      <4>4. best[o] = best[x]
        <5> HIDE DEF M, best
        <5> QED BY <3>1, <4>2, <4>3, NewestUnique
      <4> QED BY <2>4, <4>4
    <3> QED BY <3>2, <3>3
  <2>5. CASE o # 0 /\ ~Hit(o) /\ ~In(o)
    <3> DEFINE x == t.data[o].next
    <3>1. x \in D /\ ~In(x)
      BY <1>3, <2>5
    <3>2. best[o] = 0 /\ best[x] = 0
      BY <2>5, <3>1
    <3> QED BY <2>5, <3>2
  <2> QED BY <2>2, <2>3, <2>4, <2>5
<1>7. from = [o \in D |-> IF Hit(o) THEN o ELSE from[t.data[o].next]]
  <2> DEFINE Walks(f) == f = [o \in D |-> IF Hit(o) THEN o ELSE f[t.data[o].next]]
  <2>1. Walks(best)
    <3>1. best = [o \in D |-> best[o]]
      OBVIOUS
    <3> HIDE DEF best, D, Hit
    <3>2. [o \in D |-> best[o]] = [o \in D |-> IF Hit(o) THEN o ELSE best[t.data[o].next]]
      BY <1>6
    <3> QED BY <3>1, <3>2
  <2>2. from = CHOOSE f : Walks(f)
    OBVIOUS
  <2>3. Walks(from)
    <3> HIDE DEF Walks, best, from
    <3> QED BY <2>1, <2>2
  <2> QED BY <2>3
<1>8. ASSUME NEW o \in D PROVE from[o] = best[o]
  <2> DEFINE Wrong == {x \in D : from[x] # best[x]}
  <2> HIDE DEF from, best
  <2>1. SUFFICES ASSUME Wrong # {} PROVE FALSE
    OBVIOUS
  <2>2. PICK x \in Wrong : \A y \in Wrong : x <= y
    <3>1. Wrong \subseteq Nat
      BY <1>2
    <3> HIDE DEF Wrong
    <3> QED BY <2>1, <3>1, Least
  <2>3. from[x] = (IF Hit(x) THEN x ELSE from[t.data[x].next]) /\ x \in D
    BY <1>7
  <2>4. best[x] = IF Hit(x) THEN x ELSE best[t.data[x].next]
    BY <1>6, <2>3
  <2>5. ~Hit(x) /\ x \in Symbols(t)
    BY <2>3, <2>4
  <2>6. t.data[x].next \in D /\ t.data[x].next < x
    BY <1>3, <2>5
  <2>7. t.data[x].next \notin Wrong
    BY <1>2, <2>2, <2>6
  <2> QED BY <2>3, <2>4, <2>5, <2>6, <2>7
<1>9. Find(t, n, kinds) = from[t.hash[b]]
  BY DEF Find
<1> DEFINE h == t.hash[b]
           S == Below(t, b, t.size)
<1>10. Newest(h, S)
  BY <1>1 DEF Chained
<1>11. {o \in Symbols(t) : t.data[o].name = n /\ t.data[o].kind \in kinds} \subseteq S
  BY <1>1, <1>2, SymbolFacts DEF Below
<1>12. CASE S = {}
  <2>1. h = 0 /\ best[0] = 0
    BY <1>10, <1>12 DEF Newest
  <2>2. Find(t, n, kinds) = 0
    <3> HIDE DEF from, best
    <3> QED BY <1>8, <1>9, <2>1
  <2> QED BY <1>11, <1>12, <2>2 DEF Newest
<1>13. CASE S # {}
  <2>1. h \in S /\ \A q \in S : q <= h
    BY <1>10, <1>13 DEF Newest
  <2>2. h \in D /\ In(h)
    BY <1>2, <2>1 DEF Below
  <2>3. Find(t, n, kinds) = best[h]
    <3> HIDE DEF from, best
    <3> QED BY <1>8, <1>9, <2>2
  <2>4. M(h) = {o \in Symbols(t) : t.data[o].name = n /\ t.data[o].kind \in kinds}
    BY <1>11, <2>1
  <2>5. Newest(best[h], M(h))
    BY <1>5, <2>2
  <2> HIDE DEF best, M
  <2> QED BY <2>3, <2>4, <2>5
<1> QED BY <1>12, <1>13

(* The inductive invariant, of a table, its fences and the recorded globals. *)
Fence == [size : Nat \ {0}, hash : [Buckets -> Nat], fn : Nat]

TableInv(t, fs, gs) ==
    /\ WellFormed(t) /\ t.size <= t.allocated
    /\ fs \in Seq(Fence)
    /\ gs \subseteq Nat
    /\ Chained(t)
    /\ Fenced(t, fs)
    /\ Global(t, fs, gs)
    /\ Owned(t, fs)

(* A multiple of m_nGrowSize is nearer than m_nGrowSize. *)
LEMMA Division ==
    ASSUME NEW x \in Nat, NEW g \in Nat \ {0}
    PROVE  g * (x \div g) \in Nat /\ x - g < g * (x \div g)
<1>1. x \div g \in Nat
  OBVIOUS
<1>2. x - g < g * (x \div g)
  OBVIOUS
<1> QED BY <1>1, <1>2

(* MakeRoom makes room. *)
LEMMA MakeRoomFits ==
    ASSUME NEW t, t.size \in Nat \ {0}, t.allocated \in Nat, NEW len \in Nat
    PROVE  /\ MakeRoom(t, len).size = t.size
           /\ MakeRoom(t, len).allocated \in Nat
           /\ t.size <= t.allocated => t.size + len <= MakeRoom(t, len).allocated
<1>1. CASE t.size + len <= t.allocated
  BY <1>1 DEF MakeRoom
<1>2. CASE t.size + len > t.allocated
  <2> DEFINE x == t.size + len - t.allocated + GrowSize - 1
  <2>1. x \in Nat /\ GrowSize \in Nat \ {0}
    BY <1>2, TableAssumption
  <2>2. GrowSize * (x \div GrowSize) \in Nat /\ x - GrowSize < GrowSize * (x \div GrowSize)
    BY <2>1, Division
  <2> DEFINE more == GrowSize * (x \div GrowSize)
  <2>3. MakeRoom(t, len) = [size |-> t.size, allocated |-> t.allocated + more]
    BY <1>2 DEF MakeRoom
  <2>4. t.size + len <= t.allocated + more
    <3>1. more \in Nat /\ x - GrowSize < more
      BY <2>2
    <3> HIDE DEF more
    <3> QED BY <2>1, <3>1
  <2> HIDE DEF more
  <2> QED BY <2>2, <2>3, <2>4 DEF more
<1> QED BY <1>1, <1>2

(* What Add does to a table. *)
LEMMA AddFacts ==
    ASSUME NEW t, WellFormed(t), NEW n \in Names, NEW kind \in Kinds
    PROVE  LET u == Add(t, n, kind)
               b == HashIndex[n]
           IN /\ NextOffset(t, n) = t.size
              /\ u.size \in Nat /\ u.size > t.size
              /\ u.allocated \in Nat /\ (t.size <= t.allocated => u.size <= u.allocated)
              /\ u.hash \in [Buckets -> Nat] /\ u.hash[b] = t.size
              /\ \A c \in Buckets : c # b => u.hash[c] = t.hash[c]
              /\ DOMAIN u.data = DOMAIN t.data \cup {t.size}
              /\ \A o \in DOMAIN t.data : u.data[o] = t.data[o]
              /\ u.data[t.size] = [kind |-> kind, name |-> n, next |-> t.hash[b], refs |-> {}]
              /\ u.data[t.size] \in Symbol
              /\ Symbols(u) = Symbols(t) \cup {t.size}
<1> DEFINE u == Add(t, n, kind)
           b == HashIndex[n]
           r == MakeRoom(t, SymbolSize[n])
           item == [kind |-> kind, name |-> n, next |-> t.hash[b], refs |-> {}]
<1>1. /\ t.size \in Nat \ {0} /\ t.allocated \in Nat
      /\ SymbolSize[n] \in Nat \ {0} /\ b \in Buckets
      /\ t.hash \in [Buckets -> Nat] /\ t.size \notin DOMAIN t.data
  BY TableAssumption DEF WellFormed
<1>2. /\ r.size = t.size /\ r.allocated \in Nat
      /\ t.size <= t.allocated => t.size + SymbolSize[n] <= r.allocated
  BY <1>1, MakeRoomFits
<1>3. u = [size |-> t.size + SymbolSize[n], allocated |-> r.allocated,
           hash |-> [t.hash EXCEPT ![b] = t.size], data |-> Store(t.data, t.size, item)]
  BY <1>2 DEF Add
<1>4. NextOffset(t, n) = t.size
  BY <1>2 DEF NextOffset
<1>5. item \in Symbol
  BY <1>1 DEF Symbol
<1> HIDE DEF u, r, b, item
<1>6. /\ u.size \in Nat /\ u.size > t.size
      /\ u.allocated \in Nat /\ (t.size <= t.allocated => u.size <= u.allocated)
  BY <1>1, <1>2, <1>3
<1>7. /\ u.hash \in [Buckets -> Nat] /\ u.hash[b] = t.size
      /\ \A c \in Buckets : c # b => u.hash[c] = t.hash[c]
  BY <1>1, <1>3
<1>8. /\ DOMAIN u.data = DOMAIN t.data \cup {t.size}
      /\ \A o \in DOMAIN t.data : u.data[o] = t.data[o]
      /\ u.data[t.size] = item
  BY <1>1, <1>3 DEF Store
<1>9. Symbols(u) = Symbols(t) \cup {t.size}
  BY <1>5, <1>8 DEF Symbols, Symbol
<1> QED BY <1>4, <1>5, <1>6, <1>7, <1>8, <1>9 DEF u, b, item

(* Add keeps the invariant: the new symbol is at the head of its chain. *)
LEMMA AddInv ==
    ASSUME NEW t, NEW fs, NEW gs, TableInv(t, fs, gs), NEW n \in Names, NEW kind \in Kinds
    PROVE  LET u == Add(t, n, kind)
           IN /\ TableInv(u, fs, gs)
              /\ Symbols(u) = Symbols(t) \cup {t.size} /\ NextOffset(t, n) = t.size
              /\ \A o \in Symbols(t) : o < t.size
              /\ \A o \in Symbols(t) : u.data[o] = t.data[o]
              /\ u.size \in Nat /\ u.size > t.size
              /\ \A i \in DOMAIN fs : fs[i].size <= t.size
<1> DEFINE u == Add(t, n, kind)
           b == HashIndex[n]
           s == t.size
<1>1. /\ NextOffset(t, n) = s
      /\ u.size \in Nat /\ u.size > s
      /\ u.allocated \in Nat /\ u.size <= u.allocated
      /\ u.hash \in [Buckets -> Nat] /\ u.hash[b] = s
      /\ \A c \in Buckets : c # b => u.hash[c] = t.hash[c]
      /\ DOMAIN u.data = DOMAIN t.data \cup {s}
      /\ \A o \in DOMAIN t.data : u.data[o] = t.data[o]
      /\ u.data[s] = [kind |-> kind, name |-> n, next |-> t.hash[b], refs |-> {}]
      /\ u.data[s] \in Symbol
      /\ Symbols(u) = Symbols(t) \cup {s}
  <2>1. WellFormed(t) /\ t.size <= t.allocated
    BY DEF TableInv
  <2> QED BY <2>1, AddFacts
<1> USE DEF TableInv
<1>2. s \in Nat \ {0} /\ b \in Buckets /\ WellFormed(t)
  BY TableAssumption DEF WellFormed
<1>3. \A o \in Symbols(t) : o \in Nat \ {0} /\ o < s /\ o \in DOMAIN t.data
                              /\ HashIndex[t.data[o].name] \in Buckets
  BY <1>2, SymbolFacts, TableAssumption DEF Symbols
<1> HIDE DEF u, b
<1>4. WellFormed(u)
  <2>1. DOMAIN u.data \subseteq 1 .. u.size - 1
    BY <1>1, <1>2 DEF WellFormed
  <2>2. \A o \in DOMAIN u.data : u.data[o] \in Symbol \cup Datum
    BY <1>1, <1>2 DEF WellFormed
  <2> QED BY <1>1, <1>2, <2>1, <2>2 DEF WellFormed
<1>5. ASSUME NEW c, NEW o \in Nat, o <= s
      PROVE  Below(u, c, o) = Below(t, c, o)
  <2>1. \A p \in Nat : p < o => (p \in Symbols(u) <=> p \in Symbols(t))
    BY <1>1, <1>2, <1>5
  <2>2. \A p \in Symbols(t) : u.data[p].name = t.data[p].name
    BY <1>1, <1>3
  <2>3. Symbols(t) \subseteq Nat /\ Symbols(u) \subseteq Nat
    BY <1>1, <1>2, <1>3
  <2>4. \A p : p \in Below(u, c, o) <=> p \in Below(t, c, o)
    BY <2>1, <2>2, <2>3 DEF Below
  <2> QED BY <2>4
<1>6. \A c \in Buckets : Below(u, c, u.size) = IF c = b THEN Below(t, c, s) \cup {s} ELSE Below(t, c, s)
  BY <1>1, <1>2, <1>3 DEF Below, b
<1>7. Chained(u)
  <2>1. ASSUME NEW c \in Buckets PROVE Newest(u.hash[c], Below(u, c, u.size))
    <3>1. CASE c = b
      <4>1. Below(u, c, u.size) = Below(t, c, s) \cup {s} /\ u.hash[c] = s
        BY <1>1, <1>6, <3>1
      <4>2. \A q \in Below(t, c, s) : q <= s
        BY <1>2, <1>3 DEF Below
      <4> QED BY <1>2, <4>1, <4>2 DEF Newest
    <3>2. CASE c # b
      BY <1>1, <1>6, <3>2 DEF Chained
    <3> QED BY <3>1, <3>2
  <2>2. ASSUME NEW o \in Symbols(u)
        PROVE  Newest(u.data[o].next, Below(u, HashIndex[u.data[o].name], o))
    <3>1. CASE o = s
      <4>1. HashIndex[u.data[o].name] = b /\ u.data[o].next = t.hash[b]
        BY <1>1, <3>1 DEF b
      <4>2. Below(u, b, o) = Below(t, b, s)
        BY <1>2, <1>5, <3>1
      <4>3. Newest(t.hash[b], Below(t, b, s))
        BY <1>2 DEF Chained
      <4> QED BY <4>1, <4>2, <4>3
    <3>2. CASE o \in Symbols(t)
      <4>1. o \in Nat /\ o <= s /\ u.data[o] = t.data[o]
        BY <1>1, <1>2, <1>3, <3>2
      <4>2. Below(u, HashIndex[t.data[o].name], o) = Below(t, HashIndex[t.data[o].name], o)
        BY <1>5, <4>1
      <4>3. Newest(t.data[o].next, Below(t, HashIndex[t.data[o].name], o))
        BY <3>2 DEF Chained
      <4> QED BY <4>1, <4>2, <4>3
    <3> QED BY <1>1, <3>1, <3>2
  <2> QED BY <2>1, <2>2 DEF Chained
<1>8. \A i \in DOMAIN fs : fs[i].size \in Nat /\ fs[i].size <= s
  <2>1. ASSUME NEW i \in DOMAIN fs PROVE fs[i] \in Fence
    OBVIOUS
  <2> QED BY <2>1 DEF Fenced, Fence
<1>9. Fenced(u, fs)
  BY <1>1, <1>2, <1>5, <1>8 DEF Fenced
<1>10. Global(u, fs, gs)
  BY <1>1 DEF Global
<1>11. Owned(u, fs)
  <2>1. ASSUME NEW o \in Symbols(u), NEW r \in u.data[o].refs
        PROVE  /\ r \in DOMAIN u.data /\ r \notin Symbols(u)
               /\ u.data[r].owner = o
               /\ \A i \in DOMAIN fs : o < fs[i].size => r < fs[i].size
    <3>1. o \in Symbols(t) /\ o \in DOMAIN t.data /\ r \in t.data[o].refs
      BY <1>1, <1>3, <2>1
    <3>2. /\ r \in DOMAIN t.data /\ r \notin Symbols(t)
          /\ t.data[r].owner = o
          /\ \A i \in DOMAIN fs : o < fs[i].size => r < fs[i].size
      BY <3>1 DEF Owned
    <3>3. r # s
      BY <3>2, <1>2 DEF WellFormed
    <3> QED BY <1>1, <3>2, <3>3
  <2> QED BY <2>1 DEF Owned
<1>12. \A o \in Symbols(t) : o < s /\ u.data[o] = t.data[o]
  BY <1>1, <1>3
<1> QED BY <1>1, <1>4, <1>7, <1>8, <1>9, <1>10, <1>11, <1>12 DEF u

(* Attach, which happens outside functions only, keeps the invariant. *)
LEMMA AttachInv ==
    ASSUME NEW t, NEW gs, TableInv(t, <<>>, gs), NEW o \in Symbols(t),
           NEW kind \in {"extra", "code", "string"}, NEW len \in Nat \ {0}
    PROVE  LET v == Attach(t, o, kind, len)
           IN /\ TableInv(v, <<>>, gs)
              /\ Symbols(v) = Symbols(t)
              /\ v.size > t.size
<1> DEFINE v == Attach(t, o, kind, len)
           s == t.size
           r == MakeRoom(t, len)
           datum == [kind |-> kind, owner |-> o]
<1> USE DEF TableInv
<1>1. s \in Nat \ {0} /\ t.allocated \in Nat /\ WellFormed(t) /\ s \notin DOMAIN t.data
  BY DEF WellFormed
<1>2. r.size = s /\ r.allocated \in Nat /\ s + len <= r.allocated
  BY <1>1, MakeRoomFits
<1>3. \A p \in Symbols(t) : p \in Nat \ {0} /\ p < s /\ p \in DOMAIN t.data /\ t.data[p] \in Symbol
  BY <1>1, SymbolFacts DEF Symbols
<1>4. v = [size |-> s + len, allocated |-> r.allocated, hash |-> t.hash,
           data |-> [Store(t.data, s, datum) EXCEPT ![o].refs = @ \cup {s}]]
  BY <1>2 DEF Attach
<1> HIDE DEF v, r
<1>5. /\ DOMAIN v.data = DOMAIN t.data \cup {s}
      /\ v.data[s] = datum
      /\ v.data[o] = [t.data[o] EXCEPT !.refs = @ \cup {s}]
      /\ \A p \in DOMAIN t.data : p # o => v.data[p] = t.data[p]
  BY <1>1, <1>3, <1>4 DEF Store
<1>6. datum \in Datum /\ datum \notin Symbol /\ datum.kind \notin Kinds
  BY <1>3 DEF Datum, Symbol, Kinds
<1>7. /\ v.data[o] \in Symbol /\ v.data[o].kind = t.data[o].kind
      /\ v.data[o].name = t.data[o].name /\ v.data[o].next = t.data[o].next
      /\ v.data[o].refs = t.data[o].refs \cup {s}
  BY <1>1, <1>3, <1>5 DEF Symbol
<1>8. Symbols(v) = Symbols(t)
  BY <1>3, <1>5, <1>6, <1>7 DEF Symbols
<1> HIDE DEF datum
<1>9. v.size = s + len /\ v.allocated = r.allocated /\ v.hash = t.hash
  BY <1>4
<1>10. WellFormed(v)
  <2>1. DOMAIN v.data \subseteq 1 .. v.size - 1
    BY <1>1, <1>5, <1>9 DEF WellFormed
  <2>2. \A p \in DOMAIN v.data : v.data[p] \in Symbol \cup Datum
    BY <1>1, <1>5, <1>6, <1>7 DEF WellFormed
  <2> QED BY <1>1, <1>2, <1>9, <2>1, <2>2 DEF WellFormed
<1>11. \A p \in Symbols(t) : v.data[p].name = t.data[p].name /\ v.data[p].next = t.data[p].next
  BY <1>3, <1>5, <1>7
<1>12. \A c, x : x \in Nat => Below(v, c, x) = Below(t, c, x)
  BY <1>8, <1>11 DEF Below
<1>13. \A c : Below(v, c, v.size) = Below(t, c, s)
  BY <1>1, <1>3, <1>8, <1>9, <1>11 DEF Below
<1>14. Chained(v)
  BY <1>3, <1>8, <1>9, <1>11, <1>12, <1>13 DEF Chained
<1>15. Fenced(v, <<>>) /\ Global(v, <<>>, gs)
  BY <1>8 DEF Fenced, Global
<1>16. Owned(v, <<>>)
  <2>1. ASSUME NEW p \in Symbols(v), NEW x \in v.data[p].refs
        PROVE  x \in DOMAIN v.data /\ x \notin Symbols(v) /\ v.data[x].owner = p
    <3>1. CASE x = s /\ p = o
      BY <1>3, <1>5, <1>8, <3>1 DEF datum
    <3>2. CASE x \in t.data[p].refs
      <4>1. x \in DOMAIN t.data /\ x \notin Symbols(t) /\ t.data[x].owner = p
        BY <1>8, <3>2 DEF Owned
      <4>2. x # o /\ x # s
        BY <1>1, <4>1
      <4> QED BY <1>5, <1>8, <4>1, <4>2
    <3> QED BY <1>3, <1>5, <1>7, <1>8, <2>1, <3>1, <3>2
  <2> QED BY <2>1 DEF Owned
<1> QED BY <1>1, <1>2, <1>8, <1>9, <1>10, <1>14, <1>15, <1>16 DEF v

(* A fence taken now keeps the invariant: it holds the chains as they are. *)
LEMMA PushInv ==
    ASSUME NEW t, NEW fs, NEW gs, TableInv(t, fs, gs),
           NEW fn, fn = 0 \/ fn \in Symbols(t)
    PROVE  TableInv(t, Append(fs, FenceOf(t, fn)), gs)
<1> DEFINE f == FenceOf(t, fn)
           ps == Append(fs, f)
<1> USE DEF TableInv
<1>1. /\ t.size \in Nat \ {0} /\ DOMAIN t.data \subseteq 1 .. t.size - 1
      /\ t.hash \in [Buckets -> Nat]
  BY DEF WellFormed
<1>2. \A o \in Symbols(t) : o \in Nat \ {0} /\ o < t.size
  BY SymbolFacts
<1>3. f = [size |-> t.size, hash |-> t.hash, fn |-> fn] /\ f \in Fence
  BY <1>1, <1>2 DEF FenceOf, Fence
<1> HIDE DEF f
<1>4. /\ ps \in Seq(Fence)
      /\ DOMAIN fs = 1 .. Len(fs) /\ DOMAIN ps = 1 .. Len(fs) + 1 /\ Len(fs) \in Nat
      /\ \A i \in DOMAIN fs : ps[i] = fs[i] /\ fs[i] \in Fence
      /\ ps[Len(fs) + 1] = f
  BY <1>3
<1> HIDE DEF ps
<1>5. \A i \in DOMAIN ps : i \in DOMAIN fs \/ (i = Len(fs) + 1 /\ ps[i] = f)
  BY <1>4
<1>6. \A i \in DOMAIN ps : ps[i].size <= t.size
  BY <1>1, <1>3, <1>4, <1>5 DEF Fenced
<1>7. Fenced(t, ps)
  <2>1. ASSUME NEW i \in DOMAIN ps
        PROVE  /\ \A j \in 1 .. i : ps[j].size <= ps[i].size
               /\ \A b \in Buckets : Newest(ps[i].hash[b], Below(t, b, ps[i].size))
    <3>1. CASE i \in DOMAIN fs
      <4>1. \A j \in 1 .. i : j \in DOMAIN fs
        BY <1>4, <3>1
      <4> QED BY <1>4, <3>1, <4>1 DEF Fenced
    <3>2. CASE i = Len(fs) + 1
      <4>1. \A j \in 1 .. i : j \in DOMAIN ps
        BY <1>4, <3>2
      <4>2. ps[i].size = t.size /\ ps[i].hash = t.hash
        BY <1>3, <1>4, <3>2
      <4> QED BY <1>6, <4>1, <4>2 DEF Chained
    <3> QED BY <1>5, <3>1, <3>2
  <2> QED BY <1>6, <2>1 DEF Fenced
<1>8. Global(t, ps, gs)
  <2>1. ASSUME NEW i \in DOMAIN ps
        PROVE  /\ \A g \in gs : g < ps[i].size
               /\ ps[i].fn # 0 => ps[i].fn \in Symbols(t) /\ ps[i].fn < ps[i].size
    <3>1. CASE i \in DOMAIN fs
      BY <1>4, <3>1 DEF Global
    <3>2. CASE ps[i] = f
      <4>1. ps[i].size = t.size /\ ps[i].fn = fn
        BY <1>3, <3>2
      <4>2. \A g \in gs : g \in Symbols(t)
        BY DEF Global
      <4> QED BY <1>2, <4>1, <4>2
    <3> QED BY <1>5, <3>1, <3>2
  <2> QED BY <2>1 DEF Global
<1>9. Owned(t, ps)
  <2>1. ASSUME NEW o \in Symbols(t), NEW r \in t.data[o].refs, NEW i \in DOMAIN ps, o < ps[i].size
        PROVE  r < ps[i].size
    <3>1. CASE i \in DOMAIN fs
      BY <1>4, <2>1, <3>1 DEF Owned
    <3>2. CASE ps[i] = f
      <4>1. r \in DOMAIN t.data
        BY DEF Owned
      <4> QED BY <1>1, <1>3, <3>2, <4>1
    <3> QED BY <1>5, <3>1, <3>2
  <2> QED BY <2>1 DEF Owned
<1> QED BY <1>4, <1>7, <1>8, <1>9 DEF ps, f

(* Restoring a fence keeps the invariant, for the fences outside it. *)
LEMMA RestoreInv ==
    ASSUME NEW t, NEW fs, NEW gs, TableInv(t, fs, gs), NEW i \in DOMAIN fs
    PROVE  LET v == Restore(t, fs[i])
           IN /\ TableInv(v, SubSeq(fs, 1, i - 1), gs)
              /\ fs[i].fn # 0 => fs[i].fn \in Symbols(v)
<1> DEFINE v == Restore(t, fs[i])
           s == fs[i].size
           ps == SubSeq(fs, 1, i - 1)
<1> USE DEF TableInv
<1>1. /\ t.size \in Nat \ {0} /\ t.allocated \in Nat /\ t.size <= t.allocated
      /\ DOMAIN t.data \subseteq 1 .. t.size - 1
      /\ \A o \in DOMAIN t.data : t.data[o] \in Symbol \cup Datum
  BY DEF WellFormed
<1>2. /\ DOMAIN fs = 1 .. Len(fs) /\ Len(fs) \in Nat /\ i \in 1 .. Len(fs)
      /\ \A k \in DOMAIN fs : fs[k] \in Fence
  OBVIOUS
<1>3. s \in Nat \ {0} /\ fs[i].hash \in [Buckets -> Nat] /\ s <= t.size
  BY <1>2 DEF Fence, Fenced
<1>4. /\ ps \in Seq(Fence) /\ DOMAIN ps = 1 .. i - 1
      /\ \A k \in 1 .. i - 1 : ps[k] = fs[k] /\ k \in DOMAIN fs /\ k \in 1 .. i
  BY <1>2
<1> HIDE DEF ps
<1>5. /\ v.size = s /\ v.allocated = t.allocated /\ v.hash = fs[i].hash
      /\ DOMAIN v.data = {o \in DOMAIN t.data : o < s}
      /\ \A o \in DOMAIN v.data : v.data[o] = t.data[o]
  BY DEF Restore, Kept
<1> HIDE DEF v, s
<1>6. /\ Symbols(v) = {o \in Symbols(t) : o < s}
      /\ \A o \in Symbols(v) : v.data[o] = t.data[o]
      /\ \A o \in Symbols(t) : o \in Nat /\ HashIndex[t.data[o].name] \in Buckets
  <2>1. \A o \in Symbols(t) : o \in Nat /\ HashIndex[t.data[o].name] \in Buckets
    BY SymbolFacts, TableAssumption
  <2> QED BY <1>5, <2>1 DEF Symbols
<1>7. \A c, o : o \in Nat /\ o <= s => Below(v, c, o) = Below(t, c, o)
  BY <1>3, <1>6 DEF Below
<1>8. WellFormed(v) /\ v.size <= v.allocated
  <2>1. DOMAIN v.data \subseteq 1 .. v.size - 1
    BY <1>1, <1>3, <1>5
  <2> QED BY <1>1, <1>3, <1>5, <2>1 DEF WellFormed
<1>9. Chained(v)
  <2>1. ASSUME NEW c \in Buckets PROVE Newest(v.hash[c], Below(v, c, v.size))
    <3>1. Newest(fs[i].hash[c], Below(t, c, s))
      BY DEF Fenced, s
    <3>2. Below(v, c, s) = Below(t, c, s)
      BY <1>3, <1>7
    <3> QED BY <1>5, <3>1, <3>2
  <2>2. ASSUME NEW o \in Symbols(v)
        PROVE  Newest(v.data[o].next, Below(v, HashIndex[v.data[o].name], o))
    <3>1. o \in Symbols(t) /\ v.data[o] = t.data[o] /\ o \in Nat /\ o <= s
      BY <1>3, <1>6
    <3>2. Below(v, HashIndex[t.data[o].name], o) = Below(t, HashIndex[t.data[o].name], o)
      BY <1>7, <3>1
    <3>3. Newest(t.data[o].next, Below(t, HashIndex[t.data[o].name], o))
      BY <3>1 DEF Chained
    <3> QED BY <3>1, <3>2, <3>3
  <2> QED BY <2>1, <2>2 DEF Chained
<1>10. \A k \in DOMAIN ps : fs[k].size \in Nat /\ fs[k].size <= s
  BY <1>2, <1>4 DEF Fenced, Fence, s
<1>11. Fenced(v, ps)
  <2>1. ASSUME NEW k \in DOMAIN ps
        PROVE  /\ ps[k].size <= v.size
               /\ \A j \in 1 .. k : ps[j].size <= ps[k].size
               /\ \A c \in Buckets : Newest(ps[k].hash[c], Below(v, c, ps[k].size))
    <3>1. /\ \A j \in 1 .. k : fs[j].size <= fs[k].size
          /\ \A c \in Buckets : Newest(fs[k].hash[c], Below(t, c, fs[k].size))
      BY <1>4 DEF Fenced
    <3>2. \A j \in 1 .. k : ps[j] = fs[j]
      BY <1>2, <1>4
    <3>3. \A c \in Buckets : Below(v, c, fs[k].size) = Below(t, c, fs[k].size)
      BY <1>7, <1>10
    <3> QED BY <1>4, <1>5, <1>10, <3>1, <3>2, <3>3
  <2> QED BY <2>1 DEF Fenced
<1>12. \A g \in gs : g < s
  BY DEF Global, s
<1>13. Global(v, ps, gs)
  <2>1. ASSUME NEW k \in DOMAIN ps
        PROVE  /\ \A g \in gs : g < ps[k].size
               /\ ps[k].fn # 0 => ps[k].fn \in Symbols(v) /\ ps[k].fn < ps[k].size
    <3>1. /\ \A g \in gs : g < fs[k].size
          /\ fs[k].fn # 0 => fs[k].fn \in Symbols(t) /\ fs[k].fn < fs[k].size
      BY <1>4 DEF Global
    <3> QED BY <1>3, <1>4, <1>6, <1>10, <3>1
  <2>2. gs \subseteq Symbols(v)
    BY <1>6, <1>12 DEF Global
  <2> QED BY <2>1, <2>2 DEF Global
<1>14. Owned(v, ps)
  <2>1. ASSUME NEW o \in Symbols(v), NEW r \in v.data[o].refs
        PROVE  /\ r \in DOMAIN v.data /\ r \notin Symbols(v)
               /\ v.data[r].owner = o
               /\ \A k \in DOMAIN ps : o < ps[k].size => r < ps[k].size
    <3>1. o \in Symbols(t) /\ o < s /\ r \in t.data[o].refs
      BY <1>6, <2>1
    <3>2. /\ r \in DOMAIN t.data /\ r \notin Symbols(t)
          /\ t.data[r].owner = o
          /\ \A k \in DOMAIN fs : o < fs[k].size => r < fs[k].size
      BY <3>1 DEF Owned
    <3>3. r < s
      BY <3>1, <3>2 DEF s
    <3> QED BY <1>4, <1>5, <1>6, <3>2, <3>3
  <2> QED BY <2>1 DEF Owned
<1>15. fs[i].fn # 0 => fs[i].fn \in Symbols(v)
  BY <1>6 DEF Global, s
<1> QED BY <1>4, <1>8, <1>9, <1>11, <1>13, <1>14, <1>15 DEF v, ps

(* Recording a symbol declared outside functions keeps the invariant. *)
LEMMA GlobalInv ==
    ASSUME NEW t, NEW gs, TableInv(t, <<>>, gs), NEW o \in Symbols(t)
    PROVE  TableInv(t, <<>>, gs \cup {o})
<1>1. o \in Nat /\ WellFormed(t)
  BY SymbolFacts DEF TableInv
<1> QED BY <1>1 DEF TableInv, Global

(* The table of nwscript.nss, copied for a new context, satisfies it. *)
LEMMA InitInv ==
    ASSUME NEW n \in Names, NEW len \in DataSizes
    PROVE  TableInv(CopyFrom(AddPrototype(Empty, n, len)), <<>>, {})
<1> DEFINE reserved == [size |-> 1, allocated |-> GrowSize,
                        hash |-> [b \in Buckets |-> 0], data |-> <<>>]
<1>1. /\ GrowSize \in Nat \ {0} /\ len \in Nat \ {0}
      /\ \A m \in Names : SymbolSize[m] \in Nat \ {0} /\ SymbolSize[m] < GrowSize
  BY TableAssumption
<1>2. TableInv(reserved, <<>>, {})
  <2>1. DOMAIN reserved.data = {} /\ Symbols(reserved) = {}
    BY DEF Symbols
  <2>2. WellFormed(reserved) /\ reserved.size <= reserved.allocated
    BY <1>1, <2>1 DEF WellFormed
  <2>3. Chained(reserved)
    BY <2>1 DEF Chained, Newest, Below
  <2>4. <<>> \in Seq(Fence) /\ DOMAIN <<>> = {}
    OBVIOUS
  <2> QED BY <2>1, <2>2, <2>3, <2>4 DEF TableInv, Fenced, Global, Owned
<1>3. MakeRoom(Empty, SymbolSize[n]) = MakeRoom(reserved, SymbolSize[n])
  <2> DEFINE k == SymbolSize[n]
             g == GrowSize
  <2>1. k \in Nat \ {0} /\ g \in Nat \ {0} /\ k < g
    BY <1>1
  <2>2. MakeRoom(reserved, k) = [size |-> 1, allocated |-> g]
    BY <2>1 DEF MakeRoom
  <2>3. (0 + k - 0 + g - 1) \div g = 1
    <3> HIDE DEF k, g
    <3> QED BY <2>1
  <2>4. 0 + g * 1 = g
    BY <2>1
  <2>5. Empty.size = 0 /\ Empty.allocated = 0
    BY DEF Empty
  <2>6. MakeRoom(Empty, k) = [size |-> 1, allocated |-> 0 + g * ((0 + k - 0 + g - 1) \div g)]
    BY <2>1, <2>5 DEF MakeRoom
  <2> QED BY <2>2, <2>3, <2>4, <2>6
<1>4. AddPrototype(Empty, n, len) = AddPrototype(reserved, n, len)
  BY <1>3 DEF AddPrototype, Add, NextOffset, Empty
<1> HIDE DEF reserved
<1> DEFINE t == Add(reserved, n, "Function")
           w == Attach(t, reserved.size, "extra", len)
<1>5. /\ TableInv(t, <<>>, {}) /\ reserved.size \in Symbols(t)
      /\ NextOffset(reserved, n) = reserved.size
  BY <1>2, AddInv DEF Kinds
<1>6. TableInv(w, <<>>, {})
  <2> HIDE DEF t
  <2> QED BY <1>1, <1>5, AttachInv
<1> HIDE DEF w
<1>7. w.size \in Nat \ {0} /\ WellFormed(w)
  BY <1>6 DEF TableInv, WellFormed
<1> DEFINE c == CopyFrom(w)
<1>8. c.allocated \in Nat /\ w.size <= c.allocated
  <2> DEFINE x == 0 + w.size - 0 + GrowSize - 1
             more == GrowSize * (x \div GrowSize)
  <2>1. x \in Nat
    BY <1>1, <1>7
  <2>2. more \in Nat /\ x - GrowSize < more
    BY <1>1, <2>1, Division
  <2>3. ~(0 + w.size <= 0)
    BY <1>7
  <2>4. c.allocated = 0 + more
    BY <2>3 DEF CopyFrom, MakeRoom, Empty
  <2> HIDE DEF more, c
  <2> QED BY <1>1, <1>7, <2>2, <2>4
<1>9. c.size = w.size /\ c.hash = w.hash /\ c.data = w.data
  BY DEF CopyFrom
<1> HIDE DEF c
<1>10. Symbols(c) = Symbols(w) /\ \A b, o : Below(c, b, o) = Below(w, b, o)
  BY <1>9 DEF Symbols, Below
<1>11. WellFormed(c) /\ c.size <= c.allocated
  BY <1>7, <1>8, <1>9 DEF WellFormed
<1>12. Chained(c) /\ Fenced(c, <<>>) /\ Global(c, <<>>, {}) /\ Owned(c, <<>>)
  BY <1>6, <1>9, <1>10 DEF TableInv, Chained, Fenced, Global, Owned
<1>13. TableInv(c, <<>>, {})
  BY <1>6, <1>11, <1>12 DEF TableInv
<1> QED BY <1>4, <1>5, <1>13 DEF AddPrototype, c, w

(* What Find returns is in the table. *)
LEMMA FindInTable ==
    ASSUME NEW t, NEW fs, NEW gs, TableInv(t, fs, gs), NEW n \in Names, NEW kinds,
           Find(t, n, kinds) # 0
    PROVE  Find(t, n, kinds) \in Symbols(t)
<1> DEFINE S == {o \in Symbols(t) : t.data[o].name = n /\ t.data[o].kind \in kinds}
<1>1. Newest(Find(t, n, kinds), S)
  BY FindIsNewest DEF TableInv
<1> QED BY <1>1 DEF Newest

(* The parameters are declared as any variable is. *)
LEMMA ParametersInv ==
    ASSUME NEW t, NEW fs, NEW gs, TableInv(t, fs, gs), NEW params \in Parameters
    PROVE  TableInv(AddParameters(t, params), fs, gs)
<1>1. CASE params = <<>>
  BY <1>1 DEF AddParameters
<1>2. CASE params # <<>>
  <2>1. params[1] \in Names
    BY <1>2 DEF Parameters
  <2>2. TableInv(Add(t, params[1], "Variable"), fs, gs)
    BY <2>1, AddInv DEF Kinds
  <2> QED BY <1>2, <2>2 DEF AddParameters
<1> QED BY <1>1, <1>2

(* A symbol with its data, recorded, as AddPrototype and AddStructure leave it. *)
LEMMA PrototypeInv ==
    ASSUME NEW t, NEW gs, TableInv(t, <<>>, gs), NEW n \in Names,
           NEW kind \in Kinds, NEW len \in DataSizes
    PROVE  LET v == Attach(Add(t, n, kind), NextOffset(t, n), "extra", len)
           IN TableInv(v, <<>>, gs \cup {NextOffset(t, n)}) /\ NextOffset(t, n) \in Symbols(v)
<1> DEFINE u == Add(t, n, kind)
           v == Attach(u, t.size, "extra", len)
<1>1. TableInv(u, <<>>, gs) /\ t.size \in Symbols(u) /\ NextOffset(t, n) = t.size
  BY AddInv
<1>2. len \in Nat \ {0}
  BY TableAssumption
<1> HIDE DEF u
<1>3. TableInv(v, <<>>, gs) /\ t.size \in Symbols(v)
  BY <1>1, <1>2, AttachInv
<1> HIDE DEF v
<1>4. TableInv(v, <<>>, gs \cup {t.size})
  BY <1>3, GlobalInv
<1> QED BY <1>1, <1>3, <1>4 DEF u, v

(* Every operation keeps the invariant. *)
LEMMA StepInv ==
    ASSUME TableInv(table, fences, globals), [TableNext]_tableVars
    PROVE  TableInv(table', fences', globals')
<1> DEFINE Inv == TableInv(table, fences, globals)
           Inv1 == TableInv(table', fences', globals')
<1>0. /\ fences \in Seq(Fence) /\ DOMAIN fences = 1 .. Len(fences) /\ Len(fences) \in Nat
      /\ SubSeq(fences, 1, 1 - 1) = <<>>
  <2>1. fences \in Seq(Fence)
    BY DEF TableInv
  <2> QED BY <2>1
<1>1. ASSUME NEW n \in Names, NEW const \in BOOLEAN, GlobalVariable(n, const)
      PROVE  Inv1
  <2> DEFINE u == Add(table, n, "Variable")
  <2>1. fences = <<>> /\ fences' = <<>> /\ table' = u
    BY <1>1 DEF GlobalVariable
  <2>2. TableInv(u, <<>>, globals) /\ NextOffset(table, n) \in Symbols(u)
    BY <2>1, AddInv DEF Kinds
  <2> HIDE DEF u
  <2>3. TableInv(u, <<>>, globals \cup {NextOffset(table, n)})
    BY <2>2, GlobalInv
  <2> QED BY <1>1, <2>1, <2>2, <2>3 DEF GlobalVariable
<1>2. ASSUME NEW n \in Names, NEW len \in DataSizes, NEW error \in BOOLEAN,
             GlobalInit(n, len, error)
      PROVE  Inv1
  <2> DEFINE f == Find(table, n, Decl)
             v == Attach(table, f, "extra", len)
  <2>1. fences = <<>> /\ fences' = <<>> /\ f # 0
        /\ table' \in {table, v} /\ globals' = globals \cup {f}
    BY <1>2 DEF GlobalInit
  <2>2. f \in Symbols(table) /\ len \in Nat \ {0}
    BY <2>1, FindInTable, TableAssumption
  <2> HIDE DEF f
  <2>3. TableInv(v, <<>>, globals) /\ f \in Symbols(v)
    BY <2>1, <2>2, AttachInv
  <2> HIDE DEF v
  <2>4. TableInv(v, <<>>, globals \cup {f}) /\ TableInv(table, <<>>, globals \cup {f})
    BY <2>1, <2>2, <2>3, GlobalInv
  <2> QED BY <2>1, <2>4
<1>3. ASSUME NEW n \in Names, NEW len \in DataSizes, Structure(n, len)
      PROVE  Inv1
  BY <1>3, PrototypeInv DEF Structure, Kinds
<1>4. ASSUME NEW n \in Names, NEW params \in Parameters, NEW len \in DataSizes,
             NewFunction(n, params, len)
      PROVE  Inv1
  <2> DEFINE v == AddPrototype(table, n, len)
             s == NextOffset(table, n)
             gs == globals \cup {s}
  <2>1. /\ fences = <<>> /\ fences' = <<FenceOf(v, s)>>
        /\ table' = AddParameters(v, params) /\ globals' = gs
    BY <1>4 DEF NewFunction
  <2>2. TableInv(v, <<>>, gs) /\ s \in Symbols(v)
    BY <2>1, PrototypeInv DEF AddPrototype, Kinds
  <2> HIDE DEF v, s, gs
  <2>3. TableInv(v, <<FenceOf(v, s)>>, gs)
    <3>1. TableInv(v, Append(<<>>, FenceOf(v, s)), gs)
      BY <2>2, PushInv
    <3> QED BY <3>1
  <2> QED BY <2>1, <2>3, ParametersInv
<1>5. ASSUME NEW n \in Names, NEW params \in Parameters, NEW renamed \in BOOLEAN,
             NEW agrees \in BOOLEAN, NEW len \in DataSizes,
             KnownFunction(n, params, renamed, agrees, len)
      PROVE  Inv1
  <2> DEFINE s == Find(table, n, Decl)
             t == IF renamed THEN Attach(table, s, "string", len) ELSE table
             f == FenceOf(t, IF agrees THEN s ELSE 0)
  <2>1. /\ fences = <<>> /\ s # 0 /\ fences' = <<f>> /\ globals' = globals
        /\ table' = IF agrees THEN AddParameters(t, params) ELSE t
    BY <1>5 DEF KnownFunction
  <2>2. s \in Symbols(table) /\ len \in Nat \ {0}
    BY <2>1, FindInTable, TableAssumption
  <2> HIDE DEF s
  <2>3. TableInv(t, <<>>, globals) /\ s \in Symbols(t)
    BY <2>1, <2>2, AttachInv
  <2> HIDE DEF t
  <2>4. TableInv(t, <<f>>, globals)
    <3>1. TableInv(t, Append(<<>>, f), globals)
      BY <2>3, PushInv
    <3> QED BY <3>1
  <2> HIDE DEF f
  <2> QED BY <2>1, <2>4, ParametersInv
<1>6. ASSUME FunctionInError
      PROVE  Inv1
  <2>1. TableInv(table, Append(<<>>, FenceOf(table, 0)), globals)
    BY <1>6, PushInv DEF FunctionInError
  <2> QED BY <1>6, <2>1 DEF FunctionInError
<1>7. ASSUME NEW n \in Names, LocalVariable(n)
      PROVE  Inv1
  BY <1>7, AddInv DEF LocalVariable, Kinds
<1>8. ASSUME BeginScope
      PROVE  Inv1
  BY <1>8, PushInv DEF BeginScope
<1>9. ASSUME NEW i \in DOMAIN fences, EndScope(i)
      PROVE  Inv1
  BY <1>9, RestoreInv DEF EndScope
<1>10. ASSUME EndPrototype
       PROVE  Inv1
  <2>1. 1 \in DOMAIN fences
    BY <1>0, <1>10 DEF EndPrototype
  <2>2. TableInv(Restore(table, fences[1]), SubSeq(fences, 1, 1 - 1), globals)
    BY <2>1, RestoreInv
  <2> QED BY <1>0, <1>10, <2>2 DEF EndPrototype
<1>11. ASSUME NEW body \in DataSizes \cup {0}, EndFunction(body)
       PROVE  Inv1
  <2> DEFINE s == fences[1].fn
             t == Restore(table, fences[1])
             v == Attach(t, s, "code", body)
  <2>1. 1 \in DOMAIN fences /\ body \in Nat
    <3>1. Len(fences) = 1
      BY <1>11 DEF EndFunction
    <3> QED BY <1>0, <3>1, TableAssumption
  <2>2. TableInv(t, <<>>, globals) /\ (s # 0 => s \in Symbols(t))
    <3>1. TableInv(t, SubSeq(fences, 1, 1 - 1), globals) /\ (s # 0 => s \in Symbols(t))
      BY <2>1, RestoreInv
    <3> QED BY <1>0, <3>1
  <2>3. fences' = <<>> /\ globals' = IF s = 0 THEN globals ELSE globals \cup {s}
    BY <1>11 DEF EndFunction
  <2>4. table' = t \/ (table' = v /\ s # 0 /\ body # 0)
    <3>1. table' = IF s # 0 /\ body # 0 /\ ~HasCode(t, s) THEN v ELSE t
      BY <1>11, Zenon DEF EndFunction
    <3> HIDE DEF v, t, s
    <3> QED BY <3>1
  <2> HIDE DEF s, t
  <2>5. CASE table' = t
    <3>1. s # 0 => TableInv(t, <<>>, globals \cup {s})
      BY <2>2, GlobalInv
    <3> QED BY <2>2, <2>3, <2>5, <3>1
  <2>6. CASE table' = v /\ s # 0 /\ body # 0
    <3>1. TableInv(v, <<>>, globals) /\ s \in Symbols(v)
      <4>1. s \in Symbols(t) /\ body \in Nat \ {0}
        BY <2>1, <2>2, <2>6
      <4> QED BY <2>2, <4>1, AttachInv
    <3> HIDE DEF v
    <3>2. TableInv(v, <<>>, globals \cup {s})
      BY <3>1, GlobalInv
    <3> QED BY <2>3, <2>6, <3>2
  <2> QED BY <2>4, <2>5, <2>6
<1>12. CASE UNCHANGED tableVars
  BY <1>12 DEF tableVars
<1> QED BY <1>1, <1>2, <1>3, <1>4, <1>5, <1>6, <1>7, <1>8, <1>9, <1>10, <1>11, <1>12 DEF TableNext

(* The invariant holds in every state: the chains lead through exactly the *)
(* symbols that are visible, the fences hold the chains of the scopes      *)
(* outside, and everything recorded lies within the buffer.                *)
THEOREM TableInvariant == TableSpec => []TableInv(table, fences, globals)
<1>1. TableInit => TableInv(table, fences, globals)
  BY InitInv DEF TableInit
<1>2. TableInv(table, fences, globals) /\ [TableNext]_tableVars
      => TableInv(table, fences, globals)'
  BY StepInv
<1> QED BY <1>1, <1>2, PTL DEF TableSpec

(* Each chain holds exactly the symbols of its bucket that are visible     *)
(* (Add, RestoreFence), and each fence the chains of the scope outside.    *)
THEOREM ChainsAndFences == TableSpec => [](TableTypeOK /\ ChainsComplete /\ FencesSound)
<1>1. TableInv(table, fences, globals) => TableTypeOK /\ ChainsComplete /\ FencesSound
  BY DEF TableInv, TableTypeOK, ChainsComplete, FencesSound, Fence
<1> QED BY <1>1, TableInvariant, PTL

(* No fence brings back a symbol that is gone (RestoreFence). *)
COROLLARY FencesAlwaysSound == TableSpec => []FencesSound
BY ChainsAndFences, PTL

(* The offsets kept across scopes stay valid (the recorded globals, the    *)
(* symbol of the current function), and so does the data of every symbol.  *)
THEOREM OffsetsStayValid == TableSpec => [](GlobalsStay /\ DataStays /\ InBuffer)
<1>1. TableInv(table, fences, globals) => GlobalsStay /\ DataStays /\ InBuffer
  BY DEF TableInv, GlobalsStay, DataStays, InBuffer
<1> QED BY <1>1, TableInvariant, PTL

(* m_anGlobalVars and its relatives, and the symbol of a function, keep    *)
(* their offsets over every fence. *)
COROLLARY GlobalsAlwaysStay == TableSpec => []GlobalsStay
BY OffsetsStayValid, PTL

(* Whatever is added, MakeRoom has made room for it. *)
COROLLARY AlwaysInBuffer == TableSpec => []InBuffer
BY OffsetsStayValid, PTL

(* FindSymbol returns the newest visible declaration of a name, whatever   *)
(* was declared and left behind since.                                     *)
THEOREM LookupIsNewest == TableSpec => []FindsNewest
<1>1. TableInv(table, fences, globals) => FindsNewest
  BY FindIsNewest DEF TableInv, FindsNewest
<1> QED BY <1>1, TableInvariant, PTL

-----------------------------------------------------------------------------
(* The table implements NscDeclarations. *)

Visible(t) == DeclaredBelow(t, t.size)

(* Add leaves what was visible and declares something newer. *)
LEMMA AddDeclares ==
    ASSUME NEW t, NEW fs, NEW gs, TableInv(t, fs, gs), NEW n \in Names, NEW kind \in Kinds
    PROVE  LET u == Add(t, n, kind)
           IN /\ Declarations!Extends(Visible(u), Visible(t))
              /\ \A x \in Nat : x <= t.size => DeclaredBelow(u, x) = DeclaredBelow(t, x)
<1> DEFINE u == Add(t, n, kind)
<1>1. /\ Symbols(u) = Symbols(t) \cup {t.size}
      /\ \A o \in Symbols(t) : u.data[o] = t.data[o]
      /\ u.size \in Nat /\ u.size > t.size
  BY AddInv
<1>2. \A o \in Symbols(t) : o \in Nat /\ o < t.size
  BY SymbolFacts DEF TableInv
<1>3. t.size \in Nat
  BY DEF TableInv, WellFormed
<1> HIDE DEF u
<1> DEFINE new == [name |-> u.data[t.size].name, kind |-> u.data[t.size].kind, at |-> t.size]
<1>4. Visible(u) = Visible(t) \cup {new}
  BY <1>1, <1>2, <1>3 DEF Visible, DeclaredBelow
<1>5. \A old \in Visible(t) : old.at < t.size
  BY <1>2 DEF Visible, DeclaredBelow
<1>6. Declarations!Extends(Visible(u), Visible(t))
  <2>1. new.at = t.size
    OBVIOUS
  <2> HIDE DEF new
  <2> QED BY <1>4, <1>5, <2>1 DEF Declarations!Extends
<1>7. ASSUME NEW x \in Nat, x <= t.size
      PROVE  DeclaredBelow(u, x) = DeclaredBelow(t, x)
  <2>1. {p \in Symbols(u) : p < x} = {p \in Symbols(t) : p < x}
    BY <1>1, <1>3, <1>7
  <2> QED BY <1>1, <2>1 DEF DeclaredBelow
<1> QED BY <1>6, <1>7 DEF u

(* Attach declares nothing. *)
LEMMA AttachDeclares ==
    ASSUME NEW t, NEW gs, TableInv(t, <<>>, gs), NEW o \in Symbols(t),
           NEW kind \in {"extra", "code", "string"}, NEW len \in Nat \ {0}
    PROVE  LET v == Attach(t, o, kind, len)
           IN /\ Visible(v) = Visible(t)
              /\ \A x \in Nat : DeclaredBelow(v, x) = DeclaredBelow(t, x)
<1> DEFINE v == Attach(t, o, kind, len)
           s == t.size
           datum == [kind |-> kind, owner |-> o]
<1>1. s \in Nat \ {0} /\ t.allocated \in Nat /\ WellFormed(t) /\ s \notin DOMAIN t.data
  BY DEF TableInv, WellFormed
<1>2. MakeRoom(t, len).size = s
  BY <1>1, MakeRoomFits
<1>3. \A p \in Symbols(t) : p \in Nat /\ p < s /\ p \in DOMAIN t.data /\ t.data[p] \in Symbol
  BY <1>1, SymbolFacts DEF Symbols
<1>4. v.data = [Store(t.data, s, datum) EXCEPT ![o].refs = @ \cup {s}]
  BY <1>2 DEF Attach
<1>5. Symbols(v) = Symbols(t) /\ v.size > s
  BY AttachInv
<1> HIDE DEF v
<1>6. /\ v.data[o] = [t.data[o] EXCEPT !.refs = @ \cup {s}]
      /\ \A p \in DOMAIN t.data : p # o => v.data[p] = t.data[p]
  BY <1>1, <1>3, <1>4 DEF Store
<1>7. \A p \in Symbols(t) : v.data[p].name = t.data[p].name /\ v.data[p].kind = t.data[p].kind
  BY <1>3, <1>6 DEF Symbol
<1>8. \A x \in Nat : DeclaredBelow(v, x) = DeclaredBelow(t, x)
  BY <1>5, <1>7 DEF DeclaredBelow
<1>9. Visible(v) = Visible(t)
  <2>1. v.size \in Nat
    BY AttachInv DEF v, TableInv, WellFormed
  <2>2. {p \in Symbols(v) : p < v.size} = {p \in Symbols(t) : p < s}
    BY <1>1, <1>3, <1>5, <2>1
  <2> QED BY <1>7, <2>2 DEF Visible, DeclaredBelow
<1> QED BY <1>8, <1>9 DEF v

(* Restoring a fence leaves what was declared below it. *)
LEMMA RestoreDeclares ==
    ASSUME NEW t, NEW fs, NEW gs, TableInv(t, fs, gs), NEW i \in DOMAIN fs
    PROVE  LET v == Restore(t, fs[i])
           IN /\ Visible(v) = DeclaredBelow(t, fs[i].size)
              /\ \A x \in Nat : x <= fs[i].size => DeclaredBelow(v, x) = DeclaredBelow(t, x)
<1> DEFINE v == Restore(t, fs[i])
           s == fs[i].size
<1>1. s \in Nat
  <2>1. fs[i] \in Fence
    BY DEF TableInv
  <2> QED BY <2>1 DEF Fence
<1> HIDE DEF s
<1>2. /\ v.size = s /\ DOMAIN v.data = {o \in DOMAIN t.data : o < s}
      /\ \A o \in DOMAIN v.data : v.data[o] = t.data[o]
  BY DEF Restore, Kept, s
<1> HIDE DEF v
<1>3. /\ Symbols(v) = {o \in Symbols(t) : o < s}
      /\ \A o \in Symbols(v) : v.data[o] = t.data[o]
      /\ Symbols(t) \subseteq Nat
  <2>1. Symbols(t) \subseteq Nat
    BY SymbolFacts DEF TableInv
  <2> QED BY <1>2, <2>1 DEF Symbols
<1>4. ASSUME NEW x \in Nat, x <= s
      PROVE  DeclaredBelow(v, x) = DeclaredBelow(t, x)
  <2>1. {p \in Symbols(v) : p < x} = {p \in Symbols(t) : p < x}
    BY <1>1, <1>3, <1>4
  <2> QED BY <1>3, <2>1 DEF DeclaredBelow
<1> QED BY <1>1, <1>2, <1>4 DEF Visible, v, s

(* What extends an extension extends what that extends. *)
LEMMA ExtendsTransitive ==
    ASSUME NEW a, NEW b, NEW c, Declarations!Extends(b, a), Declarations!Extends(c, b)
    PROVE  Declarations!Extends(c, a)
BY DEF Declarations!Extends

(* What is unchanged extends itself. *)
LEMMA ExtendsSame == \A a : Declarations!Extends(a, a)
BY DEF Declarations!Extends

(* The scopes of NscDeclarations, of a table and its fences. *)
ScopesOf(t, fs) == [i \in DOMAIN fs |-> DeclaredBelow(t, fs[i].size)]

(* They are opened and closed as the fences are. *)
LEMMA ScopesOfSequences ==
    ASSUME NEW t, NEW fs \in Seq(Fence), NEW f \in Fence
    PROVE  /\ ScopesOf(t, <<>>) = <<>>
           /\ ScopesOf(t, <<f>>) = Append(<<>>, DeclaredBelow(t, f.size))
           /\ ScopesOf(t, Append(fs, f)) = Append(ScopesOf(t, fs), DeclaredBelow(t, f.size))
           /\ \A i \in DOMAIN fs :
                /\ i \in DOMAIN ScopesOf(t, fs)
                /\ ScopesOf(t, fs)[i] = DeclaredBelow(t, fs[i].size)
                /\ ScopesOf(t, SubSeq(fs, 1, i - 1)) = SubSeq(ScopesOf(t, fs), 1, i - 1)
<1>1. ScopesOf(t, <<>>) = <<>>
  BY DEF ScopesOf
<1>2. ScopesOf(t, <<f>>) = Append(<<>>, DeclaredBelow(t, f.size))
  BY DEF ScopesOf
<1> DEFINE D(g) == DeclaredBelow(t, g.size)
           ss == ScopesOf(t, fs)
<1>3. /\ ss \in Seq({D(g) : g \in Fence}) /\ Len(ss) = Len(fs) /\ Len(fs) \in Nat
      /\ DOMAIN fs = 1 .. Len(fs) /\ DOMAIN ss = 1 .. Len(fs)
      /\ \A i \in 1 .. Len(fs) : ss[i] = D(fs[i])
  <2>1. ss = [i \in 1 .. Len(fs) |-> D(fs[i])] /\ \A i \in 1 .. Len(fs) : fs[i] \in Fence
    BY DEF ScopesOf
  <2> HIDE DEF D, ss
  <2>2. \A i \in 1 .. Len(fs) : D(fs[i]) \in {D(g) : g \in Fence}
    BY <2>1
  <2>3. ss \in Seq({D(g) : g \in Fence})
    BY <2>1, <2>2
  <2> QED BY <2>1, <2>3
<1>4. ScopesOf(t, Append(fs, f)) = Append(ss, D(f))
  <2> DEFINE ps == Append(fs, f)
             k == Len(fs) + 1
             new == Append(ss, D(f))
  <2>1. ScopesOf(t, ps) = [i \in DOMAIN ps |-> D(ps[i])]
    BY DEF ScopesOf
  <2>2. DOMAIN ps = 1 .. k /\ ps[k] = f /\ \A i \in 1 .. Len(fs) : ps[i] = fs[i]
    BY <1>3
  <2> DEFINE S == {D(g) : g \in Fence}
  <2>3. D(f) \in S /\ ss \in Seq(S)
    BY <1>3
  <2> HIDE DEF D, ss, S
  <2>4. /\ DOMAIN new = 1 .. k /\ new[k] = D(f) /\ \A i \in 1 .. Len(fs) : new[i] = ss[i]
        /\ new = [i \in 1 .. k |-> new[i]]
    <3>1. new \in Seq(S) /\ Len(new) = k
      BY <1>3, <2>3
    <3>2. new[k] = D(f) /\ \A i \in 1 .. Len(fs) : new[i] = ss[i]
      BY <1>3, <2>3
    <3> HIDE DEF new
    <3>3. DOMAIN new = 1 .. Len(new) /\ new = [i \in DOMAIN new |-> new[i]]
      BY <3>1
    <3> QED BY <3>1, <3>2, <3>3
  <2> HIDE DEF ps, new
  <2>5. \A i \in 1 .. k : D(ps[i]) = new[i]
    BY <1>3, <2>2, <2>4
  <2> QED BY <2>1, <2>2, <2>4, <2>5 DEF ps, new
<1>5. ASSUME NEW i \in DOMAIN fs
      PROVE  ScopesOf(t, SubSeq(fs, 1, i - 1)) = SubSeq(ss, 1, i - 1)
  <2> DEFINE ps == SubSeq(fs, 1, i - 1)
  <2>1. ScopesOf(t, ps) = [k \in DOMAIN ps |-> D(ps[k])]
    BY DEF ScopesOf
  <2> HIDE DEF D, ss
  <2> QED BY <1>3, <2>1
<1> QED BY <1>1, <1>2, <1>3, <1>4, <1>5

(* The parameters are declared within the scope of their function. *)
LEMMA EnterFunction ==
    ASSUME NEW t, NEW gs, TableInv(t, <<>>, gs), NEW params \in Parameters
    PROVE  LET w == AddParameters(t, params)
           IN /\ Declarations!Extends(Visible(w), Visible(t))
              /\ DeclaredBelow(w, t.size) = Visible(t)
<1>1. CASE params = <<>>
  BY <1>1, ExtendsSame DEF AddParameters, Visible
<1>2. CASE params # <<>>
  <2>1. params[1] \in Names /\ t.size \in Nat
    BY <1>2 DEF Parameters, TableInv, WellFormed
  <2> DEFINE u == Add(t, params[1], "Variable")
  <2>2. /\ Declarations!Extends(Visible(u), Visible(t))
        /\ \A x \in Nat : x <= t.size => DeclaredBelow(u, x) = DeclaredBelow(t, x)
    BY <2>1, AddDeclares DEF Kinds
  <2> HIDE DEF u
  <2>3. AddParameters(t, params) = u
    BY <1>2 DEF AddParameters, u
  <2> QED BY <2>1, <2>2, <2>3 DEF Visible
<1> QED BY <1>1, <1>2

(* A symbol with its data declares what the symbol does. *)
LEMMA PrototypeDeclares ==
    ASSUME NEW t, NEW gs, TableInv(t, <<>>, gs), NEW n \in Names,
           NEW kind \in Kinds, NEW len \in DataSizes
    PROVE  Declarations!Extends(Visible(Attach(Add(t, n, kind), NextOffset(t, n), "extra", len)),
                                Visible(t))
<1> DEFINE u == Add(t, n, kind)
           v == Attach(u, t.size, "extra", len)
<1>1. TableInv(u, <<>>, gs) /\ t.size \in Symbols(u) /\ NextOffset(t, n) = t.size
  BY AddInv
<1>2. Declarations!Extends(Visible(u), Visible(t))
  BY AddDeclares
<1>3. len \in Nat \ {0}
  BY TableAssumption
<1> HIDE DEF u
<1>4. Visible(v) = Visible(u)
  BY <1>1, <1>3, AttachDeclares
<1> QED BY <1>1, <1>2, <1>4 DEF u

(* A step that opens the scope of a function, its symbol declared before.  *)
LEMMA EnterStep ==
    ASSUME NEW t, NEW gs, TableInv(t, <<>>, gs), NEW params \in Parameters,
           NEW fn, fn = 0 \/ fn \in Symbols(t),
           Declarations!Extends(Visible(t), Visible(table)),
           fences = <<>>, fences' = <<FenceOf(t, fn)>>, table' = AddParameters(t, params)
    PROVE  Declarations!Enter
<1> DEFINE f == FenceOf(t, fn)
           w == AddParameters(t, params)
<1>1. f \in Fence /\ f.size = t.size
  <2>1. TableInv(t, Append(<<>>, f), gs)
    BY PushInv
  <2>2. <<f>> \in Seq(Fence)
    BY <2>1 DEF TableInv
  <2> QED BY <2>2 DEF FenceOf
<1>2. Declarations!Extends(Visible(w), Visible(t)) /\ DeclaredBelow(w, t.size) = Visible(t)
  BY EnterFunction
<1> HIDE DEF f, w
<1>3. <<>> \in Seq(Fence)
  OBVIOUS
<1>4. /\ ScopesOf(table, fences) = <<>>
      /\ ScopesOf(table', fences') = Append(<<>>, Visible(t))
  <2>1. ScopesOf(table, <<>>) = <<>>
    BY <1>1, <1>3, ScopesOfSequences
  <2>2. ScopesOf(w, <<f>>) = Append(<<>>, DeclaredBelow(w, f.size))
    BY <1>1, <1>3, ScopesOfSequences
  <2> QED BY <1>1, <1>2, <2>1, <2>2 DEF f, w
<1>5. Visible(t) \in {ScopesOf(table', fences')[i] : i \in DOMAIN ScopesOf(table', fences')}
  <2>1. 1 \in DOMAIN <<Visible(t)>> /\ <<Visible(t)>>[1] = Visible(t)
    OBVIOUS
  <2> QED BY <1>4, <2>1
<1> QED BY <1>2, <1>4, <1>5 DEF Declarations!Enter, ScopesOf, Visible, w

(* Every step of the table is one of NscDeclarations, or leaves what that  *)
(* sees as it is.                                                          *)
LEMMA StepDeclares ==
    ASSUME TableInv(table, fences, globals), [TableNext]_tableVars
    PROVE  \/ Declarations!Next
           \/ /\ Visible(table') = Visible(table)
              /\ ScopesOf(table', fences') = ScopesOf(table, fences)
<1>0. /\ fences \in Seq(Fence) /\ \A i \in DOMAIN fences : fences[i] \in Fence
      /\ fences = <<>> => TableInv(table, <<>>, globals)
      /\ SubSeq(fences, 1, 1 - 1) = <<>>
  <2>1. fences \in Seq(Fence)
    BY DEF TableInv
  <2> QED BY <2>1
<1>1. ASSUME fences = <<>>, fences' = <<>>, Declarations!Extends(Visible(table'), Visible(table))
      PROVE  Declarations!Next
  BY <1>1 DEF Declarations!Next, Declarations!Declare, Visible
<1>2. ASSUME NEW n \in Names, NEW const \in BOOLEAN, GlobalVariable(n, const)
      PROVE  Declarations!Next
  BY <1>0, <1>1, <1>2, AddDeclares DEF GlobalVariable, Kinds
<1>3. ASSUME NEW n \in Names, NEW len \in DataSizes, NEW error \in BOOLEAN,
             GlobalInit(n, len, error)
      PROVE  Declarations!Next
  <2> DEFINE f == Find(table, n, Decl)
             v == Attach(table, f, "extra", len)
  <2>1. fences = <<>> /\ fences' = <<>> /\ f # 0 /\ table' \in {table, v}
    BY <1>3 DEF GlobalInit
  <2>2. f \in Symbols(table) /\ len \in Nat \ {0}
    BY <2>1, FindInTable, TableAssumption
  <2> HIDE DEF f
  <2>3. Visible(v) = Visible(table)
    BY <1>0, <2>1, <2>2, AttachDeclares
  <2> HIDE DEF v
  <2> QED BY <1>1, <2>1, <2>3, ExtendsSame
<1>4. ASSUME NEW n \in Names, NEW len \in DataSizes, Structure(n, len)
      PROVE  Declarations!Next
  BY <1>0, <1>1, <1>4, PrototypeDeclares DEF Structure, Kinds
<1>5. ASSUME NEW n \in Names, NEW params \in Parameters, NEW len \in DataSizes,
             NewFunction(n, params, len)
      PROVE  Declarations!Next
  <2> DEFINE v == AddPrototype(table, n, len)
             s == NextOffset(table, n)
  <2>1. fences = <<>> /\ fences' = <<FenceOf(v, s)>> /\ table' = AddParameters(v, params)
    BY <1>5 DEF NewFunction
  <2>2. TableInv(v, <<>>, globals \cup {s}) /\ s \in Symbols(v)
    BY <1>0, <2>1, PrototypeInv DEF AddPrototype, Kinds
  <2>3. Declarations!Extends(Visible(v), Visible(table))
    BY <1>0, <2>1, PrototypeDeclares DEF AddPrototype, Kinds
  <2> HIDE DEF v, s
  <2> QED BY <2>1, <2>2, <2>3, EnterStep DEF Declarations!Next
<1>6. ASSUME NEW n \in Names, NEW params \in Parameters, NEW renamed \in BOOLEAN,
             NEW agrees \in BOOLEAN, NEW len \in DataSizes,
             KnownFunction(n, params, renamed, agrees, len)
      PROVE  Declarations!Next
  <2> DEFINE s == Find(table, n, Decl)
             t == IF renamed THEN Attach(table, s, "string", len) ELSE table
             fn == IF agrees THEN s ELSE 0
             ps == IF agrees THEN params ELSE <<>>
  <2>1. /\ fences = <<>> /\ s # 0 /\ fences' = <<FenceOf(t, fn)>>
        /\ table' = IF agrees THEN AddParameters(t, params) ELSE t
    BY <1>6 DEF KnownFunction
  <2>2. s \in Symbols(table) /\ len \in Nat \ {0}
    BY <2>1, FindInTable, TableAssumption
  <2> HIDE DEF s
  <2>3. TableInv(t, <<>>, globals) /\ s \in Symbols(t)
    BY <1>0, <2>1, <2>2, AttachInv
  <2>4. Visible(t) = Visible(table)
    BY <1>0, <2>1, <2>2, AttachDeclares
  <2> HIDE DEF t
  <2>5. table' = AddParameters(t, ps) /\ ps \in Parameters
    BY <2>1 DEF AddParameters, Parameters
  <2>6. fn = 0 \/ fn \in Symbols(t)
    BY <2>3
  <2> HIDE DEF fn, ps
  <2> QED BY <2>1, <2>3, <2>4, <2>5, <2>6, EnterStep, ExtendsSame DEF Declarations!Next
<1>7. ASSUME FunctionInError
      PROVE  Declarations!Next
  <2>1. /\ fences = <<>> /\ fences' = <<FenceOf(table, 0)>>
        /\ table' = AddParameters(table, <<>>) /\ <<>> \in Parameters
    BY <1>7 DEF FunctionInError, AddParameters, Parameters
  <2> QED BY <1>0, <2>1, EnterStep, ExtendsSame DEF Declarations!Next
<1>8. ASSUME NEW n \in Names, LocalVariable(n)
      PROVE  Declarations!Next
  <2> DEFINE u == Add(table, n, "Variable")
  <2>1. fences' = fences /\ table' = u
    BY <1>8 DEF LocalVariable
  <2>2. /\ Declarations!Extends(Visible(u), Visible(table))
        /\ \A x \in Nat : x <= table.size => DeclaredBelow(u, x) = DeclaredBelow(table, x)
    BY AddDeclares DEF Kinds
  <2> HIDE DEF u
  <2>3. \A i \in DOMAIN fences : fences[i].size \in Nat /\ fences[i].size <= table.size
    BY <1>0 DEF TableInv, Fenced, Fence
  <2>4. ScopesOf(table', fences') = ScopesOf(table, fences)
    BY <2>1, <2>2, <2>3 DEF ScopesOf
  <2> QED BY <2>1, <2>2, <2>4 DEF Declarations!Next, Declarations!Declare, ScopesOf, Visible
<1>9. ASSUME BeginScope
      PROVE  Declarations!Next
  <2> DEFINE f == FenceOf(table, 0)
             scp == ScopesOf(table, fences)
  <2>1. fences' = Append(fences, f) /\ table' = table
    BY <1>9 DEF BeginScope
  <2>2. f \in Fence /\ f.size = table.size
    BY DEF TableInv, WellFormed, FenceOf, Fence
  <2> HIDE DEF f
  <2>3. ScopesOf(table, fences') = Append(scp, Visible(table))
    BY <1>0, <2>1, <2>2, ScopesOfSequences DEF Visible
  <2>4. Len(fences) + 1 \in DOMAIN fences' /\ fences'[Len(fences) + 1] = f
    BY <1>0, <2>1, <2>2
  <2>5. Visible(table) \in {ScopesOf(table, fences')[i] : i \in DOMAIN ScopesOf(table, fences')}
    BY <2>2, <2>4 DEF ScopesOf, Visible
  <2> HIDE DEF scp
  <2> QED BY <2>1, <2>3, <2>5, ExtendsSame
          DEF Declarations!Next, Declarations!Enter, ScopesOf, Visible, scp
<1>10. ASSUME NEW i \in DOMAIN fences, table' = Restore(table, fences[i]),
              fences' = SubSeq(fences, 1, i - 1)
       PROVE  Declarations!Leave
  <2> DEFINE v == Restore(table, fences[i])
             scp == ScopesOf(table, fences)
             ps == SubSeq(fences, 1, i - 1)
  <2>1. /\ Visible(v) = DeclaredBelow(table, fences[i].size)
        /\ \A x \in Nat : x <= fences[i].size => DeclaredBelow(v, x) = DeclaredBelow(table, x)
    BY RestoreDeclares
  <2>2. /\ i \in DOMAIN scp /\ scp[i] = DeclaredBelow(table, fences[i].size)
        /\ ScopesOf(table, ps) = SubSeq(scp, 1, i - 1)
    BY <1>0, ScopesOfSequences
  <2> HIDE DEF v
  <2>3. \A k \in DOMAIN ps : ps[k].size \in Nat /\ ps[k].size <= fences[i].size
    <3>1. \A k \in DOMAIN ps : k \in 1 .. i /\ k \in DOMAIN fences /\ ps[k] = fences[k]
      BY <1>0
    <3> HIDE DEF ps
    <3> QED BY <1>0, <3>1 DEF TableInv, Fenced, Fence
  <2> HIDE DEF ps
  <2>4. ScopesOf(v, ps) = ScopesOf(table, ps)
    BY <2>1, <2>3 DEF ScopesOf
  <2>5. /\ Visible(table') = scp[i]
        /\ ScopesOf(table', fences') = SubSeq(scp, 1, i - 1)
    BY <1>10, <2>1, <2>2, <2>4 DEF v, ps
  <2> QED BY <2>2, <2>5 DEF Declarations!Leave, ScopesOf, Visible
<1>11. ASSUME NEW i \in DOMAIN fences, EndScope(i)
       PROVE  Declarations!Next
  BY <1>10, <1>11 DEF EndScope, Declarations!Next
<1>12. ASSUME EndPrototype
       PROVE  Declarations!Next
  <2>1. 1 \in DOMAIN fences
    BY <1>0, <1>12 DEF EndPrototype
  <2> QED BY <1>0, <1>10, <1>12, <2>1 DEF EndPrototype, Declarations!Next
<1>13. ASSUME NEW body \in DataSizes \cup {0}, EndFunction(body)
       PROVE  Declarations!Next
  <2> DEFINE s == fences[1].fn
             t == Restore(table, fences[1])
             v == Attach(t, s, "code", body)
             scp == ScopesOf(table, fences)
  <2>1. 1 \in DOMAIN fences /\ body \in Nat
    <3>1. Len(fences) = 1
      BY <1>13 DEF EndFunction
    <3> QED BY <1>0, <3>1, TableAssumption
  <2>2. TableInv(t, <<>>, globals) /\ (s # 0 => s \in Symbols(t))
    <3>1. TableInv(t, SubSeq(fences, 1, 1 - 1), globals) /\ (s # 0 => s \in Symbols(t))
      BY <2>1, RestoreInv
    <3> QED BY <1>0, <3>1
  <2>3. Visible(t) = DeclaredBelow(table, fences[1].size)
    BY <2>1, RestoreDeclares
  <2>4. fences' = <<>> /\ (table' = t \/ (table' = v /\ s # 0 /\ body # 0))
    <3>1. fences' = <<>>
      BY <1>13 DEF EndFunction
    <3>2. table' = IF s # 0 /\ body # 0 /\ ~HasCode(t, s) THEN v ELSE t
      BY <1>13, Zenon DEF EndFunction
    <3> HIDE DEF v, t, s
    <3> QED BY <3>1, <3>2
  <2> HIDE DEF s, t
  <2>5. table' = v /\ s # 0 /\ body # 0 => Visible(table') = Visible(t)
    <3>1. ASSUME s # 0, body # 0 PROVE Visible(v) = Visible(t)
      <4>1. s \in Symbols(t) /\ body \in Nat \ {0}
        BY <2>1, <2>2, <3>1
      <4> QED BY <2>2, <4>1, AttachDeclares
    <3> HIDE DEF v
    <3> QED BY <3>1
  <2>6. Visible(table') = DeclaredBelow(table, fences[1].size)
    BY <2>3, <2>4, <2>5
  <2>7. /\ 1 \in DOMAIN scp /\ scp[1] = DeclaredBelow(table, fences[1].size)
        /\ ScopesOf(table, SubSeq(fences, 1, 1 - 1)) = SubSeq(scp, 1, 1 - 1)
    BY <1>0, <2>1, ScopesOfSequences
  <2>8. ScopesOf(table', fences') = ScopesOf(table, <<>>)
    BY <2>4 DEF ScopesOf
  <2>9. Visible(table') = scp[1] /\ ScopesOf(table', fences') = SubSeq(scp, 1, 1 - 1)
    BY <1>0, <2>6, <2>7, <2>8
  <2> QED BY <2>7, <2>9 DEF Declarations!Next, Declarations!Leave, ScopesOf, Visible
<1>14. CASE UNCHANGED tableVars
  BY <1>14 DEF tableVars
<1> QED BY <1>2, <1>3, <1>4, <1>5, <1>6, <1>7, <1>8, <1>9, <1>11, <1>12, <1>13, <1>14 DEF TableNext

(* The table implements NscDeclarations: whatever is declared in a scope,  *)
(* what is visible when it ends is what was visible where it began.        *)
THEOREM TableImplementsDeclarations == TableSpec => ImplementsDeclarations
<1>1. TableInit => Declarations!Init
  BY DEF TableInit, Declarations!Init
<1>2. TableInv(table, fences, globals) /\ [TableNext]_tableVars
      => [Declarations!Next]_<<DeclaredBelow(table, table.size),
                               [i \in DOMAIN fences |-> DeclaredBelow(table, fences[i].size)]>>
  BY StepDeclares DEF Visible, ScopesOf
<1> QED BY <1>1, <1>2, TableInvariant, PTL DEF TableSpec, ImplementsDeclarations, Declarations!Spec
=============================================================================
