------------------------------ MODULE NscFences ------------------------------
(***************************************************************************)
(* The fences of a function while its body is parsed: NscSymbolFence in    *)
(* entries of the parser's stack that are used over and over, linked from  *)
(* m_pCurrentFence; and what is told from them, whether break, continue    *)
(* and case are in place, which labels a switch has, where locals are, and *)
(* whether all paths return a value.                                       *)
(*                                                                         *)
(* One action is one production of the grammar.  What a statement can do   *)
(* to the flow of control is noted beside, from the script alone: reached, *)
(* and in open.  A condition may come out either way.                      *)
(***************************************************************************)
EXTENDS Integers, Sequences, FiniteSets

CONSTANTS Entries,     \* of the parser's stack
          NoFence,     \* NULL
          Values,      \* of case labels
          MaxDepth,    \* bound of the model: constructs within each other
          MaxItems     \* bound of the model: statements in the blocks of a function

ASSUME FencesAssumption ==
    /\ NoFence \notin Entries
    /\ MaxDepth \in Nat /\ MaxItems \in Nat

Loops == {"While", "Do", "For"}
Controls == Loops \cup {"If", "Else", "Switch"}

VARIABLES pool,      \* the fence of each entry, also of a free one
          used,      \* entries in use for a fence
          current,   \* m_pCurrentFence
          open,      \* the constructs being parsed, outermost first
          complete,  \* the one statement of the innermost construct is parsed
          reached,   \* control can get here
          items,     \* how many statements there were
          errors     \* GetErrors () > 0

fenceVars == <<pool, used, current, open, complete, reached, items, errors>>

-----------------------------------------------------------------------------
(* The union of NscSymbolFence: the labels of a switch, or something else. *)
Unset == [as |-> "other", cases |-> {}]
NewCases == [as |-> "switch", cases |-> {}]

NewFence == [fFenceValid |-> FALSE, nFenceType |-> "None", fn |-> "none", fEatScope |-> FALSE,
             fHasDefault |-> FALSE, nLocals |-> 0, nPrevLocals |-> 0,
             nFenceReturn |-> "Unknown", pNext |-> NoFence, extra |-> Unset]

(* Free and Initialize: an entry keeps its fence when it is used again, but *)
(* as one that is not valid.  What GetFence sets anyway is forgotten, and   *)
(* of the type all but whether it was a switch. *)
Kept(fence) == [NewFence EXCEPT !.nFenceType = IF fence.nFenceType = "Switch" THEN "Switch" ELSE "None",
                                !.extra = fence.extra]
Freed(fences, e) == [fences EXCEPT ![e] = Kept(@)]

(* Faulty: the labels of the last switch stay in the entry. *)
ExtraKept(old, type) == IF type = "Switch" /\ old.nFenceType # "Switch" THEN NewCases
                        ELSE IF type = "Function" THEN Unset ELSE old.extra

(* The copy of the fence of the table overwrites what the entry held (old). *)
(* A switch gets a new list of labels; the union of another fence has what  *)
(* was copied, or the counters of a function, and no label is read there.   *)
Extra(old, type) == IF type = "Switch" THEN NewCases ELSE Unset

(* GetFence.  fn is of the function: "value", "void", or "none" where the  *)
(* fence belongs to none.  The value of a switch is on the stack. *)
GetFence(e, type, eat, fn) ==
    [fFenceValid |-> TRUE, nFenceType |-> type, fn |-> fn, fEatScope |-> eat,
     fHasDefault |-> FALSE, nLocals |-> 0,
     nPrevLocals |-> (IF current = NoFence THEN 0
                      ELSE pool[current].nLocals + pool[current].nPrevLocals)
                     + (IF type = "Switch" THEN 1 ELSE 0),
     nFenceReturn |-> "Unknown", pNext |-> current, extra |-> Extra(pool[e], type)]

(* The fences from f outwards, up to the first of a type in T. *)
Nearest(fences, f, T) ==
    LET at[e \in Entries \cup {NoFence}] ==
          IF e = NoFence \/ fences[e].nFenceType \in T THEN e ELSE at[fences[e].pNext]
    IN at[f]

FenceTypes == Loops \cup {"If", "Switch", "Function"}

(* NscSetFenceReturn, from fence f: of the nearest that is no plain scope. *)
SetFenceReturn(fences, f, returns) ==
    LET e == Nearest(fences, f, FenceTypes) IN
    [fences EXCEPT ![e].nFenceReturn =
        IF ~returns THEN "No" ELSE IF @ = "Unknown" THEN "Yes" ELSE @]

(* RestoreFence. *)
Restored(e) == IF pool[e].fFenceValid THEN pool[e].pNext ELSE current

-----------------------------------------------------------------------------
FencesInit ==
    /\ pool = [e \in Entries |-> NewFence] /\ used = {} /\ current = NoFence
    /\ open = <<>> /\ complete = FALSE /\ reached = TRUE /\ items = 0 /\ errors = FALSE

Innermost == open[Len(open)]
Outer == SubSeq(open, 1, Len(open) - 1)
Fine == errors' = errors

(* Where a statement may come, and what comes behind one: a control        *)
(* statement has just one, and a function one block. *)
InBlock == open # <<>> /\ Innermost.kind = "Block"
Expected == open # <<>> /\ \/ InBlock /\ items < MaxItems
                           \/ Innermost.kind \in Controls /\ ~complete
Complete == items' = items + 1 /\ complete' = ~InBlock
Ready(kinds) == open # <<>> /\ Innermost.kind \in kinds /\ complete

(* A construct begins: its entry, and whether control gets there; break    *)
(* and continue, the labels and the first branch are noted as they come. *)
Construct(kind, e, endless) ==
    [kind |-> kind, entry |-> e, start |-> reached, endless |-> endless, broken |-> FALSE,
     continued |-> FALSE, first |-> FALSE, labels |-> {}, default |-> FALSE]

Begin(kind, e, endless) ==
    /\ Len(open) < MaxDepth
    /\ e \in Entries \ used /\ used' = used \cup {e}
    /\ open' = Append(open, Construct(kind, e, endless))
    /\ complete' = FALSE

(* NscBuildFunctionDeclarator, of one parameter; a function in error has    *)
(* no symbol. *)
BeginFunction(fn, e) ==
    /\ open = <<>> /\ Begin("Function", e, FALSE)
    /\ pool' = [pool EXCEPT ![e] = [GetFence(e, "Function", FALSE, fn) EXCEPT
                                      !.nLocals = IF fn = "none" THEN 0 ELSE 1]]
    /\ current' = e
    /\ reached' = TRUE /\ items' = 0
    /\ errors' = (errors \/ fn = "none")

(* NscBuildFunctionPrototype *)
Prototype ==
    /\ open # <<>> /\ Innermost.kind = "Function" /\ ~complete
    /\ current' = Restored(Innermost.entry) /\ used' = used \ {Innermost.entry}
    /\ pool' = Freed(pool, Innermost.entry)
    /\ open' = <<>>
    /\ UNCHANGED <<complete, reached, items, errors>>

(* NscBuildFunctionDef *)
EndFunction ==
    /\ Ready({"Function"})
    /\ LET fence == pool[Innermost.entry] IN
       errors' = (errors \/ (fence.fn = "value" /\ fence.nFenceReturn # "Yes"))
    /\ current' = Restored(Innermost.entry) /\ used' = used \ {Innermost.entry}
    /\ pool' = Freed(pool, Innermost.entry)
    /\ open' = <<>> /\ complete' = FALSE
    /\ UNCHANGED <<reached, items>>

(* NscBuildStatementFence: a block right behind a control statement has    *)
(* the fence of that. *)
BeginBlock(e) ==
    /\ Expected \/ (open # <<>> /\ Innermost.kind = "Function" /\ ~complete)
    /\ Begin("Block", e, FALSE)
    /\ IF pool[current].fEatScope
       THEN /\ pool' = [pool EXCEPT ![current].fEatScope = FALSE]
            /\ current' = current
       ELSE /\ pool' = [pool EXCEPT ![e] = GetFence(e, "Scope", FALSE, "none")]
            /\ current' = e
    /\ UNCHANGED <<reached, items, errors>>

(* NscBuildStatement with the fence of a block. *)
EndBlock ==
    /\ InBlock
    /\ current' = Restored(Innermost.entry) /\ used' = used \ {Innermost.entry}
    /\ open' = Outer
    /\ pool' = Freed(pool, Innermost.entry)
    /\ complete' = (Outer[Len(Outer)].kind # "Block")
    /\ UNCHANGED <<reached, items, errors>>

(* NscBuild5Block, at the start of a control statement. *)
BeginControl(kind, endless, e) ==
    /\ Expected /\ kind \in Controls \ {"Else"} /\ (endless => kind = "For")
    /\ Begin(kind, e, endless)
    /\ pool' = [pool EXCEPT ![e] = GetFence(e, kind, TRUE, "none")]
    /\ current' = e
    /\ reached' = (reached /\ kind # "Switch")
    /\ items' = items + 1 /\ Fine

FHadReturn == pool[current].nFenceReturn = "Yes"

(* NscBuild5Block, at the else: another fence for the other branch. *)
Else(e) ==
    /\ Ready({"If"})
    /\ e \in Entries \ used /\ used' = (used \ {Innermost.entry}) \cup {e}
    /\ LET outer == Restored(Innermost.entry)
           fence == [GetFence(e, "If", TRUE, "none") EXCEPT
                       !.nPrevLocals = pool[outer].nLocals + pool[outer].nPrevLocals,
                       !.pNext = outer]
           fences == [Freed(pool, Innermost.entry) EXCEPT ![e] = fence]
       IN pool' = IF FHadReturn THEN fences ELSE SetFenceReturn(fences, e, FALSE)
    /\ current' = e
    /\ open' = Append(Outer, [Innermost EXCEPT !.kind = "Else", !.entry = e, !.first = reached])
    /\ reached' = Innermost.start
    /\ complete' = FALSE /\ UNCHANGED <<items, errors>>

(* Where control gets behind a control statement. *)
Behind(c) ==
    CASE c.kind = "If" -> c.start \/ reached
      [] c.kind = "Else" -> c.first \/ reached
      [] c.kind \in {"While", "For"} -> c.broken \/ (c.start /\ ~c.endless)
      [] c.kind = "Do" -> c.broken \/ c.continued \/ reached
      [] c.kind = "Switch" -> c.broken \/ reached \/ (c.start /\ ~c.default)

(* Faulty: one branch that returns is enough. *)
EitherReturns(c, had) == had /\ c.kind \in {"If", "Else"}

BothReturn(c, had) == had /\ c.kind = "Else"

(* NscBuild5Block, at the end. *)
EndControl ==
    /\ Ready(Controls)
    /\ LET outer == Restored(Innermost.entry)
           fences == Freed(pool, Innermost.entry)
       IN /\ current' = outer
          /\ pool' = IF BothReturn(Innermost, FHadReturn)
                     THEN SetFenceReturn(fences, outer, TRUE) ELSE fences
    /\ used' = used \ {Innermost.entry}
    /\ open' = Outer
    /\ complete' = (Outer[Len(Outer)].kind # "Block")
    /\ reached' = Behind(Innermost)
    /\ UNCHANGED <<items, errors>>

-----------------------------------------------------------------------------
(* Statements that are complete at once. *)

(* Another, or one with an error. *)
Statement(error) ==
    /\ Expected /\ Complete
    /\ errors' = (errors \/ error)
    /\ UNCHANGED <<pool, used, current, open, reached>>

(* AddVariable *)
Declare ==
    /\ Expected /\ Complete
    /\ pool' = [pool EXCEPT ![current].nLocals = @ + 1]
    /\ UNCHANGED <<used, current, open, reached, errors>>

(* The innermost construct of a kind in K, 0 if there is none. *)
Around(K) == LET S == {n \in DOMAIN open : open[n].kind \in K}
             IN IF S = {} THEN 0 ELSE CHOOSE n \in S : \A m \in S : m <= n

(* NscBuildReturn.  The fence of the function tells what to return, unless *)
(* it is in error. *)
Return(value) ==
    /\ Expected /\ Complete
    /\ LET f == Nearest(pool, current, {"Function"}) IN
       errors' = (errors \/ pool[f].fn # IF value THEN "value" ELSE "void")
    /\ pool' = SetFenceReturn(pool, current, TRUE)
    /\ reached' = FALSE
    /\ UNCHANGED <<used, current, open>>

(* NscBuildBreakContinue *)
Break ==
    /\ Expected /\ Complete
    /\ IF Nearest(pool, current, Loops \cup {"Switch"}) = NoFence
       THEN errors' = TRUE /\ UNCHANGED <<open, reached>>
       ELSE /\ open' = [open EXCEPT ![Around(Loops \cup {"Switch"})].broken = @ \/ reached]
            /\ reached' = FALSE /\ Fine
    /\ UNCHANGED <<pool, used, current>>

Continue ==
    /\ Expected /\ Complete
    /\ IF Nearest(pool, current, Loops) = NoFence
       THEN errors' = TRUE /\ UNCHANGED <<open, reached>>
       ELSE /\ open' = [open EXCEPT ![Around(Loops)].continued = @ \/ reached]
            /\ reached' = FALSE /\ Fine
    /\ UNCHANGED <<pool, used, current>>

(* The switch a label is for; outside of one it is left out with a warning. *)
SwitchFence == LET e == Nearest(pool, current, FenceTypes)
               IN IF pool[e].nFenceType = "Switch" THEN e ELSE NoFence
InSwitch == Around(Controls \cup {"Function"})

(* NscBuildCase.  A second label of a value is an error, and so is a label *)
(* behind a declaration. *)
Case(v) ==
    /\ Expected /\ Complete
    /\ IF SwitchFence = NoFence THEN UNCHANGED <<pool, open, reached, errors>>
       ELSE LET fence == pool[SwitchFence] IN
            /\ pool' = [pool EXCEPT ![SwitchFence].extra.cases = @ \cup {v}]
            /\ errors' = (errors \/ fence.nLocals # 0 \/ v \in fence.extra.cases)
            /\ open' = [open EXCEPT ![InSwitch].labels = @ \cup {v}]
            /\ reached' = (reached \/ open[InSwitch].start)
    /\ UNCHANGED <<used, current>>

Default ==
    /\ Expected /\ Complete
    /\ IF SwitchFence = NoFence THEN UNCHANGED <<pool, open, reached, errors>>
       ELSE LET fence == pool[SwitchFence] IN
            /\ pool' = [pool EXCEPT ![SwitchFence].fHasDefault = TRUE]
            /\ errors' = (errors \/ fence.nLocals # 0 \/ fence.fHasDefault)
            /\ open' = [open EXCEPT ![InSwitch].default = TRUE]
            /\ reached' = (reached \/ open[InSwitch].start)
    /\ UNCHANGED <<used, current>>

(* Bound of the model: what is behind an error is not parsed.  The parser  *)
(* goes on, but an error sets nothing that it reads. *)
FencesNext ==
    /\ ~errors
    /\ \/ \E fn \in {"value", "void", "none"}, e \in Entries : BeginFunction(fn, e)
       \/ Prototype \/ EndFunction
       \/ \E e \in Entries : BeginBlock(e)
       \/ EndBlock
       \/ \E kind \in Controls, endless \in BOOLEAN, e \in Entries : BeginControl(kind, endless, e)
       \/ \E e \in Entries : Else(e)
       \/ EndControl
       \/ \E error \in BOOLEAN : Statement(error)
       \/ Declare
       \/ \E value \in BOOLEAN : Return(value)
       \/ Break \/ Continue
       \/ \E v \in Values : Case(v)
       \/ Default

FencesSpec == FencesInit /\ [][FencesNext]_fenceVars

-----------------------------------------------------------------------------
(* A function with a result that is accepted does not end without a return *)
(* (NscMessage_ErrorNotAllPathsReturnValue): the flags of the fences on    *)
(* the way say yes only where no path leads to the end of the body. *)
AllPathsReturn ==
    [][(EndFunction /\ pool[Innermost.entry].fn = "value" /\ reached) => errors']_fenceVars

(* The constructs that have a fence, and the fence around the n-th one. *)
Fenced == {n \in DOMAIN open : pool[open[n].entry].fFenceValid}
FenceAround(n) == LET S == {m \in Fenced : m < n}
                  IN IF S = {} THEN NoFence
                     ELSE open[CHOOSE m \in S : \A k \in S : k <= m].entry

(* The chain of fences is that of the constructs around, each over the     *)
(* locals of the next; and a switch knows the labels it has had, whatever  *)
(* was parsed in its entry before. *)
FencesFollow ==
    /\ current = FenceAround(Len(open) + 1)
    /\ \A n \in Fenced :
         LET fence == pool[open[n].entry] IN
         /\ fence.pNext = FenceAround(n)
         /\ fence.pNext # NoFence =>
              fence.nPrevLocals = pool[fence.pNext].nLocals + pool[fence.pNext].nPrevLocals
                                  + (IF open[n].kind = "Switch" THEN 1 ELSE 0)
         /\ open[n].kind = "Switch" =>
              fence.extra = [as |-> "switch", cases |-> open[n].labels]
=============================================================================
