----------------------------- MODULE NscPreproc -----------------------------
(***************************************************************************)
(* The lines the lexer of CNscContext gets: files included once, directives *)
(* with their conditional groups, macros replaced token by token, comments *)
(* across lines.                                                           *)
(*                                                                         *)
(* A file is a sequence of lines that is chosen while it is read.  A line  *)
(* is its directive and operands, or its tokens; where it is malformed the *)
(* operand says so.  Phase 2 reads the same lines once more.               *)
(***************************************************************************)
EXTENDS Integers, Sequences

CONSTANTS Files, Main,   \* what can be read; the script among them
          Missing,       \* what cannot
          BaseName,      \* NwnBasename: the name AddStream registers
          Length,        \* how many lines a file may have
          Lines,         \* what may stand in a line
          Words,         \* identifiers
          BuiltIn        \* the macros of SetupPreprocessor, their values numbers

(* Tokens beside words: digits, the ends of a comment, and what makes a    *)
(* comment of the rest of the line. *)
Token == Words \cup {"0", "1", "/*", "*/", "//"}

Directives == {"text", "include", "define", "undef", "ifdef", "ifndef", "if", "elif", "else",
               "endif", "error", "unknown"}

(* operand is a name, for #if and #elif also a digit; negated is that of   *)
(* #if; last says that the file ends right behind this line.  A malformed  *)
(* line fails the tests of its own directive. *)
Line == [op : Directives, operand : Words \cup Files \cup Missing \cup {"0", "1", ""},
         value : Seq(Token), negated : BOOLEAN, last : BOOLEAN, malformed : BOOLEAN]

ASSUME PreprocAssumption ==
    /\ Main \in Files /\ Length \in Nat \ {0}
    /\ Lines \subseteq Line
    /\ BuiltIn \in Seq(Words)
    /\ BaseName \in [Files -> Files]

VARIABLES enabled,    \* GetPreprocessorEnabled ()
          strict,     \* GetIncludeTerminatesComment ()
          streams,    \* m_pStreamTop and below: how many lines each may still have
          files,      \* m_asFiles
          ifs,        \* m_cPreprocIfs
          truth,      \* of each of them: whether the condition of its branch is
                      \* true, and that of one before it
          defines,    \* m_cDefines
          rest,       \* of the line, from pszNextTokenPos
          raw,        \* how many tokens up to pszNextUnreplacedTokenPos
          mode,       \* where yylex is: "code", "comment", "replace" or "end"
          errors,     \* GetErrors () > 0
          replacing   \* the locals of ReplaceToken

lexing == <<rest, raw, mode, replacing>>
preprocVars == <<enabled, strict, streams, files, ifs, truth, defines, lexing, errors>>

NotReplacing == [word |-> "", value |-> <<>>, seen |-> {}]

PreprocInit ==
    /\ enabled \in BOOLEAN /\ strict \in BOOLEAN
    /\ streams = <<Length>> /\ files = {Main}
    /\ ifs = <<>> /\ truth = <<>>
    /\ defines = IF enabled
                 THEN [n \in DOMAIN BuiltIn |-> [name |-> BuiltIn[n], id |-> n - 1,
                                                 value |-> <<"1">>, builtIn |-> TRUE]]
                 ELSE <<>>
    /\ rest = <<>> /\ raw = 0 /\ mode = "code"
    /\ errors = FALSE
    /\ replacing = NotReplacing

-----------------------------------------------------------------------------
(* m_cDefineLookup. *)
Defined(name) == \E n \in DOMAIN defines : defines[n].name = name
Lookup(name) == CHOOSE n \in DOMAIN defines : defines[n].name = name

(* What a macro stands for.  Those the compiler makes up (__LINE__ and     *)
(* so on) are constants here, for no directive depends on their text. *)
GetDefineValue(name) == defines[Lookup(name)].value

(* Faulty: entries that move down keep their number. *)
WithoutRenumbering(n) == [m \in 1 .. Len(defines) - 1 |-> IF m < n THEN defines[m] ELSE defines[m + 1]]

Without(n) == [m \in 1 .. Len(defines) - 1 |->
                 IF m < n THEN defines[m] ELSE [defines[m + 1] EXCEPT !.id = @ - 1]]

Undefined(name) == IF Defined(name) /\ ~defines[Lookup(name)].builtIn
                   THEN Without(Lookup(name)) ELSE defines

(* A macro that is there already is replaced, unless it is built in. *)
CreateDefine(name, value) ==
    IF Defined(name) /\ defines[Lookup(name)].builtIn THEN defines
    ELSE LET others == Undefined(name) IN
         Append(others, [name |-> name, id |-> Len(others), value |-> value, builtIn |-> FALSE])

(* The conditional groups: PreprocessorIf. *)
Top(stack) == stack[Len(stack)]
Pop(stack) == SubSeq(stack, 1, Len(stack) - 1)
Exchange(stack, new) == Append(Pop(stack), new)

IsPreprocessorIfSkip == ifs # <<>> /\ Top(ifs).fSkip

PreprocessorEnterIf(value) ==
    /\ ifs' = Append(ifs, [fSkip |-> ~value \/ IsPreprocessorIfSkip,
                           fSatisfied |-> value /\ ~IsPreprocessorIfSkip,
                           fIgnore |-> IsPreprocessorIfSkip,
                           fHasElse |-> FALSE])
    /\ truth' = Append(truth, [now |-> value, before |-> FALSE])

(* Another branch of the group, which has a value of its own. *)
Branch(value) == truth' = Exchange(truth, [now |-> value,
                                           before |-> Top(truth).now \/ Top(truth).before])

ContinuePreprocessorIf(top, value) ==
    ifs' = Exchange(ifs, [top EXCEPT !.fSkip = ~value, !.fSatisfied = @ \/ value])

(* Faulty: a branch behind the one that was taken is taken as well. *)
ElifAnyway(value) ==
    IF Top(ifs).fIgnore THEN ifs' = ifs ELSE ContinuePreprocessorIf(Top(ifs), value)

ProcessElif(value) ==
    IF Top(ifs).fIgnore THEN ifs' = ifs
    ELSE ContinuePreprocessorIf(Top(ifs), value /\ ~Top(ifs).fSatisfied)

ProcessElse ==
    LET top == [Top(ifs) EXCEPT !.fHasElse = TRUE] IN
    IF top.fIgnore THEN ifs' = Exchange(ifs, top)
    ELSE ContinuePreprocessorIf(top, ~top.fSatisfied)

(* The value of a macro or digit in #if: none is 0, an empty one 1. *)
Value(operand) == IF operand \in {"0", "1"} THEN <<operand>>
                  ELSE IF ~Defined(operand) THEN <<"0">>
                  ELSE IF GetDefineValue(operand) = <<>> THEN <<"1">>
                  ELSE GetDefineValue(operand)

Number(value) == \A n \in DOMAIN value : value[n] \in {"0", "1"}

(* atol of the value, negated. *)
IfHolds(l) == (Value(l.operand)[1] = "1") # l.negated

(* The name of #ifdef is tested with what follows it, down to the end of   *)
(* the line; only behind the last line of a file there is nothing. *)
IfdefHolds(l) == (l.op = "ifdef") <=> (l.last /\ Defined(l.operand))

Complain == errors' = TRUE
Fine == errors' = errors
SameGroups == UNCHANGED <<ifs, truth>>

(* What the directives of conditional groups do, in a group that is        *)
(* skipped, too; a malformed one only complains. *)
Conditional(l) ==
    \/ /\ l.op \in {"ifdef", "ifndef"}
       /\ PreprocessorEnterIf(IfdefHolds(l)) /\ Fine
    \/ /\ l.op = "if"
       /\ IF Number(Value(l.operand)) THEN PreprocessorEnterIf(IfHolds(l)) /\ Fine
                                      ELSE SameGroups /\ Complain
    \/ /\ l.op = "elif"
       /\ IF Number(Value(l.operand)) /\ ifs # <<>>
          THEN ProcessElif(IfHolds(l)) /\ Branch(IfHolds(l)) /\ Fine
          ELSE SameGroups /\ Complain
    \/ /\ l.op = "else"
       /\ IF ifs # <<>> /\ ~Top(ifs).fHasElse THEN ProcessElse /\ Branch(TRUE) /\ Fine
                                              ELSE SameGroups /\ Complain
    \/ /\ l.op = "endif"
       /\ IF ifs # <<>> THEN ifs' = Pop(ifs) /\ truth' = Pop(truth) /\ Fine
                        ELSE SameGroups /\ Complain

Grouping == {"ifdef", "ifndef", "if", "elif", "else", "endif"}

(* The other directives. *)
Effect(l) ==
    \/ /\ l.op = "define" /\ defines' = CreateDefine(l.operand, l.value) /\ Fine
    \/ /\ l.op = "undef" /\ defines' = Undefined(l.operand) /\ Fine
    \/ /\ l.op = "error" /\ defines' = defines /\ Complain

(* The streams once line l of the top one is read. *)
Remaining(l) == [streams EXCEPT ![Len(streams)] = IF l.last THEN 0 ELSE @ - 1]

Included(name) == name \in files

(* Once per file; a file that cannot be read ends the input. *)
Include(l) ==
    /\ l.op = "include"
    /\ \/ /\ Included(l.operand)
          /\ streams' = Remaining(l)
          /\ Fine /\ UNCHANGED <<files, mode>>
       \/ /\ ~Included(l.operand) /\ l.operand \in Files
          /\ streams' = Append(Remaining(l), Length)
          /\ files' = files \cup {BaseName[l.operand]}
          /\ Fine /\ mode' = mode
       \/ /\ ~Included(l.operand) /\ l.operand \notin Files
          /\ streams' = Remaining(l)
          /\ mode' = "end" /\ Complain /\ files' = files

(* The line goes to yylex. *)
Deliver(l) == rest' = l.value /\ raw' = 0
Nothing == UNCHANGED <<rest, raw>>

NeedsLine == mode \in {"code", "comment"} /\ rest = <<>> /\ streams # <<>>

(* ReadNextLine, when the top stream has another line.  Without the        *)
(* preprocessor only #include is known, and #define is refused. *)
ReadNextLine(l) ==
    /\ NeedsLine /\ Top(streams) > 0
    /\ UNCHANGED <<enabled, strict, replacing>>
    /\ \/ /\ mode = "comment" \/ (l.op = "text" /\ ~IsPreprocessorIfSkip)
          /\ Deliver(l)
          /\ Fine /\ SameGroups /\ UNCHANGED <<files, defines, mode>>
          /\ streams' = Remaining(l)
       \/ /\ mode = "code" /\ IsPreprocessorIfSkip /\ l.op \notin Grouping
          /\ Nothing
          /\ Fine /\ SameGroups /\ UNCHANGED <<files, defines, mode>>
          /\ streams' = Remaining(l)
       \/ /\ mode = "code" /\ ~IsPreprocessorIfSkip
          /\ Include(l)
          /\ Nothing /\ SameGroups /\ defines' = defines
       \/ /\ mode = "code" /\ enabled /\ ~l.malformed
          /\ \/ Conditional(l) /\ defines' = defines
             \/ ~IsPreprocessorIfSkip /\ Effect(l) /\ SameGroups
          /\ Nothing /\ UNCHANGED <<files, mode>>
          /\ streams' = Remaining(l)
       \/ /\ mode = "code"
          /\ \/ enabled /\ l.malformed /\ l.op \in Grouping
             \/ enabled /\ l.malformed /\ ~IsPreprocessorIfSkip
                        /\ l.op \notin Grouping \cup {"text", "include", "unknown"}
             \/ ~enabled /\ l.op = "define"
          /\ Nothing
          /\ Complain /\ SameGroups /\ UNCHANGED <<files, defines, mode>>
          /\ streams' = Remaining(l)
       \/ /\ mode = "code" /\ ~IsPreprocessorIfSkip
          /\ \/ l.op = "unknown"
             \/ ~enabled /\ l.op \notin {"text", "include", "define"}
          /\ Deliver(l)
          /\ Complain /\ SameGroups /\ UNCHANGED <<files, defines, mode>>
          /\ streams' = Remaining(l)

(* Faulty: only the end of the script looks for open groups. *)
UnclosedInCode == mode = "code" /\ ifs # <<>>

Unclosed == ifs # <<>>

(* ReadNextLine at the end of a stream: the one below goes on, with the    *)
(* groups as they are.  In a comment the input ends there, too, unless the *)
(* comment is to end with an include. *)
EndOfStream ==
    /\ NeedsLine
    /\ IF mode = "comment" \/ Len(streams) = 1
       THEN /\ errors' = (errors \/ Unclosed)
            /\ mode' = IF mode = "comment" /\ strict /\ Len(streams) > 1 THEN "code" ELSE "end"
            /\ streams' = [streams EXCEPT ![Len(streams)] = 0]
       ELSE /\ streams' = Pop(streams)
            /\ UNCHANGED <<mode, errors>>
    /\ UNCHANGED <<enabled, strict, files, ifs, truth, defines, rest, raw, replacing>>

-----------------------------------------------------------------------------
(* yylex: the next token. *)
Skip(n) == rest' = SubSeq(rest, n + 1, Len(rest)) /\ raw' = IF raw > n THEN raw - n ELSE 0

SkipComment ==
    /\ mode = "comment" /\ rest # <<>>
    /\ Skip(1)
    /\ mode' = IF Head(rest) = "*/" THEN "code" ELSE mode
    /\ UNCHANGED <<enabled, strict, streams, files, ifs, truth, defines, replacing, errors>>

Replaceable == Head(rest) \in Words /\ raw = 0 /\ Defined(Head(rest))

(* A token that goes to the parser, or opens a comment. *)
Lex ==
    /\ mode = "code" /\ rest # <<>> /\ ~Replaceable
    /\ IF Head(rest) = "//" THEN rest' = <<>> /\ raw' = 0 ELSE Skip(1)
    /\ mode' = IF Head(rest) = "/*" THEN "comment" ELSE mode
    /\ UNCHANGED <<enabled, strict, streams, files, ifs, truth, defines, replacing, errors>>

BeginReplace ==
    /\ mode = "code" /\ rest # <<>> /\ Replaceable
    /\ mode' = "replace"
    /\ replacing' = [word |-> Head(rest), value |-> <<Head(rest)>>, seen |-> {}]
    /\ UNCHANGED <<enabled, strict, streams, files, ifs, truth, defines, rest, raw, errors>>

(* Faulty: follows a chain as long as there are macros. *)
NoMacroLeft(value, seen) == Len(value) # 1 \/ ~Defined(value[1])

(* The chain ends with what is no macro, or one met before. *)
ChainEnds(value, seen) ==
    \/ Len(value) # 1 \/ ~Defined(value[1])
    \/ defines[Lookup(value[1])].id \in seen

(* ReplaceToken, one macro of the chain.  What comes out is not looked at  *)
(* again: pszNextUnreplacedTokenPos is behind it. *)
ReplaceToken ==
    /\ mode = "replace"
    /\ LET value == replacing.value IN
       IF ChainEnds(value, replacing.seen)
       THEN /\ rest' = value \o Tail(rest)
            /\ raw' = Len(value)
            /\ mode' = "code"
            /\ replacing' = NotReplacing
       ELSE LET entry == defines[Lookup(value[1])] IN
            /\ replacing' = [replacing EXCEPT !.value = GetDefineValue(value[1]),
                                              !.seen = @ \cup {entry.id}]
            /\ UNCHANGED <<rest, raw, mode>>
    /\ UNCHANGED <<enabled, strict, streams, files, ifs, truth, defines, errors>>

PreprocNext == \/ \E l \in Lines : ReadNextLine(l)
               \/ EndOfStream
               \/ SkipComment \/ Lex \/ BeginReplace \/ ReplaceToken

PreprocSpec == PreprocInit /\ [][PreprocNext]_preprocVars /\ WF_preprocVars(PreprocNext)

-----------------------------------------------------------------------------
If == [fSkip : BOOLEAN, fSatisfied : BOOLEAN, fIgnore : BOOLEAN, fHasElse : BOOLEAN]

(* Of the branches of a group the first that holds is taken, and only      *)
(* within a branch that is taken itself. *)
Taken(n) == truth[n].now /\ ~truth[n].before

(* Lines are skipped just where an enclosing group has its branch not      *)
(* taken, however groups are nested, whichever files they are opened in    *)
(* and whatever is defined meanwhile (ProcessIf, ProcessElse,              *)
(* PreprocessorEnterIf). *)
SelectsBranches ==
    IsPreprocessorIfSkip <=> \E n \in DOMAIN truth : ~Taken(n)

(* An input that is read without an error has closed every group: what     *)
(* leaves an include is closed by who included it, or reported             *)
(* ("Unexpected end of file encountered while matching preprocessor #if    *)
(* conditional construct", NscContext.cpp:1452). *)
GroupsClosed == (mode = "end" /\ ~errors) => ifs = <<>>

(* What a chain of macros leads to, by following it as often as there are  *)
(* macros. *)
Followed(value) == IF Len(value) = 1 /\ Defined(value[1]) THEN defines[Lookup(value[1])].value
                                                          ELSE value
Chain(word) == LET after[n \in 0 .. Len(defines)] ==
                     IF n = 0 THEN <<word>> ELSE Followed(after[n - 1])
               IN after

(* ReplaceToken ends a chain where it ends, and only stops short of that   *)
(* in a circle. *)
ChainsFollowed ==
    (mode = "replace" /\ ChainEnds(replacing.value, replacing.seen)) =>
      LET chain == Chain(replacing.word)
          end == chain[Len(defines)]
      IN IF end = Followed(end) \/ Len(end) # 1 \/ ~Defined(end[1])
         THEN replacing.value = end
         ELSE \E n \in DOMAIN chain : replacing.value = chain[n] /\ n > 0

(* The lexer comes to the end of the input whatever includes what and      *)
(* however macros are defined. *)
ReadsToTheEnd == <>(mode = "end")
=============================================================================
