# A TLA+ model of the NWScript compiler

`nwnsc` compiles NWScript, the language of Neverwinter Nights, to the byte
code the game runs. This directory holds a model of it: TLA+ modules written
from the source, TLC configurations that check them on small instances, and
proofs, checked by TLAPS, of what holds for all of them.

The question behind most of it: *does the code the compiler writes do what the
script says?* The program runs in one thread, so the hard part is not
concurrency. It is belief: the code generator keeps, in a few counters and
tables, a belief about the stack and the jumps of a program that will run
later; the enumerators and the disassembler believe to know how long what
others have written is; readers believe to know where a file stands; the
caches believe that what they hold is fresh. The properties compare each
belief with what is the case.

## The system

Paths are below `src/`.

| Component | Source | State it keeps | Operations | What makes it correct |
|---|---|---|---|---|
| Command line | `nwnsc/nwnsc.cpp` | options, the queue of inputs, error counters | read arguments and a response file, expand wildcards, load, compile, disassemble and write each input | one failing file does not hide another; what is written belongs together |
| Compiler driver | `_NscLib/NscCompiler.cpp` | whether `nwscript` is in, resource cache, dependencies | initialise, compile in two phases, load and cache resources | the result and the code of a script do not depend on what was compiled before it |
| Lexer, preprocessor, symbols | `_NscLib/NscContext.*` | stack of input streams, stack of `#if`s, `#define`s, current fence, files | `ReadNextLine`, `ProcessIf/Else/Endif`, `AddVariable`, `AddPrototype`, `GetFence`, `RestoreFence` | conditionals nest whatever is included; a scope sees its own and the outer symbols, and none after it ends |
| Symbol table | `_NscLib/NscSymbolTable.h` | one growing buffer, hash chains of offsets, the fence | `Find`, `Add`, `AddNoHash`, `AppendData`, `GetFence`, `RestoreFence` | `Find` returns the innermost live symbol of a name; offsets survive growth |
| Grammar and parser routines | `_NscLib/NscParser.ypp`, `NscParserRoutines.cpp` | fences of the open scopes, PCode of the entries | one `NscBuild…` per production | an operand is where the generated code has it; folding changes no value |
| Parser stack | `_NscLib/NscPStackEntry.*` | PCode buffers, entries in use and free | push a code, allocate, free | an enumerator sees what was pushed |
| PCode enumerators | `_NscLib/NscPCodeEnumerator.*` | none | walk, print, look for side effects | each code is as long as its push made it |
| Code generator | `_NscLib/NscCodeGenerator.*` | output buffer, `m_sLinker`, depths of the stack, labels of the loop, functions in use, lines, debug symbols | `GatherUsed`, `CodeData`, `CodeRoutine`, `Code…`, `ForwardLabel`, `ForwardResolve`, `DefineLabel`, `ReferenceLabel`, `PurgeVariables` | every jump leads to its label; every operand finds its slot; the calls of the engine are those of the source |
| Decompiler | `_NscLib/NscDecompiler.cpp` | a position in the code | decode one instruction | the inverse of the generator's encoding |
| Resource manager, archives | `_NwnDataLib/ResourceManager.*`, `KeyFileReader.*`, `BifFileReader.*`, `FileWrapper.h` | the index of names, open handles, positions of files | load, index, open, read, close, query | the most precedent resource of a name; a handle reads its own bytes |
| Script reader, utilities | `_NwnDataLib/NWScriptReader.*`, `_NwnUtilLib` (`Ref.h`, `BufferParser.*`, JSON, file search), `_NscLib/NwnDoubleLinkList.h`, `NwnStreams.h` | cursors, links, reference counts | read, link, reference | no read past the end, no use after the last reference |
| Vendored code, base types | `easylogging++`, `optionparser.h`, `_NwnBaseLib` | | | not ours, or only declarations |

How they interact: `main` queues inputs and hands each to the driver, which
opens the script through the loader (its cache, the include path, then the
resource manager). The lexer feeds the parser; the parser's semantic actions
call back into the context for symbols and fences and leave PCode with every
function and global; the code generator then reads PCode and symbols, and
writes code, line table and debug symbols to streams, which `main` writes to
files. All of it runs in one thread; only `Ref.h` is written for several. The
script engine, which runs the code, is not in this repository; `README.md` of
the repository describes its interface.

What is hard here, with the line each hazard bites at, is the list "hazards"
of `PROJECT.json`.

## Modules

| Module | Models | State |
|---|---|---|
| `NscLabels` | what a linker of labels promises: an operand is written as soon as, and not before, both its jump and its label are there | `target`, `place`, `disp` |
| `NscLinker` | `ForwardLabel`, `ForwardResolve`, `DefineLabel`, `ReferenceLabel` over `m_sLinker`, with its chains of back links | `out`, `linker`, `jumps`, `disp` |
| `NscCodeGen` | `GenerateOutput`, `CodeRoutine`, `CodeData`, `CodeScanCase` and the `Code…` emitters | the linker, `code`, `work`, `depth`, `fn`, `brk`, `cont`, `default`, `cases`, `messages`, `nextLabel`, `prog` |
| `NscPCode` | what the parser guarantees of the PCode the generator gets, and `GatherUsed` of its routines | none: an assumption |
| `NscScope` | fences, stack offsets and PCode: the semantic actions for statements and functions | none: operators on syntax trees |
| `NscGather` | `GatherUsed`, the choice of globals to treat as constants, and the program the generator starts from | none |
| `NscExec` | the script engine, external: what the generator and the decompiler's table say each instruction does | `status`, `pc`, `stack`, `bp`, `frames`, `trace` |
| `NscSource` | what a script means, by evaluation of the syntax tree: the reference | none |
| `NscCompile` | the composition: compile, then run, and the properties of both | all of the above |
| `NscEncoding` | the bytes of each instruction in a buffer that grows, line entries, used files, intrinsics; and `NscScriptDecompile` reading them | `output`, `buffer`, `lineStart`, `asLines`, `asFiles`, `usedFiles`, `invoked`, `stage`, `listing` |
| `NscDebugSymbols` | `m_sLocalSymbols` and `m_anVariables`: `AddVariable`, `PurgeVariables` and their callers | `out`, `routine`, `nSPDepth`, `scopes`, `local` |
| `NscTypes` | the tables of operands: what the parser accepts, what the generator encodes | none |
| `NscArithmetic` | what operators compute, on cells of `Width` bits | none |
| `NscOperators` | the operators of the grammar on the parser's stack, with folding and short cuts | `optExpression`, `entries`, `built`, `trapped` |
| `NscMeaning` | what an expression means as written, what its code computes, and the comparison | as above |
| `NscPStack` | `CNscPStackEntry`, its buffers and lists; the enumerator and the side effect checker | `entries`, `allocated`, `reserve`, `pushed` |
| `NscFences` | `NscSymbolFence` in entries that are used again: blocks, control statements, break, continue, labels, return, and whether all paths return | `pool`, `used`, `current`, `errors`; noted beside: `open`, `complete`, `reached`, `items` |
| `NscDeclarations` | what the symbol table promises: scoped declarations | `visible`, `scopes` |
| `NscSymbolTable` | `CNscSymbolTable` under `CNscContext` and the parser: the growing buffer, hash chains, fences, what is declared and what is kept of it | `table`, `fences`, `globals` |
| `NscPreproc` | streams, includes, directives, conditional groups, macros and comments of `CNscContext` | `streams`, `files`, `ifs`, `defines`, `mode`, … |
| `NscCompiler` | `NscCompilerInitialize`, `NscCompileScript`, `LoadResource` and the cache | `cache`, `paths`, `initialized`, `g_Resources`, … |
| `Nwnsc` | `main`: arguments, batches, writing, exit code; extends `NscCompiler` | `argv`, `InFiles`, `phase`, `outcomes`, `outputs`, … |
| `BifFileReader`, `KeyFileReader` | the readers of archives over a mapped file: opening with every test, reading with a position | none: operators on readers |
| `ResourceArchive` | what the resource manager promises: a catalog, and handles that stand for a resource | `catalog`, `open`, `answer` |
| `ResourceManager` | loading of archives, the index, handles, reads and queries | `keyFiles`, `entries`, `ids`, `handles`, `nextHandle`, … |
| `MC…` | instances for TLC | |
| `NscCodeGenProofs` (with those of the linker and of `NscTypes`), `NscEncodingProofs`, `NscDebugProofs`, `NscSymbolTableProofs`, `NscPreprocProofs`, `NscParserProofs` (of the fences and of the parser's stack), `ResourceManagerProofs`, `NwnscProofs` (with those of the compiler) | theorems | |

`NscLinker` implements `NscLabels`, `NscSymbolTable` implements
`NscDeclarations`, `ResourceManager` implements `ResourceArchive`.
`NscCodeGen` extends `NscLinker` and uses its operations; `NscPCode` extends it
with what it may assume; `NscCompile` runs the
code `NscCodeGen` leaves behind on `NscExec` and compares with `NscSource`.
`NscMeaning` over `NscOperators` over `NscArithmetic` over `NscTypes` does the
same for expressions of every type. `Nwnsc` extends `NscCompiler`, as `main`
shares its compiler between inputs; `ResourceManager` extends the two readers.

### The generator

`CodeData` is a recursive descent over PCode that emits as it goes. Its C++
call stack is the sequence `work`: coding a node replaces it by the list of
what `CodeData` does for it, in the order of the source. Items that write an
instruction (`EmitIns`, `EmitJump`), place a label (`ResolveLabel`,
`DefineRoutineLabel`), or change a counter (`AdjustDepth`, `AdoptInit`, …) are
single steps. `depth` is `m_nSPDepth`, `m_nExpDepth`, `m_nBPDepth`; `brk` and
`cont` are the labels of the loop with `m_nBreakBlockDepth` and
`m_nContinueBlockDepth`. Every instruction is recorded with the depth the
generator believed in when it wrote it, which the properties compare with the
stack of the engine. An assertion of the source is a guard of the step: where
it would fail the generator stops, and the property `AssertsHold` says it never
does.

Two flags decide most of the generator's choices: `opt` (option `-o`) and
`v130` (the compiler version; below 130 and without `-o` the bugs of the stock
compiler are kept on purpose). `MCCompile` runs scripts under `opt` and `v130`,
under `v130` alone, and, where the stock bugs do not change what is compared,
under neither.

What the generator may assume is `PCodeAssumption` of `NscPCode`. A tree is not
taken apart by recursion there, which the proofs could not follow: the constants
`Exprs` and `About` name the nodes of a program and, of each statement, its
exits, its case labels and what its returns return, and the assumption relates
each node to the nodes it is made of. Expressions leave what their type takes;
the operands of an operator come in front of it; an `End` drops just what its
expression left; `break` and `continue` are within what they leave; a label
belongs to one statement; what is called was gathered. `MCCompile` computes both
constants from its scripts, and TLC evaluates the assumption on each of them.

A script is a syntax tree of records. Every variable of it is an `int` of one
slot: other types change sizes and opcodes, which `NscOperators` and
`NscEncoding` are about, not control. The families of `MCCompile` are built by
constructors, so that every script is one the parser accepts (`Rejected`
leaves out what `NscBuildCase` refuses).

The only observable effects of a script are calls of engine functions. The
engine answers `0` or `1` at will (`Returns`), and may decide at a
`STORE_STATE` to run the stored situation instead of what follows. `trace`
records calls, arguments and answers. `NscSource` replays the same answers on
the syntax tree: `go` is `"stop"` where it needs an answer the engine has not
given, and `"done"` where a situation ran to its end in place of the rest.
`SameCalls` compares, so a script that halts before its source has come to its
end is caught. A run ends at `MaxEvents` events.

### Expressions

`NscOperators` builds expressions the way the parser does, bottom up: a stack
of entries, each with its type, its code and `source`, what was written. Each
`Build…` action is one `NscBuild…` routine: it refuses operands as the table
does, folds constants and takes the short cuts for factors, shifts, `+= 1` and
constant left sides in the order of the source. `NscMeaning` evaluates code
and source from the same worlds and compares values, stores and calls.
Integers have `Width` bits and wrap, shift counts are cut to the width, as on
the processor the compiler is built for; floats are whole numbers, so what
rounding would tell apart is left out; a string is a number to base 3. The
smallest integer divided by -1 traps the compiler (`Trap`); a float division
by zero has no value to compare.

### Code in buffers

Two modules are about lengths. In `NscPStack` a cell is a structure of PCode or
a character behind one; the parts of a code are copied behind it and found by
their offsets, and `means` remembers what was pushed: a tree of codes, and
whether one of them stops the checker for side effects. `ProcessPCodeBlock` is a
recursive function over the length of the data, one step of the loop or one
block at a time, as in the code. An entry that is freed
keeps its buffer and is the next to be used. Entries are filled from other
entries, never from themselves, as the parser does. In `NscEncoding` an
instruction is a list of pieces, each with the room it asks for and the bytes
it writes; `buffer.beyond` is how far behind the end it wrote. The capacity of
the first buffer is a parameter, so that every piece meets the end at every
byte.

### The symbol table

`table.data` maps the offset where something starts to what is there: a symbol
with its name, kind, `nNext` and the offsets it refers to, or data with the
symbol it was appended for. `m_nSize`, `m_nAllocated` and the heads of the
chains are kept as they are; sizes are constants, so offsets collide, data is
cut off and room runs out as in the buffer. `MakeRoom` is written with its
order: room is computed before offset 0 is reserved, and `AppendData` returns
the offset from before. `fences` is the list from `m_pCurrentFence`, each with
the copy of the chains `GetFence` takes. What lies above `m_nSize` after a
fence is restored is forgotten, so whatever still refers to it is caught.

One action stands for one production of the grammar: a function prototype or
head is `NewFunction`, `KnownFunction` or `FunctionInError`, and its end
`EndPrototype` or `EndFunction`; both add their parameters after the fence is
taken. A syntax error inside a body may leave fences of inner scopes open;
`EndScope(i)` restores any of them with those inside forgotten. The two phases
of a compilation are not told apart: what they declare may come in any order.

### Fences and flow

`pool` is the fence each entry of the parser's stack has or had, `current` is
`m_pCurrentFence`. One action stands for one production: the start, `else` and
end of a control statement (`NscBuild5Block`), a block, a statement, the parts
of a function. What the script means is noted from the script alone: `open` are
the constructs being parsed, and `reached` says whether control can get here,
where a condition may come out either way and only a `for` without one is
endless. The two properties compare the fences, and what `NscBuildFunctionDef`
concludes from `nFenceReturn`, with these.

### The preprocessor

A file is a sequence of lines, each chosen when it is first read (phase 1);
phase 2 reads the same lines again. `streams` holds the lines each open file
has left, `ifs` the four flags of each group. `truth` is no state of the
code: it notes of each group whether the branch at hand would be taken by its
conditions, and whether one before it was, and serves `SelectsBranches`.
`ReplaceToken` follows macros one step at a time, so that circles show.

### Resources

The readers are operators on records, one per method, with the position of the
mapped file and `m_NextOffset`, which spares seeks. The manager loads the key
files, indexes one file at a time, then serves any operation in any order with
any handle, valid or not; handle numbers wrap at `HandleMod` (2^64 in the
code). Only one tier is ever filled (`LoadScriptResources`), so there is one.
That the offsets in a bif are behind its header is assumed
(`ManagerAssumption`): `m_NextOffset` starts at 0 and would match an offset 0.

### The command line

The disk is one of a set of installations and does not change during a run.
A text is what it includes and how it ends: with a syntax, a semantic or a
late error or none, and with an entry point or not. A compilation loads
`nwscript`, parses the text and its includes twice, and is cached; its result
and code are compared with those from a fresh start. `job.known` is no state of
the code: it notes the names that were cached when the compilation began, for
what is said of the dependencies. Each of the three outputs may fail to open, to
take its bytes or, unnoticed, to be closed (`Lost`). With `-d` nothing is
compiled, but `nwscript` is loaded and parsed for the names of actions
(`NscDisassembleScript`); the outputs are the listing, the copy of the script in
the temporary directory and, if the script has debug symbols, theirs (`"temp"`,
`"tempndb"`). A wildcard matches files, or directories only (`Folders`), which
are skipped without an error, or nothing, which is one.

## Runs

| Run | States | Question |
|---|---|---|
| `MCCompile` | 740 341 | Do compiled scripts keep their stack and do what their source says? Do jumps and labels meet, and do the chains of back links implement `NscLabels`? All pairs of six loop bodies in five kinds of loops; of five arms in six shapes of switches in two kinds of loops; of seven operands under `==`, `&&`, `\|\|`, `?:`, `=`, `++`, on a local and on a global; functions with arguments, early returns, recursion and situations; ten pairs of globals, one of them initialised from the other, three readers, all pairs of five uses |
| `MCOperators` | 1 468 587 | Does code mean what was written, whatever is folded? Up to five operands and operators of seven types |
| `MCPStack` | 686 825 | Does an enumerator see the codes that were pushed, whatever entries were used for before? |
| `MCEncoding` | 1 460 206 | Does the disassembler find the instructions that were written? Is the buffer ever overrun? |
| `MCDebug` | 1 393 785 | Does the debug file say where each variable is, and until when? |
| `MCSymbolTable` | 275 222 | Do chains, fences, offsets and data stay sound whatever is declared, looked up, opened and closed? Does the table implement `NscDeclarations`? |
| `MCFences` | 1 153 263 | Are the fences those of the constructs around? Is a function told that may end without a result? |
| `MCPreproc` | 114 390 | Are the right lines skipped, across files? Does the lexer come to the end? |
| `MCResources` | 37 418 | Is the most precedent resource found, and read through its own handle? Does the manager implement `ResourceArchive`? |
| `MCDriver` | 247 667 | What becomes of each input of a command line, of its dependencies, its outputs and of the exit code? Does `main` end? |
| `MCDoContinue`, `MCNestedElements` | | two disagreements, see below |

The properties:

* `JumpsLinked`, `ChainsSound`, `RefinesLabels` (linker): a jump is on the
  chain of its label exactly until the label is placed, and leads there after.
* `DepthAgrees`: wherever the engine gets to, the stack has the depth the
  generator believed in. Every variable access rests on it. It is checked at
  run time over all paths, since two paths to one instruction may disagree.
* `ReturnsBalanced`: a routine leaves its return value and nothing else.
* `AssertsHold`: the assertions of the generator.
* `JumpsPatched`: a script that is written out has no open jump. So where a
  function has no body, and the jumps to it stay open, that must have been
  reported.
* `NoIllegalReference`: the engine never meets "an illegal stack reference"
  (`README.md:386` of the repository), unless the compiler warned of the very
  call it is in: a function called before the base pointer is set, which may
  have called the one at fault, or a situation stored at global scope.
* `SameCalls`: the compiled script makes the calls its source makes, with the
  same arguments; it halts where its source has come to its end, and nowhere
  before; and `StartingConditional` returns the value of its source.
* `FoldingPreserves`: so does an expression, whatever was folded or dropped.
* `StackBalanced`: the depth counted for an expression is that of its type,
  and the generator knows the type byte of every operator in it.
* `VisitsWhatWasPushed`, `SimplesRecognised`: the enumerator and the tests for
  lone constants, variables and assignments see just what was pushed, and it
  fits the buffer.
* `FindsInstructions`: generator and disassembler agree about lengths.
* `OverrunByAction`: only the last byte of an `ACTION` may be written behind
  the buffer.
* `FilesNamed`: the two tables in `m_asFiles` stay inverse to each other.
* `IntrinsicsAnswer`: an intrinsic leaves its answer and disturbs nothing.
* `VariablesDescribed`: the variables that are open in the debug file are
  those on the stack, each over its own cells, and none starts on cells before
  the last one there has ended.
* `ChainsComplete`: the chain of a bucket leads through its visible symbols,
  newest first, and through no others.
* `FencesSound`: fences are nested, and each holds the chains as they are below
  it, so that restoring it cannot bring back a symbol that is gone.
* `FindsNewest`: a lookup returns the newest visible declaration of the name in
  its name space, or none if there is none.
* `GlobalsStay`, `DataStays`: the offsets that outlive scopes, and the data of
  a symbol, are never cut off or overwritten.
* `InBuffer`: `MakeRoom` makes enough room.
* `ImplementsDeclarations`: what is visible after a scope is what was visible
  where it began.
* `SelectsBranches`: a line is skipped just where the branch of an enclosing
  group is not taken.
* `GroupsClosed`: an input read without an error leaves no group open.
* `ChainsFollowed`: a macro stands for what its chain ends in, and a circle is
  left.
* `PositionsAgree`: where a reader believes its file to be, it is.
* `FindsMostPrecedent`, `FilesBehind`: the index leads to the most precedent
  file of each name, and every file it leads to can be opened.
* `ImplementsArchive`: a handle reads the bytes of the resource it was opened
  on, until it is closed, whatever else happens.
* `BatchIndependent`: the result of a script, and the texts its code is made
  of, are those it would have alone. Of its dependencies, the list in the `.d`
  file, that is not true: they are what it includes and was not in the cache when
  its compilation began. So what was compiled before shows there, in this way
  and in no other.
* `ExitCode`: zero just if inputs were named, on the command line or in its
  response file, each was a file or matched something, and every file was
  processed once without an error. If all that was matched are directories there
  are no files, and the exit code is zero.
* `StopsAtError`: it is processed once, in order, and nothing after an error
  unless `-y` says so.
* `OutputsAgree`: after success, outputs are whole and belong together. The
  copies in the temporary directory, which every input overwrites, are left out,
  and of a list of dependencies only whose it is is compared.
* `Terminates`, `ReadsToTheEnd`: `main`, and the lexer, come to an end.
* `FencesFollow`: the fences are those of the constructs around, each over the
  locals of the next, and a switch knows just its own labels.
* `AllPathsReturn`: a function with a result that is accepted does not end
  without a return. The converse does not hold: a `return` in an endless loop,
  or in all arms of a switch, is not seen, and the function refused.

### Fairness and deadlock

`Terminates` assumes `WF_vars(DriverNext)` and `ReadsToTheEnd` assumes
`WF_preprocVars(PreprocNext)`: the one thread takes its next step as long as
there is one. Both wait for nothing but their own work (files are read, not
awaited), so this is what any scheduler does. No choice is favoured: however
the environment chooses what fails or what the next line is, the end is
reached. The other runs assume no fairness; what they say is safety, of runs
that may go on for ever (`while (1)`).

Deadlock is checked where every state has a next one: the resource manager
serves for ever, and an entry of the parser can always be freed or allocated.
In the other runs it is not, as a compilation, a script, a file or a command
line ends.

### Bounds, and why they are enough

* `MCCompile`: `MaxEvents = 7` lets each loop go round three times with two
  calls a round, which takes it through every pair of exits of two consecutive
  rounds. `Returns = {0, 1}` covers both branches of every condition and hit,
  miss and default of a switch. Recursion is bounded by the answers the engine
  has left. `HeaderSize` and `JumpSize` are the real values; the linker is met
  with labels placed before, between and after the jumps that name them, and
  with chains of several labels at once. What any other order of its operations
  does is proved.
* `MCOperators`: four bits have an overflow, a sign and shift counts beyond the
  width; the constants 0, 1, 2 and the smallest integer are where the folding
  branches. `Limit = 5` lets two operators of two operands meet, as in a folded
  constant below a short cut. The structure has a vector after an integer, so
  that an element's element is not at its start.
* `MCPStack`: three entries are the most an action combines, and a fourth
  allocation reuses one. Two cells in the fixed buffer make every second push
  move; three pushes nest a code with blocks in another. Of the codes that are
  pushed by the same routine one or two stand for all (`Ops`).
* `MCEncoding`: capacities 14 to 36 put the end of the buffer at every byte of
  every instruction; one growth and the limit `NscMaxScript` are both reached.
  Two operations are enough for what lies behind an instruction.
* `MCDebug`: types of no cell, as that of an action, of one and of three; two
  arguments, the first of which has no cell; and a table that grows by four,
  with variables open and with none.
* `MCSymbolTable`: three names, two of which share a bucket and differ in size,
  in a buffer of twelve units that grows by four; data of one unit and of six,
  the latter more than one growth step. That is room for a global, a function
  with a parameter, a local that hides either, and data behind them, and for
  three growths; three fences let a scope end inside, with and past another.
* `MCFences`: depth 5 is a block in a control statement in a block in another
  within a function's block, and uses every entry; four items are a return in
  both branches of an `if` in a loop, or two switches with a label each.
  Parsing ends at an error: an error sets nothing that is read later, so it
  would go on as without. Locals and parameters have one cell.
* `MCPreproc`: two files of four lines of 25 kinds: a group in a group, closed
  in the other file, with `#elif` and `#else`; macros in a circle of two.
* `MCResources`: three archives over two bifs, names that differ in case, one
  whole installation and ten broken ones; two handles are open at most before
  the numbers wrap.
* `MCDriver`: 24 command lines with one, two or three inputs, response files
  within response files, wildcards with three matches, none, and directories
  only; over a hundred
  installations in which an include is found in two places, is broken in three
  ways, missing, or in a circle with its includer. Names have at most 32
  characters: the cache cuts longer ones (`ResRef32`).

### What the runs found

Two runs end with a violation, each of a script the compiler accepts without
an error.

| Run | Script | What happens |
|---|---|---|
| `MCDoContinue` | `do { say(); if (cond()) continue; } while (1);` with `-o` | the label of the test is never placed (`NscCodeGenerator.cpp:3341`), `continue` jumps anywhere |
| `MCNestedElements` | `s.v.y`, a vector in a structure | `NscPushElementAccess` drops the offset of `s.v` (`NscParserRoutines.cpp:361`): the element at the start of `s` is read or set |

Writing the models showed more, which no run repeats; the instances leave
these shapes out or the properties name them:

* in `int k = f(); int l = h();`, where `h` calls `f` and `f` reads a global, `f`
  was met before `h` is looked into (`NscCodeGenerator.cpp:1077`), so `h` passes
  for a function without globals: its call at global scope ends in an illegal
  stack reference and there is no warning. Such a script violates
  `NoIllegalReference`;
* in `switch (cond()) { case 0: { int w = 3; case 1: show(w); } }` the second
  label skips the declaration: the check looks at the fence of the switch only
  (`NscParserRoutines.cpp:5650`). Such a script violates `DepthAgrees`;
* with `-o`, after `int k = g`, `k` is a constant whose value is that of `g` when
  `k` is used (`NscCodeGenerator.cpp:299`). `MCCompile` has scripts with such a
  `k`; those that change `g` afterwards (`ReadsLater`) violate `SameCalls`;
* a hit in the resource cache is not noted as a dependency
  (`NscCompiler.cpp:1288`), although `Dependencies` "receives the resources
  loaded while compiling" (`821`): of two scripts of a batch with one include,
  the second is listed without it. `BatchIndependent` says what is listed;
* nothing pops a declaration that is the whole body of a control statement
  (`NscParser.ypp:617`);
* a global initialised by a call of `StartingConditional` makes the entry
  symbol be coded twice (`NscCodeGenerator.cpp:262`);
* with `-o`, the value of `x || y` may be `x` (`NscCodeGenerator.cpp:3836`), and
  that of `1 && x` is `x`. `FoldingPreserves` leaves out the last one, marked
  `"shortened"` in `odd`;
* `#ifdef` tests its operand untrimmed (`NscContext.cpp:2227`; `truth` takes a
  condition to be what the code evaluates it to), `#if` in a
  group that is skipped still reports syntax errors, `#elif` after `#else` is
  not diagnosed, `#if defined X` tests the value of `X`, the value of
  `#define A 1 // c` has the comment in it, and an unterminated string steps
  past the end of its line (`834`);
* `CodeACTION` asks for four bytes and writes five (`NscCodeGenerator.cpp:1841`),
  a script that fills the buffer to the byte is refused (`591`), `AddLine`
  leaves out a second entry of one line (`4396`), the size of a structure and
  the length of a string are cut to 16 bits (`1357`, `1807`);
* the debug variables are pointers that stay behind when `m_sLocalSymbols`
  grows while some are open (`2661`, `4309`): their end is never set.
  `VariablesDescribed` holds until then (`local.moved`);
* constants of two engine types are unknown to the disassembler
  (`NscDecompiler.cpp:334`), which does not find the next instruction after
  one (`listing.lost`);
* an error leaves the flags of the compiler as they are (`NscCompiler.cpp:946`),
  blank lines of a response file become inputs (`nwnsc.cpp:1697`), and what
  `fclose` returns is ignored (`1024`).

## Proofs

`NscCodeGenProofs` proves of the linker, for any header and jump size and any
labels:

* `LinkerInvariant`: `LinkerTypeOK /\ JumpsLinked /\ ChainsSound` is invariant.
  `JumpsLinked` alone is not inductive: placing a label must write the operands
  of its jumps and no others, which needs that a chain holds only jumps of its
  own label (`ChainsSound`), and that a new jump is not at the offset of an
  older one.
* `JumpsAlwaysLinked` and `ChainsAlwaysSound` as its consequences.
* `LinkerImplementsLabels`: each step is a `Jump` or a `Place` of `NscLabels`,
  or stutters.

It lifts these to the whole generator, for every program:

* `GeneratorLinks`: `GenSpec => LinkerSpec`. Each action of the generator is an
  operation of the linker or leaves it alone; there is one lemma per group of
  actions.
* `GeneratedJumpsLinked`, `GeneratorImplementsLabels` follow by temporal logic.

For every program that is as `NscPCode` says, with any flags, it proves of the
generator's own state:

* `CodeInvariant`: `CodeInv`, the inductive invariant. `work` is a call stack, so
  what is true of the depth now depends on all that is still to be coded. `Way`
  says that there are states, one between each two items of `work`, such that
  each item leads from one to the next (`Step`): a state has the depth of the
  expression stack, the jumps that may leave the block at hand, and what a
  `return` may return. The first agrees with the registers of the generator
  (`Regs`: `m_nExpDepth`, the labels of the loop, of the routine and of the
  switch). `C` are the labels that jumps may name: each has a place or will get
  it from an item of `work` (`Known`). `LabelsInv` says of the labels that the
  items place that they have an entry, no place yet, and are placed by one item
  only; that numbers of new labels are beyond those in use; and that a case
  label `CodeScanCase` has made is met again, once, in the body (`Pending`,
  `Apart`). Neither part is inductive without the other: a break leads to the
  label the registers hold, which is placed because the loop's `Resolve` is
  still in `work`, behind the item that restores the registers.
  There is one lemma for each action (`KeepWhile`, `KeepSwitch`, ...): the list
  it puts in place of an item leads from where the item did to where it did
  (`Part`), with lemmas to join pieces (`ShapeJoin`, `LeadsJoin`, `PartJoin`).
* `AssertsAlwaysHold`: `AssertsHold` at the head of `work`.
* `JumpsAlwaysPatched`: at the end `work` places nothing, so every label a jump
  waits for has its place, and by `LinkerInvariant` none waits. It assumes
  `ContinuesPlaced`: no `continue` in a `do` loop whose condition is a constant,
  with `-o`. `MCDoContinue` shows what happens there, and `PlacedAssumption`
  that it is the only script of the instances left out.

It also proves, of `NscTypes`, for any structures and layouts:

* `TablesAgree`: every pair of operands the parser accepts for an operator has
  a type byte in the generator (two tables, `NscBuildBinaryOp` and
  `CodeBinaryOp`). The operands are split by whether they are of one structure,
  alike, or arithmetic; compound assignments are those of their operators.

`NscSymbolTableProofs` proves, for any names, hash function, sizes and step of
growth:

* `FindIsNewest`: in a table whose chains are complete, the walk along a chain
  ends at the newest symbol of the name and kind. `Find` is written as a
  recursive function; the proof gives the function it must be, and takes the
  least offset where the two differ.
* `TableInvariant`: `TableInv`, the conjunction of the invariants above but
  `FindsNewest`, of a table, its fences and the recorded offsets. None of them
  is inductive alone: that restoring a fence leaves complete chains needs
  `FencesSound`; that a new fence is sound needs `ChainsComplete`; that data
  survives a restore needs that the data of a symbol below a fence is below it
  too (`DataStays`), which holds as data is appended outside functions only.
  `AddInv`, `AttachInv`, `PushInv` and `RestoreInv` say that each operation on
  the table keeps it, and `StepInv` puts the actions together.
* `ChainsAndFences`, `FencesAlwaysSound`, `OffsetsStayValid`,
  `GlobalsAlwaysStay`, `AlwaysInBuffer` and `LookupIsNewest` are the properties
  as its consequences.
* `TableImplementsDeclarations`: each step declares, enters or leaves.

`NscPreprocProofs` proves, for any files and lines:

* `GroupsInvariant`: of each group, `fIgnore` says whether it stands in a
  branch that is not taken, `fSkip` whether the branch at hand is, and
  `fSatisfied` whether one was taken before, in terms of `truth`; and an input
  that ended without an error left none. `SelectsBranches` alone is not
  inductive, as `#elif` and `#else` look at `fSatisfied`.
* `BranchesSelected` and `GroupsAlwaysClosed` as its consequences.
* `ChainsAreFollowed`: `ReadNextToken` marks the macros it has met by number.
  `DefinesNumbered` says that a number is the place of its macro, which `#undef`
  keeps by moving those behind it. With that, what is marked is what was
  expanded (`Replacing`): the lexer is as far along the chain as there are
  marks, so there are never more than macros (`SeenBound`). Where it stops, the
  chain has ended, or is back at a macro it was at before (`ChainEnd`).

`NscEncodingProofs` proves, for scripts of any length, capacities, strings,
depths, files and lines:

* `EncodingInvariant`: `EncodingInv`, in two parts. `Placed`: the instructions
  lie one behind the other from the header to the end of the code (`Tiled`),
  and the buffer holds them but for one byte. That last is why it is inductive:
  each `Code...` asks for as much as it writes, or one less (`CodeACTION`), and
  a buffer that is overrun by one byte is grown before the next is written.
  `Listed`: the disassembler stands where one of the instructions does.
* `InstructionsAreFound`: as the length the disassembler knows is the one the
  generator wrote (`SingleGood`, `VectorGood`, `IntrinsicGood`: one lemma for
  each way an instruction is made), it steps from each to the next.
* `OnlyActionsOverrun` from `Placed`.
* `FilesAreNamed`, from `FilesInv`: files that are marked have the numbers below
  `usedFiles`, each its own, and the slot of a number knows the file.
* `IntrinsicsDoAnswer`: the code of each intrinsic is run on the engine's stack,
  instruction by instruction (`TraceSteps`), from any stack and depth.

`NscDebugProofs` proves, for any types, arguments, step of growth and length of
code:

* `DebugInvariant`: `DebugInv`. As long as the symbols did not move with
  variables open, the open variables are the symbols without an end, each lies
  behind the one before, and together they take up the frame (`InFrame`);
  symbols that share cells follow each other in time (`InTime`). That alone is
  not inductive: `PurgeVariables` stops at the first variable that begins below
  the depth it is given, which may well be one that lies across it. So `Splits`
  says that none lies across the depth where a statement began that is still
  being coded, nor across that of the arguments; and these depths never fall
  from one statement to one within it.
* `ArgumentsKeep`: that of the loop over the arguments, which is a recursive
  function in the model; the proof gives the function it must be.
* `VariablesAreDescribed` as the consequence. Types of no size are covered: they
  have no cells, may lie where others begin, and end with those.

`ResourceManagerProofs` proves, for any archives, whole or broken, any names
and any sequence of operations:

* `ManagerInvariant`: `ManagerInv`, which has four parts besides the types.
  Every reader is right about its file (`ReaderOK`): `next` is 0 or the
  position, each entry lies within the file and behind the header, and has its
  place as identifier. Keys lead to entries that are there (`KeyOK`). The
  index holds just the files `DiscoverResources` has `Seen`, each name leads
  to the most precedent of them, and names and entries are as many
  (`Indexed`). Handles stand for entries (`HandlesOK`).
* `PositionsAlwaysAgree`. Alone it is not inductive: a reader whose `next` is 0
  has not said where it is, and it is the header that keeps an entry from
  starting there.
* `FilesAlwaysBehind`, `AlwaysMostPrecedent` as consequences.
* `ManagerImplementsArchive`: each step is one of `ResourceArchive` or a
  stutter. `ReadsEntry` and `ReadsKey` say that a read returns the bytes of
  its entry wherever earlier reads left the file; `AllocateFree` that a new
  handle is none of those in use though numbers wrap around; the rest is that
  no read disturbs what another handle stands for.

`NscParserProofs` proves of the fences, for any entries and labels, and
functions of any length and depth:

* `FencesInvariant`: `FencesInv`, in two parts. `Linked`: the fences are linked
  from `m_pCurrentFence` as the constructs are nested, each of the type of its
  construct, and only blocks may go without. `Flow`: where the fence of a
  function or branch says that it returns, control stays away until it ends,
  and what is parsed inside was not reached either; and the fence of an `else`
  says no, which `NscSetFenceReturn` never takes back, unless the first branch
  returned.
* `NearestIsOwner`, on which it rests: the search of `NscSetFenceReturn` ends
  at the fence of the innermost construct that is no block. The search is
  written as a recursive function; the proof gives the function it must be, as
  for `Find` above.
* `FunctionsReturn`: `AllPathsReturn`. Alone it says nothing of the branches a
  return may be in, so it takes `Flow` for all constructs around.
* `FencesAreFollowed`: `FencesFollow`, from `FencesCounted` over `Linked`: each
  fence that is valid counts the locals of those outside and has the labels of
  its construct. It is inductive as a fence counts when it is made, the fences
  outside get no locals until it is closed, and a switch gets a new set of
  labels, whatever its entry held before (`GetFence`).

And of the parser's stack, for any entries, lengths, layouts and pushes, so for
codes nested however deep:

* `PStackInvariant`: `PStackInv` says of every entry that its data are `Coded`.
  Data mean `m` (`Means`) if the enumerator visits just `m` before what comes
  behind them, whatever that is and whenever it looks at least as deep as they
  are long. So what two codes mean is what each means (`MeansConcat`), and a
  code means its node wherever its blocks were copied to (`BlockFound`,
  `CodeMeans`, and one lemma for each shape: `CodedData`, `CodedLogical`,
  `CodedFive`). It is a statement about each push, so no induction over trees is
  needed. A new constant is made of two codes in place (`CodedSimplify`), for
  which nothing may follow within the first: that is `Sound`.
* `MakeRoom` doubles until there is room (`MakesRoom`), so `Entered` keeps the
  data within the memory of the entry.
* `CodesAreVisited` and `SimplesAreRecognised` as its consequences; for the
  latter, a first code as long as the data is the only one.

`NwnscProofs` proves of `main` and of the compiler below it, for any command
lines, response files, wildcards, directories, texts, includes and failures:

* `DriverInvariant`: `DriverInv` tells where `main` is: which arguments it has
  read, on the first pass or in a response file, and how many paths were
  processed; what was processed are the first of `Wanted`, and the exit code is
  0 just while all of them went well. `Filed` and `Paths` are recursive
  functions; the proofs give the functions they must be.
* `ExitCodeTells` and `StopsAtTheError` as its consequences.
* `CompilerInvariant`: `CompilerInv`. `Settled`: an entry of the cache leads to
  what the search would find, and a compiler that is initialised was so from an
  `nwscript` that is sound. `ParseAt`: what was parsed is reached from the
  script (`Closure`); while there was no error, every include of what was parsed
  was parsed itself or is still to come on the stack of streams; an error is in
  a text of the closure. `ClosureFacts` says that `Closure`, a chain of sets
  that grows with each step, is the least set closed under includes: names are
  finitely many, so the chain stops growing.
* `BatchesAreIndependent`: at the end of a parse the stack is empty, so what was
  parsed is closed and hence the closure, and the result and the code are those
  of `Alone`. For the dependencies, `NotedInv` says that while a script is compiled
  the cache grows by files the script includes only, what was parsed is in it,
  and what was noted is just what it has grown by, but for the script itself and
  for archives. At the end what was parsed is the closure, so what the cache has
  grown by is what of the closure was not in it.
* `OutputInvariant`: `OutputInv`. Outputs agree between inputs; while those of
  one are being written, all do but those of its base, and what was written of
  them is of the script at hand. The code is the first to be written
  (`InOrder`), so no other output is there without it.
* `OutputsDoAgree` as its consequence, for runs that report success.

The assumptions are `LinkerAssumption` (both sizes are positive and `Unwritten`
is not an integer), `PCodeAssumption` (above; one value takes one slot), `TableAssumption` (sizes are positive, and a symbol is
smaller than the step of growth: 0x40000 bytes in the code), `TypesAssumption`
(names of structures are not those of types, and sizes are the sums of their
elements), `PreprocAssumption` (lines are of their kind), `BifAssumption`
(sizes of headers, entries and identifiers are positive),
`ManagerAssumption` (files are of their kind, and the entries of a bif begin
behind its header), `FencesAssumption` (`NoFence` is no entry),
`PStackAssumption` (entries are finitely many, as memory is, and have room for a
cell from the start),
`EncodingAssumption` (a buffer has room for the header and a byte, lengths and
depths are natural numbers, and the files are finitely many, numbered from 0),
`DebugAssumption` (sizes are natural numbers, arguments have types, and the
table grows by at least one symbol),
`CompilerAssumption` (names are finitely many, as those of an installation are,
and texts are of their kind) and `DriverAssumption` (arguments are of their
kind, a response file is not the command line that names it, and wildcards
match files in directories).

Only model-checked: everything that relates code and run (`DepthAgrees`,
`ReturnsBalanced`, `SameCalls`, `NoIllegalReference`, `FoldingPreserves`,
`StackBalanced`), which are statements by induction over
syntax trees, over recursive operators which are for TLC only. Liveness (`ReadsToTheEnd`,
`Terminates`) and `ENABLED` are out of the prover's reach, induction over data as well.

## What is not modelled

* How characters become tokens, texts of messages, what is printed (PCode,
  listings, source lines in them).
* Declarations of structures, types of default arguments, and the count of
  locals the stock compiler is limited to.
* The functions the compiler makes up for a library without an entry point.
* Rounding of floats, and characters of strings beyond their order and length.
* Of the symbol table: `Reset`, the contents of data, and a syntax error
  outside functions, which leaves a fence in force. Offsets are used, not
  pointers, but for the debug symbols.
* Of the resource manager: directories, ERF and ZIP archives, demand loading:
  `nwnsc` never adds any. A mapping of a file that fails.
* Of the command line: options that change only texts, `-m` and the search for
  the installation, exceptions nothing handles.
* The lists and streams, as links; `NscPreproc` and `NscPStack` have them as
  sequences. The script reader and the buffer parser, which `nwnsc` does not
  call. `Ref.h`: nothing in the program shares a reference between threads.
* Vendored code, JSON, wrappers of the operating system, base types.

## Plan

In order; what is done is marked.

1. Linker and its abstract labels, with proofs. *Done.*
2. Code generator, with the proof that it uses the linker as specified. *Done.*
3. Scopes, gathering, engine, source semantics, their composition. *Done.*
4. Symbol table against scoped declarations, with proofs. *Done.*
5. Preprocessor against conditional groups, with proofs. *Done.*
6. Command line, phases of the compiler and the resource cache. *Done.*
7. Resource manager and readers against an archive. *Done.*
8. Operators and folding, the tables of types with their proof. *Done.*
9. Parser stack, encodings and disassembler, debug symbols. *Done.*
10. Proofs for the resource manager: what the readers believe, the index, and
    `ImplementsArchive`. *Done.*
11. Proofs that the code is contiguous (every instruction starts where the one
    before ends), that the buffer is overrun by an `ACTION` only, of the files
    of the debug file and the intrinsics. *Done.*
12. Return analysis and the reuse of fences. *Done.*
13. Proofs of `AllPathsReturn`, of `FencesFollow`, and that macros are numbered
    by their places. *Done.*
14. Proofs for the command line and the compiler: exit code, order, batches and
    outputs. *Done.*
15. Proofs for the debug symbols and for the parser's stack. *Done.*
16. Proofs of the assertions of the generator and that every jump is patched.
    *Done.*
17. Declarations of structures and the sizes of their types.
