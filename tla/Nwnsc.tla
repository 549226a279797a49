-------------------------------- MODULE Nwnsc --------------------------------
(***************************************************************************)
(* nwnsc: the command line of the compiler.  It reads the arguments, once  *)
(* more if there is a response file, then takes the input files in turn:   *)
(* each is loaded, compiled (or disassembled) and written to up to three   *)
(* files, any of which may fail; the exit code tells how it went.          *)
(*                                                                         *)
(* Options that only change texts, or what the compiler makes of a text,   *)
(* are left out.                                                           *)
(***************************************************************************)
EXTENDS NscCompiler

CONSTANTS CommandLines,  \* sequences of arguments
          Matches,       \* the paths a wildcard matches, without directories
          Folders,       \* the wildcards that match a directory
          Here,          \* the directory "."
          Override,      \* <installdir>/ovr
          Short,         \* OsCompat::filename: a path cut at its first dot
          SkipOutput     \* the base "SKIP_OUTPUT"

(* An argument: [kind |-> "switch", value |-> a letter], "out" (-r), "batch" *)
(* (-b) and "path" (-i) with a value, "file", "response" with lines, and   *)
(* "bad", an unknown option or one whose value is missing. *)
Switches == {"y", "M", "g", "c", "d", "l"}
Kinds == {"switch", "out", "batch", "path", "file", "response", "bad"}

IsSequence(s) == s \in Seq({s[n] : n \in DOMAIN s})

ASSUME DriverAssumption ==
    /\ {Here, Override} \subseteq Dirs
    /\ \A line \in CommandLines :
         /\ IsSequence(line)
         /\ \A i \in DOMAIN line :
              /\ line[i].kind \in Kinds
              /\ line[i].kind = "response" => IsSequence(line[i].lines) /\ line[i].lines # line
    /\ \A w \in DOMAIN Matches : Matches[w] \in Seq(Dirs \X Names)
    /\ Folders \subseteq DOMAIN Matches

VARIABLES line,       \* the command line as given
          argv, i,    \* the arguments being read, and which one
          response,   \* ResponseFileArgs, with a flag ResponseFile
          Error,
          switches,   \* the options that are on
          OutFile, BatchOutDir,
          InFiles,
          phase,      \* what main is doing
          it,         \* the input file
          match,      \* the file of a wildcard, 0 outside of one
          unwritten,  \* the extensions CompileSourceFile still has to write
          outputs,    \* [base, extension] on disk: what it was made of
          outcomes,   \* [path, ok] for every input processed
          Status, ReturnCode

parsing == <<argv, i, response, Error>>
options == <<switches, OutFile, BatchOutDir, InFiles>>
progress == <<it, match, unwritten>>
ending == <<outputs, outcomes, Status, ReturnCode>>
driverVars == <<line, parsing, options, phase, progress, ending>>
vars == <<driverVars, compilerVars>>

NoFile == <<>>

DriverInit == /\ CompilerInit
              /\ line \in CommandLines
              /\ argv = line /\ i = 1
              /\ response = [read |-> FALSE, args |-> <<>>]
              /\ Error = FALSE
              /\ switches = {} /\ OutFile = NoFile /\ BatchOutDir = NoFile
              /\ InFiles = <<>>
              /\ phase = "arguments" /\ it = 1 /\ match = 0 /\ unwritten = <<>>
              /\ outputs = <<>> /\ outcomes = <<>>
              /\ Status = TRUE /\ ReturnCode = 0

-----------------------------------------------------------------------------
Argument == argv[i]

TakeOption ==
    /\ switches' = IF Argument.kind = "switch" THEN switches \cup {Argument.value} ELSE switches
    /\ OutFile' = IF Argument.kind = "out" THEN Argument.value ELSE OutFile
    /\ BatchOutDir' = IF Argument.kind = "batch" THEN Argument.value ELSE BatchOutDir
    /\ paths' = IF Argument.kind = "path" THEN Append(paths, Argument.value) ELSE paths
    /\ InFiles' = IF Argument.kind = "file" THEN Append(InFiles, Argument.value) ELSE InFiles

(* The lines of a response file, to be read as arguments later. *)
LoadResponseFile(argument) == [read |-> TRUE, args |-> argument.lines]

(* One argument.  A second response file is an error whether it is nested  *)
(* in the first or follows it. *)
ReadArgument ==
    /\ phase = "arguments" /\ i \in DOMAIN argv /\ ~Error
    /\ i' = i + 1
    /\ TakeOption
    /\ Error' = (Argument.kind = "bad" \/ (Argument.kind = "response" /\ response.read))
    /\ response' = IF Argument.kind = "response" /\ ~response.read
                   THEN LoadResponseFile(Argument) ELSE response
    /\ UNCHANGED <<disk, line, argv, phase, progress, ending, loaded, kept, g_Resources, makeDeps,
                   stage, job, context, answer>>

(* The loop around the arguments comes again for a response file with      *)
(* lines, unless it has just read that one. *)
Again(args) == args # <<>> /\ argv # args

(* Which archives there are is taken as one step: see ResourceManager. *)
LoadScriptResources == loaded' = ("l" \in switches)

Usage == Error \/ InFiles = <<>>

(* The end of the arguments: usage, or the archives and the include paths  *)
(* in the order ".", -i, <installdir>/ovr. *)
EndOfArguments ==
    /\ phase = "arguments" /\ (Error \/ i \notin DOMAIN argv)
    /\ IF ~Error /\ response.read /\ Again(response.args)
       THEN /\ argv' = response.args /\ i' = 1
            /\ UNCHANGED <<paths, loaded, phase, ReturnCode>>
       ELSE /\ UNCHANGED <<argv, i>>
            /\ ReturnCode' = IF Usage THEN -1 ELSE 0
            /\ phase' = IF Usage THEN "exited" ELSE "inputs"
            /\ LoadScriptResources
            /\ paths' = <<Here>> \o paths \o IF "l" \in switches THEN <<Override>> ELSE <<>>
    /\ UNCHANGED <<disk, line, response, Error, options, progress, outputs, outcomes, Status,
                   kept, g_Resources, makeDeps, stage, job, context, answer>>

-----------------------------------------------------------------------------
Wild(f) == f \in DOMAIN Matches

(* The file at hand: of the wildcard or the argument itself. *)
Path == IF match = 0 THEN InFiles[it] ELSE Matches[InFiles[it]][match]

OutBase == IF match # 0
           THEN IF BatchOutDir # NoFile THEN <<BatchOutDir, Path[2]>> ELSE Path
           ELSE IF BatchOutDir # NoFile THEN <<BatchOutDir, Short[Path]>>
           ELSE IF OutFile # NoFile THEN OutFile ELSE Path

Compile == "d" \notin switches
StopOnError == "y" \notin switches

(* What one input came to, and where the loop over them goes on. *)
Outcome(path, ok) ==
    /\ outcomes' = Append(outcomes, [path |-> path, ok |-> ok])
    /\ phase' = "processed"
    /\ Status' = ok

(* A wildcard that matches nothing fails.  Directories are skipped: if it  *)
(* matches nothing else there is nothing to do, and no error.  One that    *)
(* matches files opens its loop.                                           *)
ProcessWildcardInputFile ==
    /\ phase = "inputs" /\ it \in DOMAIN InFiles /\ match = 0 /\ Wild(InFiles[it])
    /\ IF Matches[InFiles[it]] # <<>>
       THEN match' = 1 /\ UNCHANGED <<phase, outcomes, Status>>
       ELSE /\ match' = match
            /\ IF InFiles[it] \in Folders
               THEN phase' = "processed" /\ Status' = TRUE /\ UNCHANGED outcomes
               ELSE Outcome(InFiles[it], FALSE)
    /\ UNCHANGED <<line, parsing, options, it, unwritten, outputs, ReturnCode, compilerVars>>

LoadInputFile(path) == path \in DOMAIN disk

(* ProcessInputFile up to the compiler: the file may not be there.  What   *)
(* is disassembled may have debug symbols beside it, which are copied too. *)
ProcessInputFile ==
    /\ phase = "inputs" /\ it \in DOMAIN InFiles
    /\ match # 0 \/ ~Wild(InFiles[it])
    /\ IF ~LoadInputFile(Path)
       THEN Outcome(Path, FALSE) /\ UNCHANGED <<unwritten, compilerVars>>
       ELSE /\ UNCHANGED <<outcomes, Status>>
            /\ IF Compile
               THEN /\ NscCompileScript(Path, "M" \in switches, "c" \notin switches)
                    /\ phase' = "compiling"
                    /\ unwritten' = unwritten
               ELSE /\ phase' = "writing"
                    /\ \E symbols \in {<<>>, <<"tempndb">>} :
                         unwritten' = <<"pcode", "temp">> \o symbols
                    /\ NscDisassembleScript
    /\ UNCHANGED <<line, parsing, options, it, match, outputs, ReturnCode>>

Compiling == /\ phase = "compiling" /\ CompilerStep
             /\ UNCHANGED driverVars

Extensions == <<"ncs">> \o (IF "g" \in switches THEN <<"ndb">> ELSE <<>>)
                        \o (IF "M" \in switches THEN <<"d">> ELSE <<>>)

(* CompileSourceFile once the compiler has answered. *)
CompileSourceFile ==
    /\ phase = "compiling" /\ stage = "done"
    /\ IF result = "Success" /\ OutBase # SkipOutput
       THEN /\ phase' = "writing"
            /\ unwritten' = Extensions
            /\ UNCHANGED <<outcomes, Status>>
       ELSE /\ Outcome(Path, result # "Failure")
            /\ unwritten' = unwritten
    /\ stage' = "idle"
    /\ UNCHANGED <<line, parsing, options, it, match, outputs, ReturnCode, disk, paths, loaded,
                   kept, g_Resources, makeDeps, job, context, answer>>

(* The copies DisassembleScriptFile leaves in the temporary directory have *)
(* one name for all scripts. *)
Temporary == {"temp", "tempndb"}
Output(ext) == <<IF ext \in Temporary THEN NoFile ELSE OutBase, ext>>

Made(ext) == [by |-> Path, from |-> CASE ext = "d" -> dependencies
                                      [] ext \in {"ncs", "ndb"} -> code
                                      [] OTHER -> {Path}]
(* A file with a part of it, and what is left of one that was lost. *)
Torn == [by |-> NoFile, from |-> {}]
Lost == {NoFile}

Written(file, what) == [f \in DOMAIN outputs \cup {file} |-> IF f = file THEN what ELSE outputs[f]]

(* How a write may go.  The disk refuses to open the file, or to take the  *)
(* bytes (nobody asks while the dependencies are printed), or loses what   *)
(* is buffered when the file is closed, which goes unnoticed. *)
Hows(ext) == {"unopened", "lost", "written"} \cup IF ext = "d" THEN {} ELSE {"refused"}
Noticed == {"unopened", "refused"}

OutputsAfter(how, ext) ==
    CASE how = "unopened" -> outputs
      [] how = "refused" -> Written(Output(ext), Torn)
      [] how = "lost" -> Written(Output(ext), [by |-> Path, from |-> Lost])
      [] how = "written" -> Written(Output(ext), Made(ext))

(* Faulty: takes what could not be opened for written. *)
WriteUnopened(how) ==
    /\ outputs' = OutputsAfter(how, Head(unwritten))
    /\ IF how = "refused" \/ Tail(unwritten) = <<>>
       THEN /\ unwritten' = <<>>
            /\ Outcome(Path, how # "refused")
       ELSE /\ unwritten' = Tail(unwritten)
            /\ UNCHANGED <<phase, outcomes, Status>>

(* One of the outputs: the first one that is seen to fail ends the input,  *)
(* and what was written stays. *)
Write(how) ==
    /\ outputs' = OutputsAfter(how, Head(unwritten))
    /\ IF how \in Noticed \/ Tail(unwritten) = <<>>
       THEN /\ unwritten' = <<>>
            /\ Outcome(Path, how \notin Noticed)
       ELSE /\ unwritten' = Tail(unwritten)
            /\ UNCHANGED <<phase, outcomes, Status>>

WriteOutput ==
    /\ phase = "writing"
    /\ \E how \in Hows(Head(unwritten)) : Write(how)
    /\ UNCHANGED <<line, parsing, options, it, match, ReturnCode, compilerVars>>

(* Faulty: a wildcard's status is that of its last file. *)
CodeOfLast == IF match = 0 \/ match = Len(Matches[InFiles[it]])
              THEN IF Status THEN ReturnCode ELSE -1 ELSE ReturnCode

CodeAfter == IF Status THEN ReturnCode ELSE -1

(* Faulty: goes on with the other files of a wildcard. *)
StopsBetween == ~Status /\ StopOnError /\ match = 0

Stops == ~Status /\ StopOnError

MoreMatches == match # 0 /\ match < Len(Matches[InFiles[it]])

(* The loops of main and of the wildcard, after an input. *)
NextInput ==
    /\ phase = "processed"
    /\ ReturnCode' = CodeAfter
    /\ IF Stops
       THEN it' = Len(InFiles) + 1 /\ match' = 0
       ELSE IF MoreMatches
       THEN it' = it /\ match' = match + 1
       ELSE it' = it + 1 /\ match' = 0
    /\ phase' = "inputs"
    /\ UNCHANGED <<line, parsing, options, unwritten, outputs, outcomes, Status, compilerVars>>

Exit == /\ phase = "inputs" /\ it \notin DOMAIN InFiles
        /\ phase' = "exited"
        /\ UNCHANGED <<line, parsing, options, progress, ending, compilerVars>>

DriverNext == \/ ReadArgument \/ EndOfArguments
              \/ ProcessWildcardInputFile \/ ProcessInputFile
              \/ Compiling \/ CompileSourceFile \/ WriteOutput
              \/ NextInput \/ Exit

(* A single thread that waits for nothing but its own work. *)
DriverSpec == DriverInit /\ [][DriverNext]_vars /\ WF_vars(DriverNext)

-----------------------------------------------------------------------------
(* The files among the first of some arguments. *)
Filed(args, count) ==
    LET filed[n \in 0 .. Len(args)] ==
          IF n = 0 THEN <<>>
          ELSE IF args[n].kind = "file" THEN Append(filed[n - 1], args[n].value)
          ELSE filed[n - 1]
    IN filed[count]

(* The lines of the response file, if there is one. *)
Responses == {n \in DOMAIN line : line[n].kind = "response"}
Lines == IF Responses = {} THEN <<>>
         ELSE line[CHOOSE n \in Responses : \A m \in Responses : n <= m].lines

(* The inputs named on the command line and in its response file. *)
Named == Filed(line, Len(line)) \o Filed(Lines, Len(Lines))

(* The paths they stand for: a wildcard for the files it matches, if it    *)
(* matches anything, and for itself otherwise. *)
Matching(f) == Wild(f) /\ (Matches[f] # <<>> \/ f \in Folders)
Expand(f) == IF Matching(f) THEN Matches[f] ELSE <<f>>

Paths(names, count) ==
    LET upto[n \in 0 .. Len(names)] == IF n = 0 THEN <<>> ELSE upto[n - 1] \o Expand(names[n])
    IN upto[count]

Wanted == Paths(Named, Len(Named))

Processed == [n \in DOMAIN outcomes |-> outcomes[n].path]
Failed(n) == ~outcomes[n].ok

(* "On success, zero is returned; otherwise, a non-zero value"             *)
(* (nwnsc.cpp:1756): the exit code is zero just when inputs were named,    *)
(* each of them was a file or matched something, and every file named or   *)
(* matched was processed once without an error.  There may be none of      *)
(* those: wildcards that match directories only are no error.              *)
ExitCode ==
    phase = "exited" =>
      ((ReturnCode = 0) <=> (/\ ~Error /\ Named # <<>>
                             /\ Processed = Wanted
                             /\ \A n \in DOMAIN outcomes : outcomes[n].ok))

(* What was named is processed in this order and once, however often main  *)
(* goes through the arguments, and nothing is after a failure, unless -y   *)
(* asks to go on; then none is left out (NscDFlag_StopOnError).            *)
StopsAtError ==
    /\ Processed = SubSeq(Wanted, 1, Len(outcomes))
    /\ StopOnError => \A n \in DOMAIN outcomes : Failed(n) => n = Len(outcomes)
    /\ phase = "exited" /\ ~Error /\ ~(StopOnError /\ \E n \in DOMAIN outcomes : Failed(n)) =>
         Processed = Wanted

(* After a run that reports success no output is torn, those of one base   *)
(* are of one script and its code and debug symbols of the texts it was    *)
(* compiled from, and none is there without the code; but for what the     *)
(* disk lost when a file was closed, which CompileSourceFile does not ask, *)
(* and for the copies in the temporary directory, which nobody reads.      *)
OutputsAgree ==
    (phase = "exited" /\ ReturnCode = 0) =>
      /\ \A f \in DOMAIN outputs : outputs[f] # Torn
      /\ \A f, g \in DOMAIN outputs :
           f[1] = g[1] /\ f[1] # NoFile => outputs[f].by = outputs[g].by
      /\ \A f \in DOMAIN outputs :
           f[2] \in {"ndb", "d"} => <<f[1], "ncs">> \in DOMAIN outputs
      /\ \A f \in DOMAIN outputs :
           f[2] \in {"ncs", "ndb"} => outputs[f].from \in {Closure(outputs[f].by), Lost}

(* The compiler comes to an end: includes are not read for ever, nor are   *)
(* arguments or inputs. *)
Terminates == <>(phase = "exited")
=============================================================================
