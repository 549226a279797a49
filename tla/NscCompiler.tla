----------------------------- MODULE NscCompiler -----------------------------
(***************************************************************************)
(* NscCompiler: the compiler of one script after another, as the command   *)
(* line drives it.  Parsing is reduced to what it reads (the files a text  *)
(* includes, each once) and to what becomes of it (an error, an entry      *)
(* point); what survives a script is the cache of resources and the        *)
(* symbols of nwscript.                                                    *)
(***************************************************************************)
EXTENDS Integers, Sequences, FiniteSets

CONSTANTS Names,          \* of resources, at most 32 characters long
          Dirs,           \* directories of the disk
          Installations   \* what the disk and the archives may hold

(* A text: what it includes in this order, how it ends (a syntax error     *)
(* ends the parse, a semantic one is counted, a late one is found when     *)
(* code is generated), and whether it defines an entry point. *)
Text == [includes : Seq(Names), fault : {"none", "syntax", "semantic", "late"},
         main : BOOLEAN]

(* Texts are known by <<directory, name>>, or <<Archive, name>> for those  *)
(* that only the resource manager has. *)
Archive == "archive"
Locations == (Dirs \cup {Archive}) \X Names
NoWhere == <<>>

NwScript == "nwscript"

ASSUME CompilerAssumption ==
    /\ IsFiniteSet(Names)
    /\ NwScript \in Names /\ Archive \notin Dirs
    /\ \A i \in Installations : /\ DOMAIN i \subseteq Locations
                                /\ \A l \in DOMAIN i : i[l] \in Text

VARIABLES disk,         \* the installation, which nothing here changes
          paths,        \* m_IncludePaths
          loaded,       \* whether the archives have been loaded
          cache,        \* m_ResourceCache: where the contents of a name are from
          g_Resources,
          makeDeps,     \* m_GenerateMakeDeps
          initialized,  \* m_Initialized; of a run with -d, m_NWScriptParsed
          stage,        \* where NscCompileScript is
          job,          \* its arguments: [script, deps, ignore], with the names
                        \* known, cached when it began, for the properties
          streams,      \* the stack of the context, [at, rest]
          files,        \* m_asFiles of the context
          texts,        \* what the context has parsed in this phase
          errors,       \* GetErrors () > 0
          hasMain,      \* HasMain ()
          result, code, dependencies

context == <<streams, files, texts, errors, hasMain>>
kept == <<cache, initialized>>
answer == <<result, code, dependencies>>
compilerVars == <<disk, paths, loaded, kept, g_Resources, makeDeps, stage, job, context, answer>>

CompilerInit == /\ disk \in Installations
                /\ paths = <<>> /\ loaded = FALSE
                /\ cache = <<>> /\ initialized = FALSE
                /\ g_Resources = {} /\ makeDeps = FALSE
                /\ stage = "idle"
                /\ job = [script |-> NoWhere, deps |-> FALSE, ignore |-> TRUE, known |-> {}]
                /\ streams = <<>> /\ files = {} /\ texts = {}
                /\ errors = FALSE /\ hasMain = FALSE
                /\ result = "none" /\ code = {} /\ dependencies = {}

(* Where LoadResource finds a name that is not cached: the first include   *)
(* path that has the file, then the archives. *)
Holding(name) == {i \in DOMAIN paths : <<paths[i], name>> \in DOMAIN disk}

Find(name) ==
    IF Holding(name) # {}
    THEN <<paths[CHOOSE i \in Holding(name) : \A j \in Holding(name) : i <= j], name>>
    ELSE IF loaded /\ <<Archive, name>> \in DOMAIN disk THEN <<Archive, name>> ELSE NoWhere

Location(name) == IF name \in DOMAIN cache THEN cache[name] ELSE Find(name)

(* LoadResource and NscCacheResource: a hit changes nothing; a miss is     *)
(* cached, and a file of a directory, unlike one of a bif, is noted as a   *)
(* dependency. *)
LoadResource(name) ==
    LET at == Find(name) IN
    IF name \in DOMAIN cache \/ at = NoWhere
    THEN UNCHANGED <<cache, g_Resources>>
    ELSE /\ cache' = [n \in DOMAIN cache \cup {name} |-> IF n = name THEN at ELSE cache[n]]
         /\ g_Resources' = IF makeDeps /\ at[1] # Archive THEN g_Resources \cup {at}
                                                          ELSE g_Resources

-----------------------------------------------------------------------------
(* NscCompileScript: clears what it returns and initialises on first use. *)
NscCompileScript(script, deps, ignore) ==
    /\ stage = "idle"
    /\ job' = [script |-> script, deps |-> deps, ignore |-> ignore, known |-> {}]
    /\ result' = "none" /\ code' = {} /\ dependencies' = {}
    /\ g_Resources' = {}
    /\ stage' = IF initialized THEN "begin" ELSE "initialize"
    /\ UNCHANGED <<disk, paths, loaded, kept, makeDeps, context>>

Return(r) == /\ stage' = "done"
             /\ result' = r
             /\ makeDeps' = FALSE

NwScriptParses ==
    LET at == Location(NwScript) IN at # NoWhere /\ disk[at].fault \notin {"syntax", "semantic"}

(* nwscript.nss, parsed into the symbols every script starts from; a       *)
(* failure is tried again with the next script. *)
NscCompilerInitialize ==
    /\ stage = "initialize"
    /\ LoadResource(NwScript)
    /\ IF NwScriptParses
       THEN /\ initialized' = TRUE
            /\ stage' = "begin"
            /\ UNCHANGED <<makeDeps, answer>>
       ELSE /\ Return("Failure")
            /\ UNCHANGED <<initialized, code, dependencies>>
    /\ UNCHANGED <<disk, paths, loaded, job, context>>

(* NscDisassembleScript parses nwscript too, for the names of actions; if  *)
(* that fails a message is all there is to write. *)
NscDisassembleScript ==
    /\ IF initialized THEN UNCHANGED <<kept, g_Resources>>
       ELSE LoadResource(NwScript) /\ initialized' = NwScriptParses
    /\ UNCHANGED <<disk, paths, loaded, makeDeps, stage, job, context, answer>>

Stream(at) == [at |-> at, rest |-> disk[at].includes]

(* Faulty: the second phase keeps the files of the first. *)
AddScriptOnly == /\ streams' = <<Stream(job.script)>>
                 /\ files' = IF stage = "phase1" THEN files ELSE {job.script[2]}
                 /\ texts' = {job.script}

(* ClearFiles and AddStream. *)
AddScript == /\ streams' = <<Stream(job.script)>>
             /\ files' = {job.script[2]}
             /\ texts' = {job.script}

BeginCompile == /\ stage = "begin"
                /\ makeDeps' = job.deps
                /\ AddScript
                /\ errors' = FALSE /\ hasMain' = FALSE
                /\ stage' = "phase1"
                /\ job' = [job EXCEPT !.known = DOMAIN cache]
                /\ UNCHANGED <<disk, paths, loaded, kept, g_Resources, answer>>

Parsing == stage \in {"phase1", "phase2"} /\ streams # <<>>
Top == streams[Len(streams)]
Popped == SubSeq(streams, 1, Len(streams) - 1)

(* Faulty: the line of a file that is there already is read again. *)
StuckLine == IF Head(Top.rest) \in files THEN streams
             ELSE Append(Popped, [Top EXCEPT !.rest = Tail(@)])

PastLine == Append(Popped, [Top EXCEPT !.rest = Tail(@)])

(* #include: once per file; one that cannot be found ends the input. *)
Include ==
    /\ Parsing /\ Top.rest # <<>>
    /\ LET name == Head(Top.rest) IN
          IF name \in files
          THEN /\ streams' = PastLine
               /\ UNCHANGED <<cache, g_Resources, files, texts, errors>>
          ELSE /\ LoadResource(name)
               /\ IF Location(name) = NoWhere
                  THEN /\ streams' = <<>> /\ errors' = TRUE
                       /\ UNCHANGED <<files, texts>>
                  ELSE /\ streams' = Append(PastLine, Stream(Location(name)))
                       /\ files' = files \cup {name}
                       /\ texts' = texts \cup {Location(name)}
                       /\ errors' = errors
    /\ UNCHANGED <<disk, paths, loaded, initialized, makeDeps, stage, job, hasMain, answer>>

(* The rest of a text, and its end. *)
EndOfText ==
    /\ Parsing /\ Top.rest = <<>>
    /\ LET text == disk[Top.at] IN
         /\ errors' = (errors \/ text.fault \in {"syntax", "semantic"})
         /\ hasMain' = (hasMain \/ text.main)
         /\ streams' = IF text.fault = "syntax" THEN <<>> ELSE Popped
    /\ UNCHANGED <<disk, paths, loaded, kept, g_Resources, makeDeps, stage, job, files, texts,
                   answer>>

EndOfPhase1 ==
    /\ stage = "phase1" /\ streams = <<>>
    /\ IF errors \/ (job.ignore /\ ~hasMain)
       THEN /\ Return(IF errors THEN "Failure" ELSE "Include")
            /\ UNCHANGED <<context, code, dependencies>>
       ELSE /\ stage' = "phase2"
            /\ AddScript
            /\ UNCHANGED <<makeDeps, errors, hasMain, answer>>
    /\ UNCHANGED <<disk, paths, loaded, kept, g_Resources, job>>

(* GenerateOutput, and the test for an entry point that comes after it     *)
(* when includes are compiled. *)
Generated == IF \E at \in texts : disk[at].fault = "late" THEN "Failure"
             ELSE IF ~job.ignore /\ ~hasMain THEN "Include" ELSE "Success"

EndOfPhase2 ==
    /\ stage = "phase2" /\ streams = <<>>
    /\ LET r == IF errors THEN "Failure" ELSE Generated IN
         /\ Return(r)
         /\ code' = IF r = "Success" THEN texts ELSE {}
         /\ dependencies' = IF r = "Success" THEN g_Resources ELSE {}
         /\ g_Resources' = IF r = "Success" THEN {} ELSE g_Resources
    /\ UNCHANGED <<disk, paths, loaded, kept, job, context>>

CompilerStep == \/ NscCompilerInitialize \/ BeginCompile \/ Include \/ EndOfText
                \/ EndOfPhase1 \/ EndOfPhase2

-----------------------------------------------------------------------------
(* What compiling a script on its own comes to.  What it includes,         *)
(* directly or not, by whichever way a name is reached first; NoWhere if   *)
(* some of it is missing.  Names bounds how deep includes go. *)
Wider(S, script) ==
    S \cup UNION {{Find(name) : name \in {disk[at].includes[i] : i \in DOMAIN disk[at].includes}
                                         \ {script[2]}} : at \in S \ {NoWhere}}

Closure(script) ==
    LET wide[n \in 0 .. Cardinality(Names)] ==
          IF n = 0 THEN {script} ELSE Wider(wide[n - 1], script)
    IN wide[Cardinality(Names)]

Broken(S) == NoWhere \in S \/ \E at \in S : disk[at].fault \in {"syntax", "semantic"}

Alone(script, ignore) ==
    LET all == Closure(script)
        entry == \E at \in all : disk[at].main
    IN IF Broken({Find(NwScript)}) \/ Broken(all) THEN "Failure"
       ELSE IF ignore /\ ~entry THEN "Include"
       ELSE IF \E at \in all : disk[at].fault = "late" THEN "Failure"
       ELSE IF ~entry THEN "Include" ELSE "Success"

(* A script of a batch depends on those before it in one way only.  Its    *)
(* result and its code are what they would be if it were compiled alone:   *)
(* neither the cache, the initialised compiler nor a failure before it     *)
(* show there.  Its dependencies are what it includes, by whatever way,    *)
(* but for the script itself, what only an archive has, and all that was   *)
(* in the cache when its compilation began, of whichever script and        *)
(* however that ended (LoadResource notes nothing on a hit).               *)
BatchIndependent ==
    stage = "done" =>
      /\ result = Alone(job.script, job.ignore)
      /\ result = "Success" =>
           /\ code = Closure(job.script)
           /\ dependencies = IF job.deps
                             THEN {at \in Closure(job.script) \ {job.script} :
                                     at[1] # Archive /\ at[2] \notin job.known}
                             ELSE {}
=============================================================================
