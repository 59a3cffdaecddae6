------------------------------- MODULE Driver -------------------------------
(***************************************************************************)
(* The workshopc program (WorkshopC/src/main.cpp): arguments,              *)
(* configuration, compilation database, source files and the analysis of   *)
(* one source file after the other, with Diagnostics (diagnostics.cpp) and *)
(* SuppressionManager (suppression_manager.cpp).                           *)
(*                                                                         *)
(* A path is the sequence of its names; a file may be reached through      *)
(* other spellings of its path.  What a line holds is in Suppressions; a   *)
(* line that holds "prefix_namespace" declares a name that this rule looks *)
(* at, and one that holds "guard" is the first #ifndef.                    *)
(***************************************************************************)
EXTENDS ConfigReader, PrefixNamespace, Suppressions, FiniteSets

\* The invocations [options, world]: a command line, a record of Options, and what clang and
\* the file system hold.
CONSTANT Invocations

RealPathIn(w, path) == IF path \in DOMAIN w.links THEN w.links[path] ELSE path
IsSequence(s)       == s \in Seq(ToSet(s))

\* A project: the files and their order, and for each source that can be asked for, the lines
\* of files that its compilation reads.
IsProject(inputs, w) ==
    /\ IsSequence(inputs) /\ IsFiniteSet(DOMAIN w.files)
    /\ \A f \in DOMAIN w.files :
          /\ IsSequence(w.files[f].lines) /\ w.files[f].rank \in Nat
          /\ w.files[f].source \/ f \in {RealPathIn(w, p) : p \in ToSet(inputs)} =>
                f \in DOMAIN w.units
    /\ \A f \in DOMAIN w.units : \A p \in DOMAIN w.units[f].parts :
          /\ RealPathIn(w, p) \in DOMAIN w.files
          /\ w.units[f].parts[p] \subseteq DOMAIN w.files[RealPathIn(w, p)].lines

\* What is configured: in files, and on the command line.
IsConfigured(o, w) ==
    /\ o.thirdPartyIncludes \in Seq(Seq(STRING)) /\ o.prefixTopDir \in Seq(STRING)
    /\ \A path \in DOMAIN w.configs : w.configs[path] \in Seq(ConfigLine)

ASSUME InvocationAssumption ==
    \A i \in Invocations : IsProject(i.options.inputs, i.world) /\ IsConfigured(i.options, i.world)

VARIABLES pc, options, world, config,
          input,        \* how many inputs were searched for sources
          sources,      \* the source files found
          source,       \* how many of them were given to clang
          checked,      \* the headers whose include guard was checked, as they were spelled
          found,        \* what the rules find in the last one, not yet reported
          diagnostics, result, disk, stdout, exitCode

vars == <<pc, options, world, config, input, sources, source, checked, found, diagnostics, result,
          disk, stdout, exitCode>>

ExitCode == [Clean |-> 0, Errors |-> 1, Warnings |-> 2, BadUsage |-> 64, ConfigFailed |-> 65,
             CompilationDatabaseFailed |-> 66, AnalysisFailed |-> 67]

\* The outputs in the order in which they are opened and written.
Outputs == <<"text", "json", "sarif">>
Stdout  == <<"-">>

RealPath(path)     == RealPathIn(world, path)
IsInside(path, f)  == f # <<>> /\ IsStrictPrefix(f, path)
Lines(path)        == world.files[RealPath(path)].lines

IsInSystemHeader(path) == world.files[RealPath(path)].system

\* An entry of third_party_includes is found in the path.
HasFolder(path, p)     == p # <<>> /\ p[1] \in {path[i] : i \in DOMAIN path}
ThirdPartyFolder(path) == \E p \in ToSet(config.thirdPartyIncludes) : HasFolder(path, p)

\* The rules that do not ask whether an entry is empty find an empty one in every path.
FindsEmptyItem == {"enum", "private", "private_alternative", "function_pointer", "assignment",
                   "prefix_namespace", "null_check", "argument_pointer_movement"}
IsThirdParty(r, path) ==
    \/ ThirdPartyFolder(path)
    \/ r \in FindsEmptyItem /\ <<>> \in ToSet(config.thirdPartyIncludes)

-----------------------------------------------------------------------------
(* The rules over one translation unit                                     *)

\* projectFiles: the files of the unit that are not system or third-party headers.
ProjectFiles(unit) ==
    {path \in DOMAIN unit.parts : ~IsInSystemHeader(path) /\ ~ThirdPartyFolder(path)}

Finding(level, code, path, i, message) ==
    [level |-> level, code |-> code, file |-> path, line |-> i, message |-> message]

\* CreateASTConsumer registers the rules that are on.
ActiveRules == {r \in Rules : IsOn(config, r)}

\* What the message of a rule says beyond what is at the line: prefix_namespace asks for the
\* prefix of the path as it is spelled, and has nothing to say where the name has it.
Prefix(path)     == BuildPrefix(config, world.dotted, path)
Message(r, path) == IF r = "prefix_namespace" THEN Prefix(path) ELSE <<>>
IsHeader(path)   == Last(path) \in world.headers
Holds(r, path)   ==
    r = "prefix_namespace" =>
        IsHeader(path) /\ MissesPrefix(Prefix(path), world.files[RealPath(path)].prefix)

\* What the rules break in line i of a file that is not a system header.
RulesBroken(path, i) ==
    {r \in Lines(path)[i] \cap ActiveRules : ~IsThirdParty(r, path) /\ Holds(r, path)}

\* Each rule reports what it finds in the lines that are compiled.
RuleFindings(unit) ==
    UNION {UNION {{Finding(LevelOf(config, r), r, path, i, Message(r, path)) :
                      r \in RulesBroken(path, i)} :
               i \in {j \in unit.parts[path] : ~IsSuppressed(Lines(path), j)}} :
           path \in {p \in DOMAIN unit.parts : ~IsInSystemHeader(p)}}

\* The declarations of headers that prefix_namespace looks at, <<path, line>>.
ShouldCheckPath(path) == IsHeader(path) /\ ~IsThirdParty("prefix_namespace", path)
Declarations(unit) ==
    UNION {{<<path, i>> : i \in {j \in unit.parts[path] :
                                   /\ ~IsSuppressed(Lines(path), j)
                                   /\ "prefix_namespace" \in Lines(path)[j] \cap ActiveRules}} :
           path \in {p \in DOMAIN unit.parts : ~IsInSystemHeader(p) /\ ShouldCheckPath(p)}}
PathsOf(declarations) == {d[1] : d \in declarations}

GuardMissing(path) ==
    LET at    == GuardLine(Lines(path))
        guard == IF at = 0 THEN <<>> ELSE world.files[RealPath(path)].guard
    IN  GuardIsMissing(config, path, guard, IsSuppressed(Lines(path), at))

\* checkFileIncludeGuard: the first declaration of a header not checked before, under this
\* spelling of its path, is where its include guard is reported.
GuardFindings(declarations) ==
    {Finding(LevelOf(config, "prefix_namespace"), "MissingIncludeGuard", path,
             Min({d[2] : d \in {e \in declarations : e[1] = path}}), BelowTop(config, path)) :
        path \in {p \in PathsOf(declarations) \ checked : GuardMissing(p)}}

\* The suppression rules look at every project file as a whole.
Unbalanced(path) ==
    LET lines == FindUnbalanced(Lines(path))
    IN  UNION {{Finding("Error", code, path, i, <<>>) : i \in lines[code]} : code \in DOMAIN lines}
MissingReason(path) ==
    {Finding(LevelOf(config, "suppression_reason_rule"), "SuppressionMissingReason", path, i, <<>>) :
        i \in {j \in MissingReasons(Lines(path)) : "suppression_reason_rule" \in ActiveRules}}
SuppressionFindings(unit) ==
    UNION {Unbalanced(path) \cup MissingReason(path) : path \in ProjectFiles(unit)}

Findings(unit) == RuleFindings(unit) \cup SuppressionFindings(unit)

-----------------------------------------------------------------------------
(* Diagnostics                                                             *)

Promoted(level) == IF options.warningsAsErrors /\ level = "Warning" THEN "Error" ELSE level

Record(d) == Finding(Promoted(d.level), d.code, d.file, d.line, d.message)

\* Mutant: the same file is another one through another spelling of its path.
SpelledKey(d) == Finding(Promoted(d.level), d.code, d.file, d.line, d.message)
Key(d) == Finding(Promoted(d.level), d.code, RealPath(d.file), d.line, d.message)

\* report: a finding that was seen before is left out of records, counts and terminal.
Report(diag, d) ==
    LET level == Promoted(d.level)
    IN  IF d.level = "Off" \/ Key(d) \in diag.seen THEN diag
        ELSE [seen     |-> diag.seen \cup {Key(d)},
              records  |-> Append(diag.records, Record(d)),
              terminal |-> IF options.quiet \/ options.outputs["text"] = Stdout
                           THEN diag.terminal ELSE Append(diag.terminal, Record(d)),
              warnings |-> diag.warnings + (IF level = "Warning" THEN 1 ELSE 0),
              errors   |-> diag.errors + (IF level = "Error" THEN 1 ELSE 0)]

NothingReported == [seen |-> {}, records |-> <<>>, terminal |-> <<>>, warnings |-> 0, errors |-> 0]

-----------------------------------------------------------------------------
(* main                                                                    *)

Init ==
    /\ pc = "arguments"
    /\ \E i \in Invocations : options = i.options /\ world = i.world
    /\ config = Config /\ input = 0 /\ sources = <<>> /\ source = 0 /\ checked = {}
    /\ found = {} /\ diagnostics = NothingReported /\ result = 0 /\ exitCode = 0
    /\ disk = <<>> /\ stdout = <<>>

progress == <<input, sources, source, checked, found, diagnostics, result>>

Exit(code) == pc' = "exited" /\ exitCode' = code

\* At most one output may be written to stdout.
ToStdout == {i \in DOMAIN Outputs : options.outputs[Outputs[i]] = Stdout}
Arguments ==
    /\ pc = "arguments"
    /\ IF options.unknown \/ Cardinality(ToStdout) > 1 THEN Exit(ExitCode.BadUsage)
       ELSE IF options.help THEN Exit(ExitCode.Clean)
       ELSE IF options.inputs = <<>> /\ ~options.dumpConfig THEN Exit(ExitCode.BadUsage)
       ELSE pc' = "config" /\ UNCHANGED exitCode
    /\ UNCHANGED <<options, world, config, progress, disk, stdout>>

\* A preset or a file given with --config, or workshopc.yaml of the current folder and its parents.
ConfigPath == IF options.config = <<>> THEN world.foundConfig ELSE options.config

WithOverrides(c) ==
    [c EXCEPT !.thirdPartyIncludes =
                  (IF options.noConfigThirdPartyIncludes THEN <<>> ELSE @)
                  \o options.thirdPartyIncludes,
              !.rules["prefix_namespace"]["top_dir"] =
                  IF options.prefixTopDir # <<>> THEN options.prefixTopDir ELSE @]

LoadConfig ==
    /\ pc = "config"
    /\ IF ConfigPath \notin DOMAIN world.configs
       THEN Exit(ExitCode.ConfigFailed) /\ UNCHANGED config
       ELSE /\ config' = WithOverrides(LoadFromStream(world.configs[ConfigPath]))
            /\ pc' = IF options.dumpConfig THEN "dump" ELSE "validate"
            /\ UNCHANGED exitCode
    /\ UNCHANGED <<options, world, progress, disk, stdout>>

\* The config is written as it was read, valid or not.
DumpConfig ==
    /\ pc = "dump"
    /\ stdout' = WriteConfig(config)
    /\ Exit(ExitCode.Clean)
    /\ UNCHANGED <<options, world, config, progress, disk>>

Validate ==
    /\ pc = "validate"
    /\ IF ValidateConfig(config) THEN pc' = "database" /\ UNCHANGED exitCode
       ELSE Exit(ExitCode.ConfigFailed)
    /\ UNCHANGED <<options, world, config, progress, disk, stdout>>

\* compile_commands_dir is relative to the folder of the config file.
CompdbDir ==
    IF options.buildPath # <<>> \/ config.compileCommandsDir = <<>> THEN options.buildPath
    ELSE world.base[ConfigPath] \o config.compileCommandsDir

LocateDatabase ==
    /\ pc = "database"
    /\ IF CompdbDir \in world.databases THEN pc' = "sources" /\ UNCHANGED exitCode
       ELSE Exit(ExitCode.CompilationDatabaseFailed)
    /\ UNCHANGED <<options, world, config, progress, disk, stdout>>

IsFile(path)   == RealPath(path) \in DOMAIN world.files
IsFolder(path) == \E f \in DOMAIN world.files : IsInside(f, RealPath(path))

\* The .c files below a folder, without third-party folders and the folder of the compilation
\* database.
FilesBelow(folder) ==
    {f \in DOMAIN world.files : /\ IsInside(f, RealPath(folder)) /\ world.files[f].source
                               /\ ~ThirdPartyFolder(f) /\ ~IsInside(f, RealPath(CompdbDir))}

\* The one sequence of these files in the order of their paths.
InOrder(files) ==
    {q \in [1..Cardinality(files) -> files] :
        \A i, j \in DOMAIN q : i < j => world.files[q[i]].rank < world.files[q[j]].rank}

AddOnce(path) == IF path \in ToSet(sources) THEN sources ELSE Append(sources, path)

\* collectSources: the next file or folder named on the command line.
CollectInput ==
    /\ pc = "sources" /\ input < Len(options.inputs)
    /\ LET path == options.inputs[input + 1]
       IN  IF IsFile(path)
           THEN sources' = AddOnce(RealPath(path)) /\ UNCHANGED <<pc, exitCode>>
           ELSE IF IsFolder(path)
           THEN /\ \E q \in InOrder(FilesBelow(path) \ ToSet(sources)) : sources' = sources \o q
                /\ UNCHANGED <<pc, exitCode>>
           ELSE Exit(ExitCode.BadUsage) /\ UNCHANGED sources
    /\ input' = input + 1
    /\ UNCHANGED <<options, world, config, source, checked, found, diagnostics, result, disk,
                   stdout>>

CollectSources ==
    /\ pc = "sources" /\ input = Len(options.inputs)
    /\ IF sources = <<>> THEN Exit(ExitCode.BadUsage) ELSE pc' = "outputs" /\ UNCHANGED exitCode
    /\ UNCHANGED <<options, world, config, progress, disk, stdout>>

\* The output files are opened, and emptied, one after the other before the analysis.
Wanted == {o \in ToSet(Outputs) : options.outputs[o] # <<>>}
Files  == {options.outputs[o] : o \in {w \in Wanted : options.outputs[w] # Stdout}}
OpenOutputs ==
    /\ pc = "outputs"
    /\ LET fails == {i \in DOMAIN Outputs : options.outputs[Outputs[i]] \in Files \ world.writable}
           opened == {options.outputs[Outputs[i]] :
                         i \in {j \in DOMAIN Outputs : \A k \in fails : j < k}} \cap Files
       IN  /\ disk' = [f \in opened |-> <<>>]
           /\ IF fails = {} THEN pc' = "analyze" /\ UNCHANGED exitCode
              ELSE Exit(ExitCode.BadUsage)
    /\ UNCHANGED <<options, world, config, progress, stdout>>

\* ClangTool.run over the next source; where clang fails it still hands the rules what it
\* could recover of the file.
Recovered(unit, all) == IF unit.fails THEN SUBSET all ELSE {all}
\* Mutant: the result is that of the last source.
LastResult(fails) == IF fails THEN 1 ELSE 0
Result(fails)     == IF fails THEN 1 ELSE result

AnalyzeSource ==
    /\ pc = "analyze" /\ found = {} /\ source < Len(sources)
    /\ source' = source + 1
    /\ LET unit == world.units[sources[source']]
       IN  /\ result' = Result(unit.fails)
           /\ \E visited \in Recovered(unit, Declarations(unit)),
                 rest \in Recovered(unit, Findings(unit)) :
                /\ found' = rest \cup GuardFindings(visited)
                /\ checked' = checked \cup PathsOf(visited)
    /\ UNCHANGED <<pc, options, world, config, input, sources, diagnostics, disk, stdout, exitCode>>

\* The rules report one finding after the other.
ReportFinding ==
    /\ pc = "analyze" /\ found # {}
    /\ LET d == CHOOSE d \in found : TRUE
       IN  diagnostics' = Report(diagnostics, d) /\ found' = found \ {d}
    /\ UNCHANGED <<pc, options, world, config, input, sources, source, checked, result, disk,
                   stdout, exitCode>>

\* The bitmask of errors (1) and warnings (2).
Verdict == (IF diagnostics.errors > 0 THEN ExitCode.Errors ELSE ExitCode.Clean)
           + (IF diagnostics.warnings > 0 THEN ExitCode.Warnings ELSE ExitCode.Clean)

WriteOutputs ==
    /\ pc = "analyze" /\ found = {} /\ source = Len(sources)
    /\ disk'   = [f \in DOMAIN disk |-> diagnostics.records]
    /\ stdout' = IF ToStdout = {} THEN stdout ELSE diagnostics.records
    /\ Exit(IF result # 0 THEN ExitCode.AnalysisFailed ELSE Verdict)
    /\ UNCHANGED <<options, world, config, progress>>

Next == \/ Arguments \/ LoadConfig \/ DumpConfig \/ Validate \/ LocateDatabase
        \/ CollectInput \/ CollectSources \/ OpenOutputs
        \/ AnalyzeSource \/ ReportFinding \/ WriteOutputs

Spec == Init /\ [][Next]_vars /\ WF_vars(Next)

-----------------------------------------------------------------------------
(* What the program promises                                               *)

\* The sources that an input asks for, and all the sources that a run is asked for.
SourcesOf(path) == IF IsFile(path) THEN {RealPath(path)} ELSE FilesBelow(path)
Asked == UNION {SourcesOf(path) : path \in ToSet(options.inputs)}

\* What the rules break in unsuppressed lines that one of the sources compiles, by the real
\* file, with what is said of it.
Broken ==
    UNION {UNION {UNION {{<<RealPath(path), i, r, Message(r, path)>> : r \in RulesBroken(path, i)} :
                      i \in {j \in world.units[s].parts[path] : ~Silenced(Lines(path), j)}} :
                  path \in {p \in DOMAIN world.units[s].parts : ~IsInSystemHeader(p)}} :
           s \in Asked}

\* The headers that one of the sources compiles a declaration of and that need another include
\* guard, by the real file, with the guard that their path asks for.
Unguarded ==
    UNION {{<<RealPath(path), BelowTop(config, path)>> :
               path \in {p \in PathsOf(Declarations(world.units[s])) : GuardMissing(p)}} :
           s \in Asked}

Complete == pc = "exited" /\ exitCode < 64 /\ ~options.help /\ ~options.dumpConfig

RecordsOf(code) == {d \in ToSet(diagnostics.records) : d.code = code}

\* A run that is not refused, and whose exit code is below 64, has reported each unsuppressed
\* violation of the project's own lines, and each include guard that is missing, in whatever
\* order and through whatever paths the sources reach the file, and nothing else of these
\* rules.  Nothing is reported twice: a line and a rule once, or once for each prefix that the
\* spellings of the header's path ask for, and an include guard once for each spelling.
EveryFindingOnce ==
    Complete =>
      /\ {<<RealPath(d.file), d.line, d.code, d.message>> :
             d \in UNION {RecordsOf(r) : r \in Rules}} = Broken
      /\ {<<RealPath(d.file), d.message>> : d \in RecordsOf("MissingIncludeGuard")} = Unguarded
      /\ \A i, j \in DOMAIN diagnostics.records :
            LET d == diagnostics.records[i]
                e == diagnostics.records[j]
            IN  i # j /\ d.code = e.code =>
                  /\ d.line = e.line /\ d.message = e.message =>
                        RealPath(d.file) # RealPath(e.file)
                  /\ d.code = "MissingIncludeGuard" => d.file # e.file

\* The exit code tells what the outputs hold: below 64 every source was compiled, bit 1 is set
\* when a finding is an error, bit 2 when one is a warning, and every output wanted holds all
\* the findings; 67 means that a source did not compile; any other code, that nothing was
\* analyzed.
ExitCodeTellsTheResult ==
    pc = "exited" /\ ~options.help /\ ~options.dumpConfig =>
      LET has(level) == \E i \in DOMAIN diagnostics.records : diagnostics.records[i].level = level
          written    == {disk[f] : f \in DOMAIN disk} \cup (IF ToStdout = {} THEN {} ELSE {stdout})
      IN  CASE exitCode < 64 ->
                 /\ \A s \in Asked : ~world.units[s].fails
                 /\ exitCode = (IF has("Error") THEN 1 ELSE 0) + (IF has("Warning") THEN 2 ELSE 0)
                 /\ written \subseteq {diagnostics.records}
                 /\ Files = DOMAIN disk
            [] exitCode = 67 -> \E s \in Asked : world.units[s].fails
            [] OTHER -> diagnostics.records = <<>>

\* No text of a configuration was given in two pairs of quotes.
QuotedOnce(c) ==
    /\ ~Quoted(c.compileCommandsDir)
    /\ \A r \in Rules : \A k \in DOMAIN Settings[r] :
          KindOf(r, k) = "unquoted" => ~Quoted(c.rules[r][k])

\* --dump-config writes every setting that was read, with the overrides, so that the dump is
\* read back as the same config; settings that are no longer supported aside, and text that
\* loses a pair of quotes each time.
DumpedConfigIsTheConfig ==
    pc = "exited" /\ stdout # <<>> /\ options.dumpConfig
        /\ NoLegacySettings(config) /\ QuotedOnce(config) =>
            LoadFromStream(stdout) = config
=============================================================================
