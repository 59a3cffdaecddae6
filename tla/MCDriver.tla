------------------------------ MODULE MCDriver ------------------------------
(* Small projects, configurations and command lines for Driver.            *)
EXTENDS Driver

A      == <<"proj", "src", "a.c">>
B      == <<"proj", "src", "b.c">>
H      == <<"proj", "inc", "io", "h.h">>
AlsoH  == <<"proj", "src", "..", "inc", "io", "h.h">>
Vendor == <<"proj", "vendor", "v.c">>
Test   == <<"proj", "build", "t.c">>
System == <<"usr", "stdio.h">>

\* The header: up to three lines that turn the rules off and on and break them.
Marks   == {{"enum"}, {"off"}, {"on", "no_goto"}, {"off", "on", "enum"}, {"reason", "enum"}}
Headers == UNION {[1..n -> Marks] : n \in 1..3}

File(lines, isSource, rank) ==
    [lines |-> lines, source |-> isSource, rank |-> rank, system |-> FALSE,
     prefix |-> <<>>, guard |-> <<>>]
Part(n)    == 1..n

\* a.c and b.c include the header, b.c under another spelling and without its first line.
Project(header, failing) ==
    [files |-> A :> File(<<{"enum"}, {"no_goto"}>>, TRUE, 1) @@ B :> File(<<{"no_goto"}>>, TRUE, 2)
               @@ H :> File(header, FALSE, 3)
               @@ Vendor :> File(<<{"enum"}>>, TRUE, 4) @@ Test :> File(<<{"enum"}>>, TRUE, 5)
               @@ System :> [File(<<{"enum"}, {"off"}>>, FALSE, 6) EXCEPT !.system = TRUE],
     links |-> AlsoH :> H,
     units |-> A :> [fails |-> A \in failing,
                     parts |-> A :> Part(2) @@ H :> 1..Len(header) @@ System :> Part(2)]
               @@ B :> [fails |-> B \in failing,
                        parts |-> B :> Part(1) @@ AlsoH :> 2..Len(header) @@ Vendor :> Part(1)]
               @@ Vendor :> [fails |-> FALSE, parts |-> Vendor :> Part(1)]
               @@ Test :> [fails |-> FALSE, parts |-> Test :> Part(1)],
     databases |-> {<<"proj", "build">>}, writable |-> {<<"out.txt">>, <<"out.json">>},
     dotted |-> {"a.c", "b.c", "h.h", "v.c", "t.c", "stdio.h", ".."},
     headers |-> {"h.h", "stdio.h"}, foundConfig |-> <<"proj">>]

\* The header declares names that start with these folders, behind this guard, and b.c includes
\* it under one spelling or the other.
Lines1 == << {"guard"}, {"prefix_namespace"}, {"prefix_namespace"} >>
Lines2 == << {"prefix_namespace"}, {"prefix_namespace"} >>
Lines3 == << {"off", "guard"}, {"on", "prefix_namespace", "no_goto"}, {"prefix_namespace"} >>
Lines4 == << {"guard", "off", "prefix_namespace"} >>
Named(lines, prefix, guard, spelling, failing) ==
    LET w == Project(lines, failing)
    IN  [w EXCEPT !.files[H].prefix = prefix, !.files[H].guard = guard,
                  !.units[B].parts = B :> Part(1) @@ spelling :> 2..Len(lines)]
NamedProjects ==
    {Named(lines, prefix, guard, spelling, failing) :
        lines \in {Lines1, Lines2, Lines3, Lines4}, spelling \in {H, AlsoH},
        prefix \in {<<>>, <<"inc">>, <<"io", "inc">>, <<"src">>},
        guard \in {<<"inc", "io", "h.h">>, <<"io", "h.h">>}, failing \in {{}, {A}}}

-----------------------------------------------------------------------------
(* Configuration files                                                     *)

Head2(r, lines) == << HeadAt(2, r) >> \o lines
Top(third)      == << HeadAt(0, "third_party_includes") >>
                   \o [i \in DOMAIN third |-> Item(2, third[i])]
                   \o << Pair(0, "compile_commands_dir", <<"build">>), Note, HeadAt(0, "rules") >>
LevelIs(l)      == Pair(4, "level", <<l>>)

Plain  == Top(<< <<"vendor">> >>)
          \o Head2("enum", << LevelIs("Warning") >>) \o Head2("no_goto", << LevelIs("Error") >>)
Strict == Top(<< >>) \o Head2("suppression_reason_rule", << LevelIs("Warning") >>)
          \o Head2("enum", << LevelIs("Warning") >>) \o Head2("private", << LevelIs("Off") >>)
Bad    == Plain \o Head2("private", << LevelIs("Error") >>)
Local  == << HeadAt(0, "rules") >> \o Head2("enum", << LevelIs("Error") >>)
Empty  == Top(<< <<"vendor">>, << >> >>)
          \o Head2("enum", << LevelIs("Error") >>) \o Head2("no_goto", << LevelIs("Warning") >>)
Names(settings) ==
    Plain \o Head2("prefix_namespace",
                   << LevelIs("Warning"), Pair(4, "top_dir", <<"proj">>),
                      Pair(4, "separator", <<"__">>),
                      Pair(4, "require_ifndef_for_filepath", <<"yes">>) >> \o settings)
Twice  == << Pair(0, "compile_commands_dir", <<"\"", "'", "build", "'", "\"">>), HeadAt(0, "rules") >>
Legacy == << HeadAt(0, "rules") >>
          \o Head2("global_variable", << LevelIs("Error"), Pair(4, "prefix", <<"'", "g_", "'">>) >>)

\* One setting of one rule at a time, and what a list needs.
Other(kind, v) ==
    CASE kind = "level" -> <<"Error">>
      [] kind = "flag"  -> IF v = <<"true">> THEN <<"no">> ELSE <<"true">>
      [] kind = "number" -> <<"20", "#", "a comment">>
      [] kind = "list"  -> <<"[", "f", "g", "]">>
      [] OTHER -> <<"\"", "_x", "\"">>
Given(r, k)  == Head2(r, << Pair(4, k, Other(KindOf(r, k), Default(r, k))) >>)
Dumpable     == {s \in UNION {{<<r, k>> : k \in DOMAIN Settings[r]} : r \in Rules} :
                     KindOf(s[1], s[2]) # "legacy"}
OneSetting   == [s \in Dumpable |-> Top(<< <<"a">>, <<"b">> >>) \o Given(s[1], s[2])]
Listed       == Plain \o Head2("restricted_malloc",
                    << LevelIs("Error"), HeadAt(4, "list_of_allowed_malloc_functions"),
                       Item(6, <<"f">>), Item(6, <<"'", "g", "'">>), LevelIs("Warning") >>)
AllAtOnce    == << Note, HeadAt(0, "rules") >>
                \o FlattenSeq([i \in DOMAIN Written |->
                       Head2(Written[i][1],
                             [j \in DOMAIN Written[i][2] |->
                                 Pair(4, Written[i][2][j],
                                      Other(KindOf(Written[i][1], Written[i][2][j]),
                                            Default(Written[i][1], Written[i][2][j])))])])

Configs == OneSetting @@ <<"proj">> :> Plain @@ <<"strict">> :> Strict @@ <<"bad">> :> Bad
           @@ <<"local">> :> Local @@ <<"names">> :> Names(<< >>)
           @@ <<"topmost">> :> Names(<< Pair(4, "work_from_top", <<"true">>),
                                        Pair(4, "stop_at_count", <<"1">>) >>)
           @@ <<"empty">> :> Empty @@ <<"listed">> :> Listed
           @@ <<"all">> :> AllAtOnce @@ <<"legacy">> :> Legacy @@ <<"twice">> :> Twice

\* The file found, and the one that is asked for.
WithConfigs(w, asked) ==
    LET names == {<<"proj">>, asked} \cap DOMAIN Configs
    IN  w @@ [configs |-> [c \in names |-> Configs[c]], base |-> [c \in names |-> <<"proj">>]]

-----------------------------------------------------------------------------
(* Command lines                                                           *)

None == [text |-> << >>, json |-> << >>, sarif |-> << >>]
Plainly == [unknown |-> FALSE, help |-> FALSE, dumpConfig |-> FALSE, quiet |-> FALSE,
            warningsAsErrors |-> FALSE, noConfigThirdPartyIncludes |-> FALSE,
            thirdPartyIncludes |-> << >>, prefixTopDir |-> << >>, buildPath |-> << >>,
            config |-> << >>, inputs |-> << <<"proj">> >>, outputs |-> None]

Refused == {[Plainly EXCEPT !.unknown = TRUE], [Plainly EXCEPT !.help = TRUE],
            [Plainly EXCEPT !.inputs = << >>], [Plainly EXCEPT !.inputs = << <<"nowhere">> >>],
            [Plainly EXCEPT !.inputs = << <<"proj", "build">> >>],
            [Plainly EXCEPT !.config = <<"nowhere">>], [Plainly EXCEPT !.config = <<"bad">>],
            [Plainly EXCEPT !.config = <<"local">>], [Plainly EXCEPT !.config = <<"legacy">>],
            [Plainly EXCEPT !.buildPath = <<"nowhere">>],
            [Plainly EXCEPT !.outputs = [None EXCEPT !["text"] = Stdout, !["json"] = Stdout]],
            [Plainly EXCEPT !.outputs = [None EXCEPT !["json"] = <<"out.txt">>,
                                                     !["sarif"] = <<"nowhere">>]]}
Running == {Plainly,
            [Plainly EXCEPT !.warningsAsErrors = TRUE, !.outputs = [None EXCEPT !["json"] = <<"out.json">>]],
            [Plainly EXCEPT !.config = <<"strict">>, !.inputs = << B, A, <<"proj", "src">> >>,
                            !.outputs = [None EXCEPT !["sarif"] = Stdout]],
            [Plainly EXCEPT !.config = <<"strict">>, !.inputs = << Vendor, A >>,
                            !.thirdPartyIncludes = << <<"inc">> >>,
                            !.buildPath = <<"proj", "build">>],
            [Plainly EXCEPT !.config = <<"empty">>, !.quiet = TRUE,
                            !.outputs = [None EXCEPT !["text"] = <<"out.txt">>]],
            [Plainly EXCEPT !.noConfigThirdPartyIncludes = TRUE,
                            !.thirdPartyIncludes = << <<"src">> >>]}
Naming  == {[Plainly EXCEPT !.config = <<"names">>], [Plainly EXCEPT !.config = <<"topmost">>],
            [Plainly EXCEPT !.config = <<"topmost">>, !.prefixTopDir = <<"inc">>]}
Dumping == {[Plainly EXCEPT !.dumpConfig = TRUE, !.inputs = << >>, !.config = c] :
                c \in DOMAIN Configs}
           \cup {[Plainly EXCEPT !.dumpConfig = TRUE, !.prefixTopDir = <<"top">>,
                                 !.thirdPartyIncludes = << <<"lib">> >>]}

\* The commands that only look at the configuration do so in one project.
Invocation(o, w) == [options |-> o, world |-> WithConfigs(w, o.config)]
MCInvocations ==
    {Invocation(o, Project(h, f)) : o \in Running, h \in Headers, f \in {{}, {A}, {B}}}
    \cup {Invocation(o, w) : o \in Naming, w \in NamedProjects}
    \cup {Invocation(o, Project(<< {"enum"} >>, {})) : o \in Refused \cup Dumping}
=============================================================================
