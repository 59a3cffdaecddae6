---------------------------- MODULE StructFinder -----------------------------
(***************************************************************************)
(* FinderAndFinalizerConsumer: the finder visits the declarations of a     *)
(* translation unit and the definitions of its functions, in an order that *)
(* the unit's includes decide, and the struct rules collect what they see; *)
(* then the database is finalized, and one rule after the other reports.   *)
(* What the rules look for in functions, and what they report, are         *)
(* parameters here: StructRules composes this module with the rules.       *)
(***************************************************************************)
EXTENDS StructDatabase

CONSTANTS Units,                  \* families of units, which are records
          Needed(_),              \* the names that the functions of a unit use
          FunctionUses(_),        \* what is collected from the functions of a unit
          RuleReports(_, _, _, _) \* of a rule, in a unit, by the database and what is collected

\* The headers of a unit are sequences of declarations.
ASSUME UnitAssumption ==
    \A family \in Units : \A u \in family : u.headers \in Seq(Seq(Declarations))

VARIABLES unit,      \* the translation unit
          seen,      \* how many of its declarations the finder has visited in each header
          visited,   \* the finder visited the functions' definitions
          database,  \* StructDatabase
          pending,   \* what the rules collected: records, and uses in functions
          phase,     \* how far the consumer is
          reports    \* what was reported

finderVars == <<unit, seen, visited, database, pending, phase, reports>>

FinderInit ==
    /\ \E family \in Units : unit \in family
    /\ seen = [h \in DOMAIN unit.headers |-> 0] /\ visited = FALSE
    /\ database = NoStructs
    /\ pending = [records |-> {}, uses |-> {}]
    /\ phase = "match" /\ reports = {}

-----------------------------------------------------------------------------
(* The finder                                                              *)

Declared == UNION {ToSet(unit.headers[h]) : h \in DOMAIN unit.headers}

\* The structs that a declaration defines.
Records(d) == IF d.what = "struct" THEN {d.struct} ELSE {}

\* One header may be included in the middle of another one.
MatchDeclaration ==
    /\ phase = "match"
    /\ \E h \in DOMAIN seen :
          /\ seen[h] < Len(unit.headers[h])
          /\ LET d == unit.headers[h][seen[h] + 1]
             IN  /\ database' = Visit(database, d)
                 /\ pending'  = [pending EXCEPT !.records = @ \cup Records(d)]
          /\ seen' = [seen EXCEPT ![h] = @ + 1]
    /\ UNCHANGED <<unit, visited, phase, reports>>

\* What a function uses is declared before it.
Gives(d) == IF d.what = "struct" THEN d.struct ELSE d.suffix
IsNeeded(h, i) == Gives(unit.headers[h][i]) \in Needed(unit)

MatchFunctions ==
    /\ phase = "match" /\ ~visited
    /\ \A h \in DOMAIN seen : \A i \in (seen[h] + 1)..Len(unit.headers[h]) : ~IsNeeded(h, i)
    /\ visited' = TRUE
    /\ pending' = [pending EXCEPT !.uses = FunctionUses(unit)]
    /\ UNCHANGED <<unit, seen, database, phase, reports>>

-----------------------------------------------------------------------------
(* The rules                                                               *)

FinalizeDatabase ==
    /\ phase = "match" /\ visited /\ \A h \in DOMAIN seen : seen[h] = Len(unit.headers[h])
    /\ database' = Finalize(database)
    /\ phase' = "database"
    /\ UNCHANGED <<unit, seen, visited, pending, reports>>

Report(from, to, new) ==
    /\ phase = from
    /\ phase' = to
    /\ reports' = reports \cup new
    /\ UNCHANGED <<unit, seen, visited, database, pending>>

ReportOf(rule, to) == Report(rule, to, RuleReports(rule, unit, database, pending))

ReportDatabase == Report("database", "init", DatabaseReports(database))
ReportInit     == ReportOf("init", "cleanup")
ReportCleanup  == ReportOf("cleanup", "discard")
ReportDiscard  == ReportOf("discard", "destroy")
ReportDestroy  == ReportOf("destroy", "reported")

FinderNext == \/ MatchDeclaration \/ MatchFunctions \/ FinalizeDatabase
              \/ ReportDatabase \/ ReportInit \/ ReportCleanup \/ ReportDiscard \/ ReportDestroy

FinderSpec == FinderInit /\ [][FinderNext]_finderVars

-----------------------------------------------------------------------------
(* Property                                                                *)

\* What a set of declarations, in no order, says of the structs: which there are, and the
\* functions of each.  Declarations that the rules do not see say nothing.
Defines(d, s)      == ~d.ignored /\ d.struct = s /\ d.what = "struct"
IsFunctionOf(d, s) == ~d.ignored /\ d.struct = s /\ d.what # "struct" /\ d.fits
InfoOf(D, s) == [decl               |-> \E d \in D : Defines(d, s),
                 has                |-> {d.suffix : d \in {d \in D : IsFunctionOf(d, s)}},
                 freeWithoutCreator |-> \E d \in D : Defines(d, s) /\ d.vtable,
                 kind               |-> "Invalid"]
Named(D)      == {s \in {d.struct : d \in D} : \E d \in D : Defines(d, s) \/ IsFunctionOf(d, s)}
DatabaseOf(D) == [s \in Named(D) |-> InfoOf(D, s)]

\* The checks wait for the whole unit.  Whatever the order in which declarations, definitions
\* and uses are met, the reports are those that the unit's declarations, taken together as a
\* set, call for.
VerdictIgnoresOrder ==
    phase = "reported" =>
    LET all       == Finalize(DatabaseOf(Declared))
        collected == [records |-> UNION {Records(d) : d \in Declared}, uses |-> FunctionUses(unit)]
    IN  reports = DatabaseReports(all)
                  \cup UNION {RuleReports(rule, unit, all, collected) :
                                 rule \in {"init", "cleanup", "discard", "destroy"}}
=============================================================================
