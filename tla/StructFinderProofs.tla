------------------------- MODULE StructFinderProofs -------------------------
(***************************************************************************)
(* The verdict of the struct rules does not depend on the order in which   *)
(* a translation unit is met, for every unit, every set of checks and      *)
(* everything they collect in functions: the database is at every moment   *)
(* what the set of the declarations visited so far says, because visiting  *)
(* a declaration adds what it says to what is there, and no rule asks it   *)
(* before all have been visited.                                           *)
(***************************************************************************)
EXTENDS StructFinder, TLAPS

\* Visiting a declaration makes the database of a set that of the set with it.
LEMMA VisitAdds ==
  ASSUME NEW D \in SUBSET Declarations, NEW d \in Declarations
  PROVE  Visit(DatabaseOf(D), d) = DatabaseOf(D \cup {d})
<1> DEFINE E == D \cup {d}
<1>0. d.vtable \in BOOLEAN /\ d.ignored \in BOOLEAN /\ d.fits \in BOOLEAN
      /\ d.what \in {"struct", "function"}
  BY DEF Declarations
<1>1. \A s : Info(DatabaseOf(D), s) = InfoOf(D, s)
  <2> SUFFICES ASSUME NEW s PROVE Info(DatabaseOf(D), s) = InfoOf(D, s)
    OBVIOUS
  <2>1. CASE s \in Named(D)
    BY <2>1 DEF Info, DatabaseOf
  <2>2. CASE s \notin Named(D)
    <3>1. \A e \in D : ~Defines(e, s) /\ ~IsFunctionOf(e, s)
      BY <2>2 DEF Named, Defines, IsFunctionOf
    <3>2. InfoOf(D, s) = StructInfo
      BY <3>1 DEF InfoOf, StructInfo
    <3> QED BY <2>2, <3>2 DEF Info, DatabaseOf
  <2> QED BY <2>1, <2>2
<1>2. \A s : s # d.struct => /\ s \in Named(E) <=> s \in Named(D)
                             /\ InfoOf(E, s) = InfoOf(D, s)
  <2> SUFFICES ASSUME NEW s, s # d.struct
               PROVE  /\ s \in Named(E) <=> s \in Named(D)
                      /\ InfoOf(E, s) = InfoOf(D, s)
    OBVIOUS
  <2>1. ~Defines(d, s) /\ ~IsFunctionOf(d, s)
    BY DEF Defines, IsFunctionOf
  <2>2. s \in Named(E) <=> s \in Named(D)
    BY <2>1 DEF Named
  <2>3. InfoOf(E, s) = InfoOf(D, s)
    BY <2>1 DEF InfoOf
  <2> QED BY <2>2, <2>3
<1>3. CASE d.ignored \/ (d.what # "struct" /\ ~d.fits)
  <2>1. \A s : ~Defines(d, s) /\ ~IsFunctionOf(d, s)
    BY <1>3 DEF Defines, IsFunctionOf
  <2>2. Named(E) = Named(D)
    <3>1. \A s : s \in Named(E) <=> \E e \in E : Defines(e, s) \/ IsFunctionOf(e, s)
      BY DEF Named, Defines, IsFunctionOf
    <3>2. \A s : s \in Named(D) <=> \E e \in D : Defines(e, s) \/ IsFunctionOf(e, s)
      BY DEF Named, Defines, IsFunctionOf
    <3> QED BY <2>1, <3>1, <3>2
  <2>3. \A s : InfoOf(E, s) = InfoOf(D, s)
    BY <2>1 DEF InfoOf
  <2>4. Visit(DatabaseOf(D), d) = DatabaseOf(D)
    BY <1>3 DEF Visit
  <2> QED BY <2>2, <2>3, <2>4 DEF DatabaseOf
<1>4. CASE ~d.ignored /\ d.what = "struct"
  <2> DEFINE info == InfoOf(D, d.struct)
             new  == [decl |-> TRUE, has |-> info.has, kind |-> info.kind,
                      freeWithoutCreator |-> info.freeWithoutCreator \/ d.vtable]
  <2>1. Named(E) = Named(D) \cup {d.struct}
    BY <1>4 DEF Named, Defines, IsFunctionOf
  <2>2. InfoOf(E, d.struct) = new
    <3>1. Defines(d, d.struct) /\ ~IsFunctionOf(d, d.struct)
      BY <1>4 DEF Defines, IsFunctionOf
    <3>2. {e.suffix : e \in {e \in E : IsFunctionOf(e, d.struct)}}
            = {e.suffix : e \in {e \in D : IsFunctionOf(e, d.struct)}}
      BY <3>1
    <3>3. (\E e \in E : Defines(e, d.struct)) = TRUE
      BY <3>1
    <3>4. (\E e \in E : Defines(e, d.struct) /\ e.vtable)
            = ((\E e \in D : Defines(e, d.struct) /\ e.vtable) \/ d.vtable)
      BY <3>1, <1>0
    <3>5. /\ info.has = {e.suffix : e \in {e \in D : IsFunctionOf(e, d.struct)}}
          /\ info.freeWithoutCreator = (\E e \in D : Defines(e, d.struct) /\ e.vtable)
          /\ info.kind = "Invalid"
      BY DEF InfoOf
    <3> HIDE DEF info
    <3> QED BY <3>2, <3>3, <3>4, <3>5, Zenon DEF InfoOf
  <2>3. Visit(DatabaseOf(D), d) = With(DatabaseOf(D), d.struct, new)
    <3>1. Visit(DatabaseOf(D), d) = RegisterStruct(DatabaseOf(D), d)
      BY <1>4 DEF Visit
    <3>2. Info(DatabaseOf(D), d.struct) = info
      BY <1>1
    <3> QED BY <3>1, <3>2, Zenon DEF RegisterStruct
  <2>4. DOMAIN DatabaseOf(D) = Named(D)
    BY DEF DatabaseOf
  <2> HIDE DEF new
  <2> QED BY <1>2, <2>1, <2>2, <2>3, <2>4 DEF With, DatabaseOf
<1>5. CASE ~d.ignored /\ d.what # "struct" /\ d.fits
  <2>1. Named(E) = Named(D) \cup {d.struct}
    BY <1>5 DEF Named, Defines, IsFunctionOf
  <2>2. InfoOf(E, d.struct) = [InfoOf(D, d.struct) EXCEPT !.has = @ \cup {d.suffix}]
    <3> DEFINE X == \E e \in D : Defines(e, d.struct)
               H == {e.suffix : e \in {e \in D : IsFunctionOf(e, d.struct)}}
               V == \E e \in D : Defines(e, d.struct) /\ e.vtable
    <3>1. ~Defines(d, d.struct) /\ IsFunctionOf(d, d.struct)
      BY <1>5 DEF Defines, IsFunctionOf
    <3>2. {e.suffix : e \in {e \in E : IsFunctionOf(e, d.struct)}}
            = {e.suffix : e \in {e \in D : IsFunctionOf(e, d.struct)}} \cup {d.suffix}
      BY <3>1
    <3>3. (\E e \in E : Defines(e, d.struct)) = (\E e \in D : Defines(e, d.struct))
      BY <3>1
    <3>4. (\E e \in E : Defines(e, d.struct) /\ e.vtable)
            = (\E e \in D : Defines(e, d.struct) /\ e.vtable)
      BY <3>1
    <3>5. InfoOf(D, d.struct) = [decl |-> X, has |-> H, freeWithoutCreator |-> V, kind |-> "Invalid"]
      BY DEF InfoOf
    <3>6. InfoOf(E, d.struct) = [decl |-> X, has |-> H \cup {d.suffix}, freeWithoutCreator |-> V,
                                 kind |-> "Invalid"]
      BY <3>2, <3>3, <3>4, Zenon DEF InfoOf
    <3> HIDE DEF X, H, V
    <3> QED BY <3>5, <3>6
  <2>3. Visit(DatabaseOf(D), d)
          = With(DatabaseOf(D), d.struct, [InfoOf(D, d.struct) EXCEPT !.has = @ \cup {d.suffix}])
    BY <1>5, <1>1 DEF Visit, RegisterFunction
  <2>4. DOMAIN DatabaseOf(D) = Named(D)
    BY DEF DatabaseOf
  <2> QED BY <1>2, <2>1, <2>2, <2>3, <2>4 DEF With, DatabaseOf
<1> QED BY <1>0, <1>3, <1>4, <1>5

-----------------------------------------------------------------------------
(* The inductive invariant                                                 *)

Phases == {"match", "database", "init", "cleanup", "discard", "destroy", "reported"}

\* How far the finder is in each header.
Progress == /\ unit.headers \in Seq(Seq(Declarations))
            /\ seen \in [DOMAIN unit.headers -> Nat]
            /\ \A h \in DOMAIN unit.headers : seen[h] <= Len(unit.headers[h])
            /\ phase \in Phases

\* The declarations that have been visited.
Visited == {d \in Declared : \E h \in DOMAIN seen : \E i \in 1..seen[h] : d = unit.headers[h][i]}

\* What the rules ask in the end.
AllDatabase  == Finalize(DatabaseOf(Declared))
AllCollected == [records |-> UNION {Records(d) : d \in Declared}, uses |-> FunctionUses(unit)]

\* While it is filled, the database is what the visited declarations say as a set, and so are
\* the records; from its end on, it is what all of them say.
Gathered ==
    /\ phase = "match" =>
          /\ database = DatabaseOf(Visited)
          /\ pending = [records |-> UNION {Records(d) : d \in Visited},
                        uses    |-> IF visited THEN FunctionUses(unit) ELSE {}]
    /\ phase # "match" => database = AllDatabase /\ pending = AllCollected

\* The rules that have reported in each phase.
Finished == CASE phase = "cleanup"  -> {"init"}
              [] phase = "discard"  -> {"init", "cleanup"}
              [] phase = "destroy"  -> {"init", "cleanup", "discard"}
              [] phase = "reported" -> {"init", "cleanup", "discard", "destroy"}
              [] OTHER              -> {}

\* What is reported is what they say of the complete database.
ReportedSoFar ==
    reports = IF phase \in {"match", "database"} THEN {}
              ELSE DatabaseReports(AllDatabase)
                   \cup UNION {RuleReports(rule, unit, AllDatabase, AllCollected) : rule \in Finished}

FinderInv == Progress /\ Gathered /\ ReportedSoFar

LEMMA FinderStarts == FinderInit => FinderInv
<1> SUFFICES ASSUME FinderInit PROVE FinderInv
  OBVIOUS
<1>1. Progress
  BY UnitAssumption DEF FinderInit, Progress, Phases
<1>2. Visited = {}
  BY DEF FinderInit, Visited
<1>3. Gathered
  <2>1. DatabaseOf({}) = NoStructs
    <3>1. Named({}) = {}
      BY DEF Named
    <3> QED BY <3>1 DEF DatabaseOf, NoStructs
  <2> QED BY <1>2, <2>1 DEF FinderInit, Gathered
<1>4. ReportedSoFar
  BY DEF FinderInit, ReportedSoFar
<1> QED BY <1>1, <1>3, <1>4 DEF FinderInv

\* The visited declarations are declarations, and in the end all of them.
LEMMA VisitedDeclarations ==
  ASSUME Progress
  PROVE  /\ Visited \in SUBSET Declarations
         /\ (\A h \in DOMAIN seen : seen[h] = Len(unit.headers[h])) => Visited = Declared
<1>1. \A h \in DOMAIN unit.headers : unit.headers[h] \in Seq(Declarations)
  BY DEF Progress
<1>2. Declared \in SUBSET Declarations
  <2> SUFFICES ASSUME NEW h \in DOMAIN unit.headers, NEW d \in ToSet(unit.headers[h])
               PROVE  d \in Declarations
    BY DEF Declared
  <2> QED BY <1>1 DEF ToSet
<1>3. ASSUME \A h \in DOMAIN seen : seen[h] = Len(unit.headers[h]) PROVE Declared \subseteq Visited
  <2> SUFFICES ASSUME NEW h \in DOMAIN unit.headers, NEW d \in ToSet(unit.headers[h])
               PROVE  d \in Visited
    BY DEF Declared
  <2>1. PICK i \in DOMAIN unit.headers[h] : d = unit.headers[h][i]
    BY DEF ToSet
  <2>2. h \in DOMAIN seen /\ i \in 1..seen[h]
    BY <1>1, <1>3, <2>1 DEF Progress
  <2>3. d \in Declared
    BY DEF Declared
  <2> QED BY <2>1, <2>2, <2>3 DEF Visited
<1> QED BY <1>2, <1>3 DEF Visited

LEMMA DeclarationStays ==
  ASSUME FinderInv, MatchDeclaration
  PROVE  FinderInv'
<1>1. PICK h \in DOMAIN seen :
        /\ seen[h] < Len(unit.headers[h])
        /\ database' = Visit(database, unit.headers[h][seen[h] + 1])
        /\ pending' = [pending EXCEPT !.records = @ \cup Records(unit.headers[h][seen[h] + 1])]
        /\ seen' = [seen EXCEPT ![h] = @ + 1]
  BY Zenon DEF MatchDeclaration
<1> DEFINE d == unit.headers[h][seen[h] + 1]
<1>2. phase = "match" /\ UNCHANGED <<unit, visited, phase, reports>>
  BY DEF MatchDeclaration
<1>3. /\ unit.headers \in Seq(Seq(Declarations)) /\ DOMAIN seen = DOMAIN unit.headers
      /\ seen \in [DOMAIN unit.headers -> Nat] /\ h \in DOMAIN unit.headers
      /\ unit.headers[h] \in Seq(Declarations)
  BY <1>1 DEF FinderInv, Progress
<1>4. d \in Declarations /\ d \in Declared
  <2>1. seen[h] + 1 \in DOMAIN unit.headers[h]
    BY <1>1, <1>3
  <2>2. d \in ToSet(unit.headers[h])
    BY <2>1 DEF ToSet
  <2> QED BY <1>3, <2>1, <2>2 DEF Declared
<1>5. Visited' = Visited \cup {d}
  <2>1. Declared' = Declared
    BY <1>2 DEF Declared
  <2>2. \A k \in DOMAIN seen : seen'[k] = IF k = h THEN seen[k] + 1 ELSE seen[k]
    BY <1>1, <1>3
  <2>3. DOMAIN seen' = DOMAIN seen
    BY <1>1, <1>3
  <2>4. \A e : (\E k \in DOMAIN seen' : \E i \in 1..seen'[k] : e = unit.headers[k][i])
               <=> (\E k \in DOMAIN seen : \E i \in 1..seen[k] : e = unit.headers[k][i]) \/ e = d
    <3> SUFFICES ASSUME NEW e
                 PROVE  (\E k \in DOMAIN seen' : \E i \in 1..seen'[k] : e = unit.headers[k][i])
                        <=> (\E k \in DOMAIN seen : \E i \in 1..seen[k] : e = unit.headers[k][i]) \/ e = d
      OBVIOUS
    <3>1. ASSUME NEW k \in DOMAIN seen', NEW i \in 1..seen'[k], e = unit.headers[k][i], e # d
          PROVE  \E j \in DOMAIN seen : \E n \in 1..seen[j] : e = unit.headers[j][n]
      <4>0. seen[k] \in Nat /\ i \in Nat /\ 1 <= i /\ i <= seen'[k]
        BY <1>3, <2>2, <2>3, <3>1
      <4>1. i \in 1..seen[k]
        <5>1. CASE k = h
          <6>1. i # seen[k] + 1
            BY <3>1, <5>1
          <6> QED BY <2>2, <2>3, <4>0, <5>1, <6>1
        <5>2. CASE k # h
          BY <2>2, <2>3, <4>0, <5>2
        <5> QED BY <5>1, <5>2
      <4> QED BY <2>3, <3>1, <4>1
    <3>2. ASSUME NEW k \in DOMAIN seen, NEW i \in 1..seen[k], e = unit.headers[k][i]
          PROVE  \E j \in DOMAIN seen' : \E n \in 1..seen'[j] : e = unit.headers[j][n]
      <4>1. i \in 1..seen'[k]
        <5>1. seen[k] \in Nat
          BY <1>3, <3>2
        <5>2. seen'[k] = seen[k] \/ seen'[k] = seen[k] + 1
          BY <2>2, <3>2
        <5> QED BY <3>2, <5>1, <5>2
      <4> QED BY <2>3, <3>2, <4>1
    <3>3. seen[h] + 1 \in 1..seen'[h] /\ h \in DOMAIN seen'
      BY <1>3, <2>2, <2>3
    <3> QED BY <3>1, <3>2, <3>3
  <2> QED BY <1>2, <1>4, <2>1, <2>4 DEF Visited
<1>6. Progress'
  BY <1>1, <1>2, <1>3 DEF FinderInv, Progress
<1>7. Gathered'
  <2>1. database' = DatabaseOf(Visited')
    BY <1>1, <1>2, <1>4, <1>5, VisitedDeclarations, VisitAdds DEF FinderInv, Gathered
  <2>2. UNION {Records(e) : e \in Visited'} = (UNION {Records(e) : e \in Visited}) \cup Records(d)
    BY <1>5
  <2>3. pending' = [records |-> UNION {Records(e) : e \in Visited'},
                    uses    |-> IF visited THEN FunctionUses(unit) ELSE {}]
    <3> DEFINE old  == UNION {Records(e) : e \in Visited}
               uses == IF visited THEN FunctionUses(unit) ELSE {}
    <3>1. pending = [records |-> old, uses |-> uses]
      BY <1>2 DEF FinderInv, Gathered
    <3>2. pending' = [pending EXCEPT !.records = @ \cup Records(d)]
      BY <1>1
    <3> HIDE DEF old, uses, d
    <3>3. pending' = [records |-> old \cup Records(d), uses |-> uses]
      BY <3>1, <3>2
    <3> QED BY <2>2, <3>3 DEF old, uses
  <2> QED BY <1>2, <2>1, <2>3 DEF Gathered
<1>8. ReportedSoFar'
  BY <1>2 DEF FinderInv, ReportedSoFar
<1> QED BY <1>6, <1>7, <1>8 DEF FinderInv

\* Neither the unit nor what its declarations say changes while the rules report.
LEMMA ReportStays ==
  ASSUME FinderInv, NEW rule \in {"init", "cleanup", "discard", "destroy"}, NEW to \in Phases,
         ReportOf(rule, to),
         <<rule, to>> \in {<<"init", "cleanup">>, <<"cleanup", "discard">>,
                           <<"discard", "destroy">>, <<"destroy", "reported">>}
  PROVE  FinderInv'
<1>1. /\ phase = rule /\ phase' = to
      /\ reports' = reports \cup RuleReports(rule, unit, database, pending)
      /\ UNCHANGED <<unit, seen, visited, database, pending>>
  BY DEF ReportOf, Report
<1>2. AllDatabase' = AllDatabase /\ AllCollected' = AllCollected
  BY <1>1 DEF AllDatabase, AllCollected, Declared
<1>3. Progress'
  BY <1>1 DEF FinderInv, Progress
<1>4. database = AllDatabase /\ pending = AllCollected
  BY <1>1 DEF FinderInv, Gathered
<1>5. Gathered'
  BY <1>1, <1>2, <1>4 DEF Gathered
<1>6. Finished' = Finished \cup {rule}
  BY <1>1 DEF Finished
<1>7. ReportedSoFar'
  <2>1. UNION {RuleReports(r, unit, AllDatabase, AllCollected) : r \in Finished'}
          = (UNION {RuleReports(r, unit, AllDatabase, AllCollected) : r \in Finished})
            \cup RuleReports(rule, unit, AllDatabase, AllCollected)
    BY <1>6
  <2>2. reports = DatabaseReports(AllDatabase)
                  \cup UNION {RuleReports(r, unit, AllDatabase, AllCollected) : r \in Finished}
    BY <1>1 DEF FinderInv, ReportedSoFar
  <2> QED BY <1>1, <1>2, <1>4, <2>1, <2>2 DEF ReportedSoFar
<1> QED BY <1>3, <1>5, <1>7 DEF FinderInv

LEMMA FinderStep == FinderInv /\ [FinderNext]_finderVars => FinderInv'
<1> SUFFICES ASSUME FinderInv, [FinderNext]_finderVars PROVE FinderInv'
  OBVIOUS
<1>1. CASE MatchDeclaration
  BY <1>1, DeclarationStays
<1>2. CASE MatchFunctions
  <2>1. /\ phase = "match" /\ UNCHANGED <<unit, seen, database, phase, reports>>
        /\ visited' = TRUE /\ pending' = [pending EXCEPT !.uses = FunctionUses(unit)]
    BY <1>2 DEF MatchFunctions
  <2>2. Visited' = Visited
    BY <2>1 DEF Visited, Declared
  <2>3. Gathered'
    BY <2>1, <2>2 DEF FinderInv, Gathered
  <2> QED BY <2>1, <2>3 DEF FinderInv, Progress, ReportedSoFar
<1>3. CASE FinalizeDatabase
  <2>1. /\ phase = "match" /\ visited /\ phase' = "database" /\ database' = Finalize(database)
        /\ UNCHANGED <<unit, seen, visited, pending, reports>>
        /\ \A h \in DOMAIN seen : seen[h] = Len(unit.headers[h])
    BY <1>3 DEF FinalizeDatabase
  <2>2. Visited = Declared
    BY <2>1, VisitedDeclarations DEF FinderInv
  <2>3. AllDatabase' = AllDatabase /\ AllCollected' = AllCollected
    BY <2>1 DEF AllDatabase, AllCollected, Declared
  <2>4. database' = AllDatabase /\ pending' = AllCollected
    BY <2>1, <2>2 DEF FinderInv, Gathered, AllDatabase, AllCollected
  <2>5. Gathered'
    BY <2>1, <2>3, <2>4 DEF Gathered
  <2>6. Progress'
    BY <2>1 DEF FinderInv, Progress, Phases
  <2> QED BY <2>1, <2>5, <2>6 DEF FinderInv, ReportedSoFar
<1>4. CASE ReportDatabase
  <2>1. /\ phase = "database" /\ phase' = "init"
        /\ reports' = reports \cup DatabaseReports(database)
        /\ UNCHANGED <<unit, seen, visited, database, pending>>
    BY <1>4 DEF ReportDatabase, Report
  <2>2. AllDatabase' = AllDatabase /\ AllCollected' = AllCollected
    BY <2>1 DEF AllDatabase, AllCollected, Declared
  <2>3. Progress'
    BY <2>1 DEF FinderInv, Progress, Phases
  <2>4. Gathered' /\ database = AllDatabase
    BY <2>1, <2>2 DEF FinderInv, Gathered
  <2>5. ReportedSoFar'
    <3>1. Finished' = {} /\ reports = {}
      BY <2>1 DEF Finished, FinderInv, ReportedSoFar
    <3> QED BY <2>1, <2>2, <2>4, <3>1 DEF ReportedSoFar
  <2> QED BY <2>3, <2>4, <2>5 DEF FinderInv
<1>5. CASE ReportInit \/ ReportCleanup \/ ReportDiscard \/ ReportDestroy
  BY <1>5, ReportStays DEF ReportInit, ReportCleanup, ReportDiscard, ReportDestroy, Phases
<1>6. CASE UNCHANGED finderVars
  <2>1. Visited' = Visited /\ AllDatabase' = AllDatabase /\ AllCollected' = AllCollected
        /\ Finished' = Finished
    BY <1>6 DEF finderVars, Visited, AllDatabase, AllCollected, Declared, Finished
  <2> QED BY <1>6, <2>1 DEF finderVars, FinderInv, Progress, Gathered, ReportedSoFar
<1> QED BY <1>1, <1>2, <1>3, <1>4, <1>5, <1>6 DEF FinderNext

\* The reports do not depend on the order in which declarations, definitions and uses are met:
\* they are those that the set of the unit's declarations calls for, whatever the rules check.
THEOREM VerdictIsOrderFree == FinderSpec => []VerdictIgnoresOrder
<1>1. FinderInv => VerdictIgnoresOrder
  <2> SUFFICES ASSUME FinderInv, phase = "reported"
               PROVE  reports = DatabaseReports(AllDatabase)
                        \cup UNION {RuleReports(rule, unit, AllDatabase, AllCollected) :
                                       rule \in {"init", "cleanup", "discard", "destroy"}}
    BY Zenon DEF VerdictIgnoresOrder, AllDatabase, AllCollected
  <2>1. Finished = {"init", "cleanup", "discard", "destroy"}
    BY DEF Finished
  <2> QED BY <2>1 DEF FinderInv, ReportedSoFar
<1> QED BY <1>1, FinderStarts, FinderStep, PTL DEF FinderSpec
=============================================================================
