----------------------------- MODULE StructRules -----------------------------
(***************************************************************************)
(* The struct rules over a translation unit: StructFinder with the rules   *)
(* as they are.  Beside them a function of the unit that uses raii values, *)
(* and the destroy function of a raii struct, are executed: where each     *)
(* value is, who destroys it, and which fields were destroyed.             *)
(***************************************************************************)
EXTENDS StructFinder, StructInit, DestroyDefinition

\* A unit is a record: headers, config, and two functions: function, depth, parameters and
\* body, and the destroy function of the raii fields.

VARIABLES stage,     \* what runs
          memory,    \* the execution of unit.body
          pc,        \* where an execution is
          destroyed  \* the execution of unit.destroy: the fields, in the order of their destruction

runVars == <<stage, memory, pc, destroyed>>
vars    == <<finderVars, runVars>>

Garbage == -1
Empty   == 0

\* What p points to is the caller's and holds the value 1, the parameter a the value 2.
Entry(parameters) ==
    [cells |-> [c \in {"a", "b", "r[0]", "r[1]", "*p"} |->
                   CASE c = "*p" -> 1 [] c \in ToSet(parameters) -> 2 [] OTHER -> Garbage],
     live |-> 1..(1 + Len(parameters)), made |-> 2, wrong |-> FALSE]

Init == /\ FinderInit
        /\ stage = "idle" /\ memory = Entry(unit.parameters) /\ pc = 1 /\ destroyed = <<>>

-----------------------------------------------------------------------------
(* The rules, given to StructFinder by the configuration                   *)

\* The functions that are called must be declared first, and so must vec.
Called(s) == {e.op : e \in Parts(s)} \cup CASE s.op = "destroy"      -> {"destroy"}
                                         [] s.op = "destroyArray" -> {"arrayDestroy"}
                                         [] OTHER                 -> {}
NeededBy(u) == {"vec"} \cup UNION {Called(u.body[i]) : i \in DOMAIN u.body}

\* A statement, and the function that it is taken to be in.
UsesIn(u) == {<<u.body[i], FindEnclosingFunction(u.function, u.depth)>> : i \in DOMAIN u.body}

Codes(checks) == {<<code>> : code \in UNION checks}

InitReports(u, db, collected) ==
    Codes({CheckStatement(db, u.config, use[2], use[1]) : use \in collected.uses}
          \cup {CheckRecordDecl(db) : s \in collected.records \cap {"box"}})

DiscardReports(db, collected) == Codes({CheckDiscard(db, use[1]) : use \in collected.uses})

\* Of vec's destroy function, when vec is a raii struct whose definition was seen.
DestroyReports(u, db) ==
    IF u.config.standardizedDestroy /\ KindOf(db, "vec") = "Raii" /\ Info(db, "vec").decl
    THEN Codes({CheckDestroyDefinition(u.fields, u.destroy, u.config.inReverseOrder)})
    ELSE {}

ReportsOf(rule, u, db, collected) ==
    CASE rule = "init"    -> InitReports(u, db, collected)
      [] rule = "cleanup" -> CleanupReports(db, u.config, u.function, u.parameters, u.body)
      [] rule = "discard" -> DiscardReports(db, collected)
      [] rule = "destroy" -> DestroyReports(u, db)

-----------------------------------------------------------------------------
(* An execution of unit.body, which may end anywhere with its statements.  *)

Cell(arg) == CASE arg \in {"a", "&a"}       -> "a"
               [] arg \in {"b", "&b"}       -> "b"
               [] arg \in {"r[0]", "&r[0]"} -> "r[0]"
               [] OTHER                     -> "*p"

\* A value that was destroyed, or never made, is used.
Bad(m, v) == v \notin m.live \cup {Empty}

Outcome(v, m) == [value |-> v, memory |-> m]

Fresh(m) == Outcome(m.made + 1, [m EXCEPT !.made = @ + 1, !.live = @ \cup {m.made + 1}])

\* The value is someone else's now, who destroys it, or it is destroyed.
Consume(m, v) == [m EXCEPT !.live = @ \ {v}, !.wrong = @ \/ Bad(m, v)]

\* move and return leave nothing behind; copy makes a value of its own; the rest copies bits.
Outcomes(m, e) ==
    LET c == Cell(e.arg)
        v == m.cells[c]
    IN  CASE e.op \in {"move", "return"} ->
                {Outcome(v, [m EXCEPT !.cells[c] = Empty, !.wrong = @ \/ Bad(m, v)])}
          [] e.op = "make"        -> {Fresh(m)}
          [] e.op = "copy"        -> {Fresh([m EXCEPT !.wrong = @ \/ Bad(m, v)])}
          [] e.op = "conditional" -> {Fresh(m), Outcome(v, m)}
          [] e.op = "literal"     -> {Outcome(Empty, m)}
          [] e.op = "none"        -> {Outcome(Garbage, m)}
          [] OTHER                -> {Outcome(v, m)}

Assigned(o, c) == [o.memory EXCEPT !.cells[c] = o.value]

\* The array's elements in turn; what the list leaves out is zero.
ArrayOutcomes(m, e) ==
    LET Elem(i) == IF i \in DOMAIN e.items THEN e.items[i]
                   ELSE IF e.op = "list" THEN Expr("literal", "", <<>>) ELSE NoExpr
    IN  UNION {{Assigned(p, "r[1]") : p \in Outcomes(Assigned(o, "r[0]"), Elem(2))} :
                o \in Outcomes(m, Elem(1))}

Cleared(m, c) == [Consume(m, m.cells[c]) EXCEPT !.cells[c] = Empty]

Effects(m, s) ==
    LET given == Outcomes(m, s.e)
    IN  CASE s.op = "decl" /\ s.var = "r"   -> ArrayOutcomes(m, s.e)
          [] s.op \in {"decl", "assign"}    -> {Assigned(o, Cell(s.var)) : o \in given}
          [] s.op \in {"pass", "return"}    -> {Consume(o.memory, o.value) : o \in given}
          [] s.op \in {"wrap", "discard"}   -> {o.memory : o \in given}
          [] s.op = "destroy"               -> {Cleared(m, Cell(s.var))}
          [] s.op = "destroyArray"          -> {Cleared(Cleared(m, "r[0]"), "r[1]")}

Run(what) == stage' = what /\ UNCHANGED <<finderVars, destroyed>>

\* Code that the rules are silent about is compiled and run.
Start == phase = "reported" /\ reports = {} /\ stage = "idle" /\ Run("body") /\ UNCHANGED <<memory, pc>>

Step ==
    /\ stage = "body" /\ pc \in DOMAIN unit.body
    /\ memory' \in Effects(memory, unit.body[pc])
    /\ pc' = pc + 1
    /\ Run("body")

\* The caller destroys what *p holds.
Leave ==
    /\ stage = "body" /\ pc > Len(unit.body)
    /\ memory' = [Cleared(memory, "*p") EXCEPT !.cells = [c \in DOMAIN @ |-> Empty]]
    /\ pc' = 1
    /\ Run("destroyer")

StepDestroy ==
    LET code == CodeOf(unit.destroy)
    IN  /\ stage = "destroyer" /\ pc \in DOMAIN code
        /\ pc' \in Successors(code, pc)
        /\ destroyed' = IF code[pc].op # "destroy" THEN destroyed
                        ELSE IF Len(destroyed) > Len(unit.fields) THEN destroyed
                        ELSE Append(destroyed, code[pc].arg)
        /\ UNCHANGED <<finderVars, stage, memory>>

LeaveDestroy ==
    /\ stage = "destroyer" /\ pc \notin DOMAIN CodeOf(unit.destroy)
    /\ stage' = "over"
    /\ UNCHANGED <<finderVars, memory, pc, destroyed>>

Next == \/ FinderNext /\ UNCHANGED runVars
        \/ Start \/ Step \/ Leave \/ StepDestroy \/ LeaveDestroy

Spec == Init /\ [][Next]_vars

-----------------------------------------------------------------------------
(* Properties                                                              *)

\* vec has a raii creator and its definition is the project's own.
IsRaiiUnit == KindOf(database, "vec") = "Raii" /\ Info(database, "vec").decl

\* An assignment is only looked at when it is from a call or a variable.
CopiesAreVisible ==
    \A i \in DOMAIN unit.body : unit.body[i].op = "assign" =>
        ExprIsStructReturnValue(unit.body[i].e) \/ unit.body[i].e.op = "var"

\* rules.md: "every value of it must have exactly one owner, and the rules follow from that".
\* In a function of the project that no struct rule reports, each value that was made is in
\* one place at every step, no place holds a value that was destroyed, none is used, and none
\* is left when the function is over.  The helpers are where ownership is made.
EveryValueHasOneOwner ==
    (stage \in {"body", "destroyer"} /\ IsRaiiUnit /\ unit.function = UserFunction
        /\ unit.depth <= MaxParents /\ CopiesAreVisible) =>
    LET m == memory
    IN  /\ ~m.wrong
        /\ \A c \in DOMAIN m.cells : m.cells[c] \in m.live \cup {Empty, Garbage}
        /\ \A v \in m.live : Cardinality({c \in DOMAIN m.cells : m.cells[c] = v}) = 1

\* raii_standardized_destroy_definitions: a destroy function that is not reported destroys
\* all of the raii fields or none, whatever its branches and jumps do, and each once unless
\* a goto leads back over the destroys.
FieldsAreDestroyedTogether ==
    (stage = "over" /\ IsRaiiUnit /\ unit.config.standardizedDestroy) =>
        /\ ToSet(destroyed) \in {{}, ToSet(unit.fields)}
        /\ GoesBack(CodeOf(unit.destroy)) \/ IsInjective(destroyed)
        /\ (unit.config.inReverseOrder /\ IsInjective(destroyed)) =>
              destroyed \in {<<>>, Reverse(unit.fields)}
=============================================================================
