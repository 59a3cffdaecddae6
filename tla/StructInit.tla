----------------------------- MODULE StructInit ------------------------------
(***************************************************************************)
(* StructInitRule and StructRaiiDiscardRule: how the values of a struct    *)
(* may be made, assigned, passed and returned.  The function considered    *)
(* works on "a", a parameter, "b", a local variable, "r", a local array of *)
(* two, and "*p", which a pointer parameter designates, all of the struct  *)
(* "vec", and may wrap a value in a struct "box".                          *)
(*                                                                         *)
(* An expression is a record [op, arg, items]: a call of make, or of the   *)
(* copy, move or return function with an argument like "&b", a variable,   *)
(* something else, or the list of an array's elements.  A statement is a   *)
(* record [op, var, e, how].                                               *)
(***************************************************************************)
EXTENDS StructDatabase, CleanupAnalyzer

ArraySize  == 2
MaxParents == 16

Expr(op, arg, items) == [op |-> op, arg |-> arg, items |-> items]
NoExpr == Expr("none", "", <<>>)
Use(op, var, e, how) == [op |-> op, var |-> var, e |-> e, how |-> how]

LifecycleOps == {"copy", "move", "return"}
Calls        == {"make"} \cup LifecycleOps

\* A function: its struct and suffix, if it has the name of one, else "".
UserFunction == [struct |-> "", suffix |-> ""]
NoFunction   == [struct |-> "", suffix |-> "none"]

\* findEnclosingFunction gives up above a node that is nested too deeply.
FindEnclosingFunction(fn, depth) == IF depth > MaxParents THEN NoFunction ELSE fn

\* isInsideHelperFunction: the struct's own helpers may do everything, its free creator not.
IsInsideHelperFunction(fn, s) == fn.struct = s /\ fn.suffix \in FunctionKind \ {"free"}

IsHelperOfAnyStruct(db, fn) == fn.suffix \in FunctionKind /\ Known(db, fn.struct)

\* A free creator sets up the fields of its own struct, which s are of.
IsOwnMemberOfFreeCreator(db, target, fn) ==
    /\ target = "self->v" /\ fn.suffix = "free"
    /\ "free" \in Info(db, fn.struct).has

-----------------------------------------------------------------------------
(* Expressions                                                             *)

ExprIsStructReturnValue(e)       == e.op \in Calls
ExprIsStructVariableReference(e) == e.op \in {"var", "deref", "elem"}
ExprIsStructValue(e) == ExprIsStructReturnValue(e) \/ ExprIsStructVariableReference(e)

\* Mutant: an assignment from a variable is overlooked.
ExprIsCall(e) == ExprIsStructReturnValue(e)

\* What the check of an assignment looks at: no dereference and no array element.
ExprIsNonPointerStructValue(e) == ExprIsStructReturnValue(e) \/ e.op = "var"

IsFullyInitializedArray(e, returnValuesOnly) ==
    /\ e.op = "list" /\ Len(e.items) >= ArraySize
    /\ \A i \in 1..ArraySize : IF returnValuesOnly THEN ExprIsStructReturnValue(e.items[i])
                                                   ELSE ExprIsStructValue(e.items[i])

Parts(s) == {s.e} \cup ToSet(s.e.items)

-----------------------------------------------------------------------------
(* The checks of a statement, in a function that is no helper of vec       *)

CheckVarDecl(db, cfg, s) ==
    LET kind     == KindOf(db, "vec")
        isArray  == s.var = "r"
        ours     == kind = "Raii" /\ cfg.arrays
        Wrong(code) ==
            CASE code = "PodInit"      -> ~isArray /\ kind = "Pod" /\ ~ExprIsStructValue(s.e)
              [] code = "RaiiInit"     -> ~isArray /\ kind = "Raii" /\ ~ExprIsStructReturnValue(s.e)
              [] code = "PodArrayInit" ->
                    isArray /\ kind = "Pod" /\ ~IsFullyInitializedArray(s.e, FALSE)
              [] code = "RaiiArrayInit" -> isArray /\ ours /\ ~IsFullyInitializedArray(s.e, TRUE)
              [] code = "RaiiArrayMissingDestroyArray" ->
                    isArray /\ ours /\ "arrayDestroy" \notin Info(db, "vec").has
              [] code = "StructArrayNotAllowed" -> isArray /\ kind # "Pod" /\ ~ours
    IN  {code \in {"PodInit", "RaiiInit", "PodArrayInit", "RaiiArrayInit",
                   "RaiiArrayMissingDestroyArray", "StructArrayNotAllowed"} : Wrong(code)}

CheckAssignment(db, fn, s) ==
    IF /\ ExprIsNonPointerStructValue(s.e)
       /\ KindOf(db, "vec") = "Raii"
       /\ ~IsOwnMemberOfFreeCreator(db, s.var, fn)
    THEN {"RaiiReassigned"} ELSE {}

\* checkValueRefArgument: the argument is the address of a variable.
IsAddressOfVariable(arg) == arg \in {"&a", "&b"}

CheckMoveArgument(db, cfg, fn, s) ==
    IF /\ cfg.mayOnlyMoveValueRef /\ KindOf(db, "vec") = "Raii" /\ ~IsHelperOfAnyStruct(db, fn)
       /\ \E e \in Parts(s) : e.op = "move" /\ ~IsAddressOfVariable(e.arg)
    THEN {"MoveNotValueRef"} ELSE {}

CheckDestroyArgument(db, cfg, fn, s) ==
    IF /\ cfg.mayOnlyDestroyValueRef /\ KindOf(db, "vec") = "Raii" /\ ~IsHelperOfAnyStruct(db, fn)
       /\ s.op = "destroy" /\ ~IsAddressOfVariable(s.var)
    THEN {"DestroyNotValueRef"} ELSE {}

\* The array itself, and its size.
CheckArrayDestroyArguments(db, cfg, s) ==
    IF s.op # "destroyArray" \/ ~cfg.arrays \/ KindOf(db, "vec") # "Raii" THEN {}
    ELSE IF s.var # "r" THEN {"DestroyArrayFirstArgument"}
    ELSE IF s.how # ArraySize THEN {"DestroyArraySize"} ELSE {}

\* A parameter of vec by value: of take, and of the creator of box.
CheckCallArguments(db, s) ==
    IF s.op \notin {"pass", "wrap"} THEN {}
    ELSE {code \in {"PodArgument", "RaiiArgument"} :
            IF code = "PodArgument" THEN KindOf(db, "vec") = "Pod" /\ ~ExprIsStructValue(s.e)
            ELSE KindOf(db, "vec") = "Raii" /\ ~ExprIsStructReturnValue(s.e)}

CheckReturnFunctionUsage(db, s) ==
    IF /\ KindOf(db, "vec") = "Raii"
       /\ \E e \in Parts(s) : e.op = "return" /\ ~(s.op = "return" /\ e = s.e)
    THEN {"RaiiReturnFunctionOutsideReturn"} ELSE {}

\* Without an enclosing function nothing is checked.
CheckReturnStmt(db, fn, s) ==
    IF fn = NoFunction THEN {}
    ELSE {code \in {"PodReturn", "RaiiReturn"} :
            IF code = "PodReturn" THEN KindOf(db, "vec") = "Pod" /\ ~ExprIsStructValue(s.e)
            ELSE KindOf(db, "vec") = "Raii" /\ ~ExprIsStructReturnValue(s.e)}

\* StructInitRule::finalize, of one statement.
CheckStatement(db, cfg, fn, s) ==
    IF IsInsideHelperFunction(fn, "vec") THEN {}
    ELSE (CASE s.op = "decl"   -> CheckVarDecl(db, cfg, s)
            [] s.op = "assign" -> CheckAssignment(db, fn, s)
            [] s.op = "return" -> CheckReturnStmt(db, fn, s)
            [] OTHER           -> {})
         \cup CheckMoveArgument(db, cfg, fn, s) \cup CheckDestroyArgument(db, cfg, fn, s)
         \cup CheckArrayDestroyArguments(db, cfg, s) \cup CheckCallArguments(db, s)
         \cup CheckReturnFunctionUsage(db, s)

\* checkRecordDecl: box holds a vec by value.
CheckRecordDecl(db) ==
    IF KindOf(db, "box") = "Pod" /\ Known(db, "vec") /\ KindOf(db, "vec") # "Pod"
    THEN {"PodFieldNotPod"} ELSE {}

-----------------------------------------------------------------------------
(* StructRaiiDiscardRule: what the parents of a call do with its value     *)

ClassifyUse(how) ==
    CASE how \in {"plain", "comma", "conditional"} -> "Discarded"
      [] how = "void"   -> "VoidCast"
      [] how = "member" -> "MemberAccess"
      [] OTHER          -> "Owned"

CheckDiscard(db, s) ==
    IF s.op # "discard" \/ ~ExprIsStructReturnValue(s.e) \/ KindOf(db, "vec") # "Raii" THEN {}
    ELSE CASE ClassifyUse(s.how) = "MemberAccess"            -> {"RaiiReturnMemberAccess"}
           [] ClassifyUse(s.how) \in {"Discarded", "VoidCast"} -> {"RaiiReturnDiscarded"}
           [] OTHER                                          -> {}

-----------------------------------------------------------------------------
(* StructCleanupRule: what it tracks, and what of a statement it looks at  *)

Referenced(arg) == CASE arg \in {"a", "&a"}         -> "a"
                     [] arg \in {"b", "&b"}         -> "b"
                     [] arg \in {"r", "r[0]", "&r[0]"} -> "r"
                     [] arg \in {"p", "*p"}         -> "p"
                     [] OTHER                       -> NoVar

IsRaii(db) == KindOf(db, "vec") = "Raii"

\* The helpers, here with the free creator, are exempt.
ShouldTrackVar(db, cfg, fn, v) ==
    /\ v \in {"a", "b", "r"} /\ IsRaii(db)
    /\ ~(fn.struct = "vec" /\ fn.suffix \in FunctionKind)
    /\ v = "r" => cfg.arrays /\ "arrayDestroy" \in Info(db, "vec").has

\* The calls in an expression: a return function's call counts as a destroy.
ScannedExpr(e) ==
    LET v == Referenced(e.arg)
    IN  IF e.op \notin LifecycleOps THEN <<>>
        ELSE IF e.op = "return" /\ v # "r" THEN <<Stmt("destroy", v, <<>>, <<>>)>>
        ELSE <<Stmt("use", v, <<>>, <<>>)>>

ScannedStmt(s) ==
    LET v    == Referenced(s.var)
        here == CASE s.op = "decl"         -> <<Stmt("decl", v, <<>>, <<>>)>>
                  [] s.op = "destroy"      -> <<Stmt(IF v = "r" THEN "use" ELSE "destroy", v, <<>>, <<>>)>>
                  [] s.op = "destroyArray" -> <<Stmt(IF v = "r" THEN "destroy" ELSE "use", v, <<>>, <<>>)>>
                  [] OTHER                 -> <<>>
    IN  here \o ScannedExpr(s.e) \o FlattenSeq([i \in DOMAIN s.e.items |-> ScannedExpr(s.e.items[i])])
             \o IF s.op = "return" THEN <<Stmt("return", NoVar, <<>>, <<>>)>> ELSE <<>>

CleanupReports(db, cfg, fn, parameters, body) ==
    LET Tracked(s) == s.op = "return" \/ ShouldTrackVar(db, cfg, fn, s.var)
        scanned == SelectSeq(FlattenSeq([i \in DOMAIN body |-> ScannedStmt(body[i])]), Tracked)
        IsTracked(v) == ShouldTrackVar(db, cfg, fn, v)
        result  == Analyze([params |-> SelectSeq(parameters, IsTracked), body |-> scanned])
    IN  {<<"RaiiNotDestroyed", l>> : l \in result.leaks}
        \cup (IF cfg.inReverseOrder THEN {<<"RaiiDestroyNotReverseOrder", d>> : d \in result.early} ELSE {})
        \cup (IF cfg.useAfterDestroy THEN {} ELSE {<<"RaiiUseAfterDestroy", u>> : u \in result.uses})
=============================================================================
