-------------------------- MODULE CleanupAnalyzer --------------------------
(***************************************************************************)
(* CleanupAnalyzer (WorkshopC/src/struct_cleanup_rule.cpp): the abstract   *)
(* interpreter behind the rules for raii structs.  It walks the body of a  *)
(* C function once, keeps the scopes that are open and the variables that  *)
(* are definitely destroyed, and reports variables that leave their scope  *)
(* undestroyed, that are destroyed before a later one, and that are used   *)
(* after their destruction.                                                *)
(*                                                                         *)
(* A statement is a record [op, var, body, other].  A block is a sequence  *)
(* of statements.  A source location is a path: the i-th statement of the  *)
(* block at p is at Append(p, i), the body of a statement at p is at       *)
(* Append(p, 1) and its else branch at Append(p, 2); the path of a block   *)
(* is also the location of its closing brace.                              *)
(***************************************************************************)
EXTENDS Integers, Sequences, SequencesExt

NoVar == ""

Stmt(op, var, body, other) == [op |-> op, var |-> var, body |-> body, other |-> other]

LoopOps == {"for", "while", "do"}

Flow == {"normal", "return", "break", "continue"}

\* The analyzer before it scans a function's body.
Analyzer(params) ==
    [scopes   |-> <<>>,     \* the variables of each open scope, outermost first
     params   |-> params,   \* the tracked parameters
     dead     |-> {},       \* the variables whose destroyed flag is set
     loops    |-> <<>>,     \* loopScopeStack: indices into scopes
     switches |-> <<>>,     \* switchScopeStack
     flow     |-> "normal", \* how the statement scanned last is left
     leaks    |-> {},       \* reportedVars: <<variable, location>>
     early    |-> {},       \* <<variable, later variable, location>>
     uses     |-> {}]       \* reportedUseAfterDestroy: <<variable, location>>

-----------------------------------------------------------------------------
(* Reports                                                                 *)

\* What is not destroyed of vars is reported at a location.
ReportPending(st, vars, at) ==
    [st EXCEPT !.leaks = @ \cup {<<v, at>> : v \in vars \ st.dead}]

\* The variables of the scopes from index i inwards.
VarsFrom(st, i) == UNION {ToSet(st.scopes[k]) : k \in i..Len(st.scopes)}

ReportScopesFrom(st, i, at) == ReportPending(st, VarsFrom(st, i), at)

\* reportPendingVarsForExit: every scope and every parameter.
ReportExit(st, at) == ReportPending(st, VarsFrom(st, 1) \cup ToSet(st.params), at)

\* reportBreakCleanup: the nearest loop's or switch's scope and every scope inside it.
ReportBreak(st, at) ==
    LET targets == ToSet(st.loops) \cup ToSet(st.switches)
    IN  IF targets = {} THEN st
        ELSE ReportScopesFrom(st, CHOOSE t \in targets : \A u \in targets : u <= t, at)

\* reportContinueCleanup: the scopes strictly inside the nearest loop's scope.
ReportContinue(st, at) ==
    IF st.loops = <<>> THEN st ELSE ReportScopesFrom(st, Last(st.loops) + 1, at)

\* Mutant: a destroy is compared with the later variables of its own scope only.
LaterInScope(st, v) ==
    {w \in VarsFrom(st, 1) : \E k \in DOMAIN st.scopes : \E i, j \in DOMAIN st.scopes[k] :
        i < j /\ st.scopes[k][i] = v /\ st.scopes[k][j] = w}

\* The tracked variables declared after v: parameters come first, then the scopes.
DeclaredAfter(st, v) ==
    LET order == st.params \o FlattenSeq(st.scopes)
    IN  {order[j] : j \in {j \in DOMAIN order : \E i \in 1..(j - 1) : order[i] = v}}

ReportOrder(st, v, at) ==
    [st EXCEPT !.early = @ \cup {<<v, w, at>> : w \in DeclaredAfter(st, v) \ (st.dead \cup {v})}]

\* checkUseAfterDestroy
ReportUse(st, v, at) ==
    IF v \in st.dead THEN [st EXCEPT !.uses = @ \cup {<<v, at>>}] ELSE st

-----------------------------------------------------------------------------
(* Tracking                                                                *)

TrackVar(st, v) ==
    [st EXCEPT !.scopes[Len(st.scopes)] = Append(@, v), !.dead = @ \ {v}]

MarkDestroyed(st, v) ==
    IF v \in VarsFrom(st, 1) \cup ToSet(st.params) THEN [st EXCEPT !.dead = @ \cup {v}] ELSE st

\* A call of the destroy function: a use, checked before it counts as a destroy.
DestroyCall(st, v, at) == MarkDestroyed(ReportOrder(ReportUse(st, v, at), v, at), v)

PushScope(st) == [st EXCEPT !.scopes = Append(@, <<>>)]
PopScope(st)  == [st EXCEPT !.scopes = Front(@)]

\* Mutant: destroyed on some path.
MergeAny(a, b) == a.dead \cup b.dead

\* mergeStates: destroyed on every path.
MergeStates(a, b) == a.dead \cap b.dead

\* Where the two branches of an if meet.
JoinBranches(before, then, else) ==
    [else EXCEPT
        !.dead = IF then.flow = "normal" /\ else.flow = "normal" THEN MergeStates(then, else)
                 ELSE IF then.flow = "normal" THEN then.dead
                 ELSE IF else.flow = "normal" THEN else.dead
                 ELSE before.dead,
        !.flow = IF then.flow = "normal" \/ else.flow = "normal" THEN "normal"
                 ELSE IF then.flow = else.flow THEN then.flow
                 ELSE "return"]

EnterLoop(st) ==
    LET in == PushScope(st) IN [in EXCEPT !.loops = Append(@, Len(in.scopes))]

\* Mutant: what the body destroyed counts as destroyed after the loop.
LeaveLoopDestroyed(before, st) ==
    [PopScope(st) EXCEPT !.loops = Front(@),
                         !.flow = IF st.flow = "return" THEN "return" ELSE "normal"]

\* A loop may run zero times, so the state before it is restored.
LeaveLoop(before, st) ==
    [PopScope(st) EXCEPT !.loops = Front(@),
                         !.dead = before.dead,
                         !.flow = IF st.flow = "return" THEN "return" ELSE "normal"]

EnterSwitch(st) ==
    LET in == PushScope(st) IN [in EXCEPT !.switches = Append(@, Len(in.scopes))]

LeaveSwitch(st) ==
    [PopScope(st) EXCEPT !.switches = Front(@), !.flow = IF @ = "break" THEN "normal" ELSE @]

\* The innermost scope is left at its end, which only a normal flow reaches.
ReportEnd(st, at) ==
    IF st.flow = "normal" THEN ReportScopesFrom(st, Len(st.scopes), at) ELSE st

-----------------------------------------------------------------------------
(* scanStmt                                                                *)

RECURSIVE ScanStmt(_, _, _), ScanFrom(_, _, _, _)

\* A compound's statements from the i-th on: after a jump the rest is skipped.
ScanFrom(st, block, i, at) ==
    IF i > Len(block) \/ st.flow # "normal" THEN st
    ELSE ScanFrom(ScanStmt(st, block[i], Append(at, i)), block, i + 1, at)

ScanCompound(st, block, at) == PopScope(ReportEnd(ScanFrom(PushScope(st), block, 1, at), at))

\* The branches are scanned one after the other, both from the state before the if.
ScanIf(st, s, at) ==
    LET then == ScanCompound(st, s.body, Append(at, 1))
        else == ScanCompound([then EXCEPT !.dead = st.dead, !.flow = "normal"],
                             s.other, Append(at, 2))
    IN  JoinBranches(st, then, else)

\* One representative iteration, in a scope of the loop that holds a for's variable.
\* In a for, continue goes on to the increment.
ScanLoop(st, s, at) ==
    LET in   == IF s.var = NoVar THEN EnterLoop(st) ELSE TrackVar(EnterLoop(st), s.var)
        body == ScanCompound(in, s.body, Append(at, 1))
        out  == IF s.op = "for" /\ body.flow = "continue"
                THEN [body EXCEPT !.flow = "normal"] ELSE body
    IN  LeaveLoop(st, ReportEnd(out, Append(at, 1)))

ScanSwitch(st, s, at) ==
    LET body == ScanCompound(EnterSwitch(st), s.body, Append(at, 1))
    IN  LeaveSwitch(ReportEnd(body, Append(at, 1)))

\* A case label is an ordinary statement of the switch's compound: its statement is
\* scanned as a child, whose flow is dropped.
ScanCase(st, s, at) ==
    [ScanStmt(st, s.body[1], Append(at, 1)) EXCEPT !.flow = "normal"]

ScanStmt(st, s, at) ==
    CASE s.op = "block"    -> ScanCompound(st, s.body, Append(at, 1))
      [] s.op = "return"   -> [ReportExit(st, at) EXCEPT !.flow = "return"]
      [] s.op = "break"    -> [ReportBreak(st, at) EXCEPT !.flow = "break"]
      [] s.op = "continue" -> [ReportContinue(st, at) EXCEPT !.flow = "continue"]
      [] s.op = "decl"     -> TrackVar(st, s.var)
      [] s.op = "if"       -> ScanIf(st, s, at)
      [] s.op \in LoopOps  -> ScanLoop(st, s, at)
      [] s.op = "switch"   -> ScanSwitch(st, s, at)
      [] s.op = "case"     -> ScanCase(st, s, at)
      [] s.op = "destroy"  -> DestroyCall(st, s.var, at)
      [] s.op = "use"      -> ReportUse(st, s.var, at)

\* StructCleanupRule::finalize: parameters are due where the body is left at its end.
Analyze(fun) ==
    LET st == ScanCompound(Analyzer(fun.params), fun.body, <<>>)
    IN  IF st.flow = "normal" THEN ReportPending(st, ToSet(fun.params), <<>>) ELSE st
=============================================================================
