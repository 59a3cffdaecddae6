---------------------------- MODULE UseAfterMove ----------------------------
(***************************************************************************)
(* ArgumentPointerUseAfterMoveRule (WorkshopC/src/rule_arg_ptr_use_after_  *)
(* move.cpp): it walks the body of a function once, loops twice, with the  *)
(* set of pointers that may have been moved, and reports their uses.       *)
(***************************************************************************)
EXTENDS PointerProgram

\* A loop or a switch that is being walked, with the states at its breaks and continues.
JumpTarget(isLoop) == [isLoop |-> isLoop, breaks |-> {}, continues |-> {}]

\* moved is the State, flow how the statement walked last is left; the function's pointers
\* are the tracked variables.
Walker == [moved |-> {}, flow |-> "normal", targets |-> <<>>, reported |-> {}]

Merge(a, b) == a \cup b
MergeAll(states) == UNION states

ReportUse(w, p, at) ==
    IF p \in w.moved THEN [w EXCEPT !.reported = @ \cup {at}] ELSE w

RECURSIVE WalkExpr(_, _, _)

\* What a call is given is walked first, and moved afterwards.  An assignment walks its
\* right side and gives its target a new value.  All else walks its operands in turn.
WalkExpr(w, e, at) ==
    LET kids == FoldLeft(LAMBDA v, kid : WalkExpr(v, kid, at), w, e.kids)
    IN  CASE e.op = "sizeof" -> w
          [] e.op \in {"ref", "deref", "notnull", "isnull"} -> ReportUse(w, e.var, at)
          [] e.op = "give"   -> [ReportUse(w, e.var, at) EXCEPT !.moved = @ \cup {e.var}]
          [] e.op = "assign" -> [kids EXCEPT !.moved = @ \ {e.var}]
          [] OTHER -> kids

RECURSIVE Walk(_, _, _)

Exits(w) == [w EXCEPT !.flow = "exit"]
Falls(w) == w.flow = "normal"

RECURSIVE WalkBlock(_, _, _, _)
WalkBlock(w, stmts, at, i) ==
    IF i > Len(stmts) \/ ~Falls(w) THEN w
    ELSE WalkBlock(Walk(w, stmts[i], Append(at, i)), stmts, at, i + 1)

\* Both branches start from the condition's state, and what comes after from those that fall.
WalkIf(w, s, at) ==
    LET tested == WalkExpr(w, s.exprs[1], at)
        yes    == Walk(tested, s.kids[1], Append(at, 1))
        start  == [yes EXCEPT !.moved = tested.moved, !.flow = "normal"]
        no     == IF Len(s.kids) = 2 THEN Walk(start, s.kids[2], Append(at, 2)) ELSE start
    IN  CASE Falls(yes) /\ Falls(no) -> [no EXCEPT !.moved = Merge(yes.moved, no.moved)]
          [] Falls(yes) /\ ~Falls(no) -> [no EXCEPT !.moved = yes.moved, !.flow = "normal"]
          [] ~Falls(yes) /\ ~Falls(no) /\ yes.flow # no.flow -> Exits(no)
          [] OTHER -> no

\* The body, with a new target for its breaks and continues.
LoopBody(w, s, at) ==
    Walk([w EXCEPT !.targets = Append(@, JumpTarget(TRUE)), !.flow = "normal"],
         s.kids[1], Append(at, 1))

\* A pass from the end of the body on.  tested is the state behind the condition that precedes it.
EndPass(body, s, at, entry, tested) ==
    LET target == Last(body.targets)
        rounds == target.continues \cup {m \in {body.moved} : Falls(body)}
        again  == rounds # {}
        next   == CASE again /\ s.op = "do"  -> s.exprs[1]
                    [] again /\ s.op = "for" -> s.exprs[2]
                    [] OTHER -> Opaque
        back   == WalkExpr([body EXCEPT !.targets = Front(@), !.moved = MergeAll(rounds)], next, at)
    IN  [w     |-> back,
         exits |-> target.breaks
                   \cup (IF s.op # "do" /\ ~Constant(s.exprs[1]) THEN {tested} ELSE {})
                   \cup (IF s.op = "do" /\ again THEN {back.moved} ELSE {}),
         entry |-> IF again THEN Merge(entry, back.moved) ELSE entry]

\* One pass over a loop from what may reach its top: the walker, the states in which the
\* loop is left, and the states that reach its top again.
LoopPass(w, s, at, entry) ==
    LET first  == IF s.op = "do" THEN Opaque ELSE s.exprs[1]
        tested == WalkExpr([w EXCEPT !.moved = entry], first, at)
    IN  EndPass(LoopBody(tested, s, at), s, at, entry, tested.moved)

\* Without a way out the loop never ends.
LoopLeft(w, exits) ==
    IF exits = {} THEN Exits(w) ELSE [w EXCEPT !.moved = MergeAll(exits), !.flow = "normal"]

\* Mutant: a single pass, a move late in the body is not seen early in it.
WalkLoopOnce(w, s, at) ==
    LET first == LoopPass(w, s, at, w.moved) IN LoopLeft(first.w, first.exits)

SecondPass(first, s, at) ==
    LET second == LoopPass(first.w, s, at, first.entry)
    IN  LoopLeft(second.w, first.exits \cup second.exits)

\* walkLoop: two passes.
WalkLoop(w, s, at) == SecondPass(LoopPass(w, s, at, w.moved), s, at)

RECURSIVE WalkSections(_, _, _, _, _)

\* The statements in a switch: each label can be jumped to with the state head before it,
\* and what stands behind a jump is walked from the next label on.
WalkSections(w, s, at, i, head) ==
    IF i > Len(s.kids) THEN w
    ELSE LET kid     == s.kids[i]
             labeled == kid.op \in {"case", "default"}
             start   == IF ~labeled THEN w
                        ELSE [w EXCEPT !.moved = IF Falls(w) THEN Merge(@, head) ELSE head,
                                       !.flow = "normal"]
             stmt    == IF labeled THEN kid.kids[1] ELSE kid
             path    == Append(at, i) \o IF labeled THEN <<1>> ELSE <<>>
         IN  WalkSections(IF Falls(start) THEN Walk(start, stmt, path) ELSE start, s, at, i + 1, head)

WalkSwitch(w, s, at) ==
    LET head   == WalkExpr(w, s.exprs[1], at)
        start  == [head EXCEPT !.targets = Append(@, JumpTarget(FALSE)), !.flow = "exit"]
        body   == WalkSections(start, s, at, 1, head.moved)
        after  == Last(body.targets).breaks
                  \cup (IF Falls(body) THEN {body.moved} ELSE {})
                  \cup (IF \E i \in DOMAIN s.kids : s.kids[i].op = "default" THEN {} ELSE {head.moved})
        popped == [body EXCEPT !.targets = Front(@)]
    IN  IF after = {} THEN Exits(popped)
        ELSE [popped EXCEPT !.moved = MergeAll(after), !.flow = "normal"]

\* break records the state for the innermost target, continue for the innermost loop.
WalkBreak(w) ==
    [w EXCEPT !.flow = "break", !.targets[Len(w.targets)].breaks = @ \cup {w.moved}]

WalkContinue(w) ==
    LET loop == CHOOSE k \in DOMAIN w.targets :
                    /\ w.targets[k].isLoop
                    /\ \A j \in (k + 1)..Len(w.targets) : ~w.targets[j].isLoop
    IN  [w EXCEPT !.flow = "continue", !.targets[loop].continues = @ \cup {w.moved}]

\* Statements after a jump in a block are not walked; a goto leaves the function.
Walk(w, s, at) ==
    CASE s.op = "expr"     -> WalkExpr(w, s.exprs[1], at)
      [] s.op = "decl"     -> [WalkExpr(w, s.exprs[1], at) EXCEPT !.moved = @ \ {s.name}]
      [] s.op = "block"    -> WalkBlock(w, s.kids, at, 1)
      [] s.op = "return"   -> Exits(WalkExpr(w, s.exprs[1], at))
      [] s.op = "goto"     -> Exits(w)
      [] s.op = "break"    -> WalkBreak(w)
      [] s.op = "continue" -> WalkContinue(w)
      [] s.op = "if"       -> WalkIf(w, s, at)
      [] s.op \in Loops    -> WalkLoop(w, s, at)
      [] s.op = "switch"   -> WalkSwitch(w, s, at)
      [] s.op = "label"    -> Walk(w, s.kids[1], Append(at, 1))

\* run: the statements in which a pointer is used after a move, as the rule reports them.
UseAfterMoveReports(f) == Walk(Walker, f, <<>>).reported
=============================================================================
