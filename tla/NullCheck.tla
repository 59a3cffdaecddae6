----------------------------- MODULE NullCheck ------------------------------
(***************************************************************************)
(* NullCheckRule (WorkshopC/src/rule_null_check.cpp): FlowAnalyzer walks   *)
(* the body of a function with the set of pointer parameters that are      *)
(* known to be non-null, or the knowledge that the point is unreachable,   *)
(* and reports a parameter that is dereferenced where it is not known.     *)
(***************************************************************************)
EXTENDS PointerProgram

Known(params) == [reachable |-> TRUE, nonNull |-> params]
Unreachable   == [reachable |-> FALSE, nonNull |-> {}]

\* Mutant: what is known on one of the paths.
JoinAny(s, t) == IF ~s.reachable THEN t
                 ELSE IF ~t.reachable THEN s ELSE Known(s.nonNull \cup t.nonNull)

\* Only what is known on both paths.
Join(s, t) == IF ~s.reachable THEN t
              ELSE IF ~t.reachable THEN s ELSE Known(s.nonNull \cap t.nonNull)

WithNonNull(s, params) == IF s.reachable THEN Known(s.nonNull \cup params) ELSE s

\* The analyzer before it walks a body: at is the state that is passed along, allow is the
\* option allow_direct_ptr_in_if_statement.
FlowAnalyzer(params, targets, allow) ==
    [at         |-> Known({}),
     params     |-> params,
     allow      |-> allow,
     found      |-> {},        \* the parameters with a violation
     checks     |-> <<>>,      \* conditionVariables: what a variable says on TRUE, on FALSE
     gotos      |-> <<>>,      \* gotoStates, a function on the labels jumped to so far
     targets    |-> targets,   \* gotoTargets
     breaks     |-> <<>>, continues |-> <<>>, entries |-> <<>>]

\* The analyzer a, now at the state s; and a at the two states after a condition.
AtState(a, s)        == [a EXCEPT !.at = s]
Branches(a, yes, no) == [a |-> a, yes |-> yes, no |-> no]

\* The function g with x mapped to v, and without x.
With(g, x, v) == [y \in DOMAIN g \cup {x} |-> IF y = x THEN v ELSE g[y]]
Without(g, x) == [y \in DOMAIN g \ {x} |-> g[y]]

\* p == NULL, NULL != p and the like; *p, p->member and p[index].
IsNullComparison(e) == e.op \in {"isnull", "notnull"}
IsDerefOfParam(e)   == e.op = "deref"

CheckDeref(a, p) ==
    IF a.at.reachable /\ p \notin a.at.nonNull THEN [a EXCEPT !.found = @ \cup {p}] ELSE a

\* A parameter given a new value may be null again, a variable is no longer a check.
Assign(a, x) == [a EXCEPT !.at.nonNull = @ \ {x}, !.checks = Without(@, x)]

RECURSIVE Expression(_, _), Condition(_, _)

\* expression: an expression evaluated for its value.
Expression(a, e) ==
    LET kid(i) == e.kids[i]
        both   == Condition(a, IF e.op = "choose" THEN kid(1) ELSE e)
        first  == Expression(AtState(both.a, both.yes), kid(2))
        second == Expression(AtState(first, both.no), kid(3))
    IN  IF ~a.at.reachable THEN a
        ELSE CASE e.op \in {"and", "or"} -> AtState(both.a, Join(both.yes, both.no))
               [] e.op = "assign" -> Assign(Expression(a, kid(1)), e.var)
               [] e.op = "choose" -> AtState(second, Join(first.at, second.at))
               [] e.op = "abort"  -> AtState(a, Unreachable)
               [] IsDerefOfParam(e) -> CheckDeref(a, e.var)
               [] e.op = "not"    -> Expression(a, kid(1))
               [] OTHER -> a

\* The right side is evaluated where the left one has the value that leaves it open.
Junction(a, e) ==
    LET left  == Condition(a, e.kids[1])
        right == Condition(AtState(left.a, IF e.op = "and" THEN left.yes ELSE left.no), e.kids[2])
    IN  IF e.op = "and" THEN Branches(right.a, right.yes, Join(left.no, right.no))
        ELSE Branches(right.a, Join(left.yes, right.yes), right.no)

Choice(a, e) ==
    LET cond   == Condition(a, e.kids[1])
        first  == Condition(AtState(cond.a, cond.yes), e.kids[2])
        second == Condition(AtState(first.a, cond.no), e.kids[3])
    IN  Branches(second.a, Join(first.yes, second.yes), Join(first.no, second.no))

\* condition: an expression used as a condition, the states when it is true and when false.
Condition(a, e) ==
    LET s    == a.at
        same == Expression(a, e)
        sub  == Condition(a, e.kids[1])
        checked == WithNonNull(s, {e.var} \cap a.params)
    IN  IF ~s.reachable THEN Branches(a, s, s)
        ELSE CASE e.op = "not"     -> Branches(sub.a, sub.no, sub.yes)
               [] e.op \in {"and", "or"} -> Junction(a, e)
               [] IsNullComparison(e) ->
                     IF e.op = "isnull" THEN Branches(a, s, checked) ELSE Branches(a, checked, s)
               [] e.op = "choose"  -> Choice(a, e)
               [] e.op = "ref"     -> Branches(a, IF a.allow THEN checked ELSE s, s)
               [] Constant(e)      -> Branches(a, s, Unreachable)
               [] e.op = "flag" /\ e.var \in DOMAIN a.checks ->
                     Branches(a, WithNonNull(s, a.checks[e.var][1]), WithNonNull(s, a.checks[e.var][2]))
               [] OTHER -> Branches(same, same.at, same.at)

-----------------------------------------------------------------------------
(* Statements                                                              *)

RECURSIVE Statement(_, _)

RECURSIVE GotoTargets(_)
GotoTargets(s) == (IF s.op = "goto" THEN {s.name} ELSE {})
                  \cup UNION {GotoTargets(s.kids[i]) : i \in DOMAIN s.kids}

\* Code after a jump is only reached again through a label.
Compound(a, s) ==
    FoldLeft(LAMBDA b, kid : IF b.at.reachable \/ kid.op \in {"label", "case", "default"}
                             THEN Statement(b, kid) ELSE b, a, s.kids)

\* A label joins the gotos seen so far; one that only a goto further down reaches knows nothing.
Label(a, s) ==
    LET entry == IF s.name \in DOMAIN a.gotos THEN Join(a.at, a.gotos[s.name]) ELSE a.at
    IN  Statement(AtState(a, IF ~entry.reachable /\ s.name \in a.targets THEN Known({}) ELSE entry),
                  s.kids[1])

Goto(a, s) ==
    LET seen == IF s.name \in DOMAIN a.gotos THEN Join(a.gotos[s.name], a.at) ELSE a.at
    IN  AtState([a EXCEPT !.gotos = With(@, s.name, seen)], Unreachable)

\* int valid = p != NULL; is remembered for if (valid).
Declare(a, s) ==
    LET b == Condition(a, s.exprs[1])
    IN  AtState([b.a EXCEPT !.checks = With(@, s.name, <<b.yes.nonNull, b.no.nonNull>>)],
                Join(b.yes, b.no))

JoinTop(stack, s) == IF stack = <<>> THEN stack ELSE [stack EXCEPT ![Len(stack)] = Join(@, s)]
Break(a)    == AtState([a EXCEPT !.breaks = JoinTop(@, a.at)], Unreachable)
Continue(a) == AtState([a EXCEPT !.continues = JoinTop(@, a.at)], Unreachable)

If(a, s) ==
    LET cond == Condition(a, s.exprs[1])
        yes  == Statement(AtState(cond.a, cond.yes), s.kids[1])
        no   == IF Len(s.kids) = 2 THEN Statement(AtState(yes, cond.no), s.kids[2])
                ELSE AtState(yes, cond.no)
    IN  AtState(no, Join(yes.at, no.at))

Case(a, s) ==
    Statement(AtState(a, IF a.entries = <<>> THEN a.at ELSE Join(a.at, Last(a.entries))), s.kids[1])

\* The body of a switch is entered through its labels; without a default none may match.
Switch(a, s) ==
    LET head  == Expression(a, s.exprs[1])
        body  == Compound([head EXCEPT !.entries = Append(@, head.at), !.at = Unreachable,
                                       !.breaks = Append(@, Unreachable)], s)
        after == Join(body.at, Last(body.breaks))
    IN  [body EXCEPT !.entries = Front(@), !.breaks = Front(@),
                     !.at = IF \E i \in DOMAIN s.kids : s.kids[i].op = "default" THEN after
                            ELSE Join(after, head.at)]

\* One walk over a loop from the state head, entered with the state start: the analyzer,
\* the state after the loop, and what is known at its start in the next walk.
LoopWalk(a, s, start, head) ==
    LET pushed == [a EXCEPT !.at = head, !.breaks = Append(@, Unreachable),
                            !.continues = Append(@, Unreachable)]
        body(b)   == LET end == Statement(b, s.kids[1])
                     IN  AtState(end, Join(end.at, Last(end.continues)))
        popped(b) == [b EXCEPT !.breaks = Front(@), !.continues = Front(@)]
    IN  IF s.op = "do"
        THEN LET end  == body(pushed)
                 cond == Condition(end, s.exprs[1])
             IN  [a     |-> popped(cond.a),
                  after |-> Join(cond.no, Last(cond.a.breaks)),
                  next  |-> Join(start, cond.yes)]
        ELSE LET cond == Condition(pushed, s.exprs[1])
                 end  == body(AtState(cond.a, cond.yes))
                 last == IF s.op = "for" THEN Expression(end, s.exprs[2]) ELSE end
             IN  [a     |-> popped(last),
                  after |-> Join(cond.no, Last(last.breaks)),
                  next  |-> Join(head, last.at)]

MaxIterations == 16

RECURSIVE LoopFrom(_, _, _, _, _)

\* A loop is walked until what is known at its start no longer changes.
LoopFrom(a, s, start, head, iteration) ==
    LET walk == LoopWalk(a, s, start, head)
    IN  IF walk.next = head \/ iteration = MaxIterations THEN AtState(walk.a, walk.after)
        ELSE LoopFrom(walk.a, s, start, walk.next, iteration + 1)

Loop(a, s) == LoopFrom(a, s, a.at, a.at, 1)

Statement(a, s) ==
    CASE s.op = "expr"     -> Expression(a, s.exprs[1])
      [] s.op = "block"    -> Compound(a, s)
      [] s.op = "label"    -> Label(a, s)
      [] s.op \in {"case", "default"} -> Case(a, s)
      [] s.op = "decl"     -> Declare(a, s)
      [] s.op = "return"   -> AtState(Expression(a, s.exprs[1]), Unreachable)
      [] s.op = "break"    -> Break(a)
      [] s.op = "continue" -> Continue(a)
      [] s.op = "goto"     -> Goto(a, s)
      [] s.op = "if"       -> If(a, s)
      [] s.op \in Loops    -> Loop(a, s)
      [] s.op = "switch"   -> Switch(a, s)

\* run: the pointer parameters that the rule reports.
NullCheckReports(f, params, allow) ==
    Statement(FlowAnalyzer(params, GotoTargets(f), allow), f).found
=============================================================================
