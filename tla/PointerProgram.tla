--------------------------- MODULE PointerProgram ---------------------------
(***************************************************************************)
(* The C functions that the pointer analyses of WorkshopC read, and what   *)
(* their executions do: which paths lead to a statement, where a pointer   *)
(* that was moved is used and where one that is null is dereferenced.  It  *)
(* is the reference that UseAfterMove and NullCheck are compared with.     *)
(*                                                                         *)
(* A statement is at a path: the i-th child of the statement at p is at    *)
(* Append(p, i), and the body of the function, a block, is at <<>>.        *)
(***************************************************************************)
EXTENDS Integers, Sequences, SequencesExt

\* op and kids are the node and its operands, var is a pointer, a variable or "".
Expr(op, var, kids) == [op |-> op, var |-> var, kids |-> kids]

\* name is a label or a declared variable, exprs what the statement evaluates.
Stmt(op, name, exprs, kids) == [op |-> op, name |-> name, exprs |-> exprs, kids |-> kids]

Loops   == {"while", "for", "do"}
Opaque  == Expr("opaque", "", <<>>)       \* a value the rules know nothing of
True    == Expr("true", "", <<>>)
Constant(e)  == e.op \in {"true", "sizeof"}   \* not zero, and nothing is evaluated
Block(stmts) == Stmt("block", "", <<>>, stmts)

\* A pointer is "null" or "valid" in an execution; on a path of the control flow, where every
\* condition may go either way, it is "known" to be non-null or "unknown".  direct tells
\* whether a plain pointer as a condition makes it known.
Store(val, direct) ==
    [val |-> val, direct |-> direct, moved |-> {}, flag |-> FALSE, ev |-> {}]

Outcomes(s, values) == {[s |-> s, v |-> v, stop |-> FALSE] : v \in values}

\* The pointer p is read in the statement at a path.
Read(s, p, at) == IF p \in s.moved THEN [s EXCEPT !.ev = @ \cup {<<"moved", at>>}] ELSE s

\* The outcomes of testing p, with the value TRUE when it is not null.
Tested(s, p, counts) ==
    IF s.val[p] \in {"null", "valid"} THEN Outcomes(s, {s.val[p] = "valid"})
    ELSE Outcomes(IF counts THEN [s EXCEPT !.val[p] = "known"] ELSE s, {TRUE})
         \cup Outcomes(s, {FALSE})

Negated(outcomes) == {[o EXCEPT !.v = ~@] : o \in outcomes}

\* A dereference of null ends the execution, that of an unknown pointer is only noted.
Dereferenced(s, p) ==
    LET noted == IF s.val[p] \in {"null", "unknown"} THEN [s EXCEPT !.ev = @ \cup {<<"null", p>>}] ELSE s
    IN  IF s.val[p] = "null" THEN {[s |-> noted, v |-> TRUE, stop |-> TRUE]} ELSE Outcomes(noted, BOOLEAN)

Assigned(s, x, v) ==
    IF x \notin DOMAIN s.val THEN [s EXCEPT !.flag = v]
    ELSE [s EXCEPT !.moved = @ \ {x},
                   !.val[x] = IF @ \in {"known", "unknown"} THEN "unknown"
                              ELSE IF v THEN "valid" ELSE "null"]

RECURSIVE Eval(_, _, _)

\* Every way to evaluate e in the statement at a path: the store after it and the value.
Eval(e, s, at) ==
    LET first     == Eval(e.kids[1], s, at)
        second(o) == Eval(e.kids[2], o.s, at)
        then(f(_)) == UNION {IF o.stop THEN {o} ELSE f(o) : o \in first}
    IN  CASE Constant(e)        -> Outcomes(s, {TRUE})
          [] e.op = "opaque"  -> Outcomes(s, BOOLEAN)
          [] e.op = "flag"    -> Outcomes(s, {s.flag})
          [] e.op = "ref"     -> Tested(Read(s, e.var, at), e.var, s.direct)
          [] e.op = "notnull" -> Tested(Read(s, e.var, at), e.var, TRUE)
          [] e.op = "isnull"  -> Negated(Tested(Read(s, e.var, at), e.var, TRUE))
          [] e.op = "deref"   -> Dereferenced(Read(s, e.var, at), e.var)
          [] e.op = "give"    ->
                Outcomes([Read(s, e.var, at) EXCEPT !.moved = @ \cup {e.var}], BOOLEAN)
          [] e.op = "abort"   -> {[s |-> s, v |-> TRUE, stop |-> TRUE]}
          [] e.op = "assign"  ->
                then(LAMBDA o : {[o EXCEPT !.s = Assigned(o.s, e.var, o.v)]})
          [] e.op = "not"     -> Negated(first)
          [] e.op = "and"     -> then(LAMBDA o : IF o.v THEN second(o) ELSE {o})
          [] e.op = "or"      -> then(LAMBDA o : IF o.v THEN {o} ELSE second(o))
          [] e.op = "choose"  ->
                then(LAMBDA o : IF o.v THEN second(o) ELSE Eval(e.kids[3], o.s, at))

-----------------------------------------------------------------------------
(* Control: a point is a path and what comes next there                    *)

RECURSIVE At(_, _)
At(f, p) == IF p = <<>> THEN f ELSE At(f.kids[Head(p)], Tail(p))

Point(p, phase) == [path |-> p, phase |-> phase]
Entry(p) == Point(p, "enter")
TheEnd   == Point(<<>>, "end")

\* Where a round of the loop at p goes on.
NextRound(f, p) ==
    CASE At(f, p).op = "while" -> Entry(p)
      [] At(f, p).op = "for"   -> Point(p, "step")
      [] At(f, p).op = "do"    -> Point(p, "test")

RECURSIVE After(_, _)

\* Where control goes after the statement at p.
After(f, p) ==
    IF p = <<>> THEN TheEnd
    ELSE LET up == Front(p) parent == At(f, up)
         IN  IF parent.op \in Loops THEN NextRound(f, up)
             ELSE IF parent.op \in {"block", "switch"} /\ Last(p) < Len(parent.kids)
                  THEN Entry(Append(up, Last(p) + 1))
                  ELSE After(f, up)

RECURSIVE Around(_, _, _)

\* The innermost statement around p with one of the given operators.
Around(f, p, ops) ==
    IF At(f, Front(p)).op \in ops THEN Front(p) ELSE Around(f, Front(p), ops)

RECURSIVE Paths(_)
Paths(f) == {<<>>} \cup UNION {{<<i>> \o p : p \in Paths(f.kids[i])} : i \in DOMAIN f.kids}

\* The statement tests its first expression: where it goes on true and on false.
Test(f, p, s, yes, no) ==
    {[at |-> IF o.stop THEN TheEnd ELSE IF o.v THEN yes ELSE no, s |-> o.s] :
     o \in Eval(At(f, p).exprs[1], s, p)}

Evaluated(f, p, e, s, next) ==
    {[at |-> IF o.stop THEN TheEnd ELSE next, s |-> o.s] : o \in Eval(e, s, p)}

Kid(p, i) == Entry(Append(p, i))

\* The labels of the switch at p, and where it goes without a match.
SwitchTargets(f, p) ==
    LET kids == At(f, p).kids
    IN  {Kid(p, i) : i \in {i \in DOMAIN kids : kids[i].op \in {"case", "default"}}}
        \cup IF \E i \in DOMAIN kids : kids[i].op = "default" THEN {} ELSE {After(f, p)}

\* One step of an execution from the control point at, with the store s.
Enter(f, p, s) ==
    LET st == At(f, p)
        to(points) == {[at |-> t, s |-> s] : t \in points}
    IN  CASE st.op = "expr"     -> Evaluated(f, p, st.exprs[1], s, After(f, p))
          [] st.op = "decl"     ->
                Evaluated(f, p, Expr("assign", st.name, st.exprs), s, After(f, p))
          [] st.op = "return"   -> Evaluated(f, p, st.exprs[1], s, TheEnd)
          [] st.op \in {"block", "label", "case", "default"} ->
                to({IF st.kids = <<>> THEN After(f, p) ELSE Kid(p, 1)})
          [] st.op = "break"    -> to({After(f, Around(f, p, Loops \cup {"switch"}))})
          [] st.op = "continue" -> to({NextRound(f, Around(f, p, Loops))})
          [] st.op = "goto"     ->
                to({Entry(q) : q \in {q \in Paths(f) : At(f, q).op = "label" /\ At(f, q).name = st.name}})
          [] st.op = "if"       ->
                Test(f, p, s, Kid(p, 1), IF Len(st.kids) = 2 THEN Kid(p, 2) ELSE After(f, p))
          [] st.op \in {"while", "for"} -> Test(f, p, s, Kid(p, 1), After(f, p))
          [] st.op = "do"       -> to({Kid(p, 1)})
          [] st.op = "switch"   ->
                UNION {Evaluated(f, p, st.exprs[1], s, t) : t \in SwitchTargets(f, p)}

Steps(f, at, s) ==
    CASE at.phase = "end"   -> {}
      [] at.phase = "enter" -> Enter(f, at.path, s)
      [] at.phase = "test"  -> Test(f, at.path, s, Kid(at.path, 1), After(f, at.path))
      [] at.phase = "step"  -> Evaluated(f, at.path, At(f, at.path).exprs[2], s, Entry(at.path))

RECURSIVE Events(_, _, _, _)

\* Every event of every execution: from the configurations of the frontier on.
Events(f, seen, frontier, found) ==
    IF frontier = {} THEN found
    ELSE LET stepped == UNION {Steps(f, c.at, c.s) : c \in frontier}
             reached == {[c EXCEPT !.s.ev = {}] : c \in stepped}
             known   == seen \cup frontier
         IN  Events(f, known, reached \ known, found \cup UNION {c.s.ev : c \in stepped})

EventsFrom(f, stores) == Events(f, {}, {[at |-> Entry(<<>>), s |-> s] : s \in stores}, {})

\* The statements that some path reaches with a pointer that it moved, and uses there.
MovedUses(f, pointers) ==
    {e[2] : e \in {e \in EventsFrom(f, {Store([p \in pointers |-> "unknown"], TRUE)}) : e[1] = "moved"}}

\* The parameters that some execution dereferences while they are null.
NullDereferences(f, params) ==
    {e[2] : e \in {e \in EventsFrom(f, {Store(v, TRUE) : v \in [params -> {"null", "valid"}]}) : e[1] = "null"}}

\* The parameters that are dereferenced on some path that does not make them known.
UncheckedDereferences(f, params, direct) ==
    {e[2] : e \in {e \in EventsFrom(f, {Store([p \in params |-> "unknown"], direct)}) : e[1] = "null"}}
=============================================================================
