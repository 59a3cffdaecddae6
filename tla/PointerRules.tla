---------------------------- MODULE PointerRules ----------------------------
(***************************************************************************)
(* The two flow analyses of pointers over the functions of one translation *)
(* unit: clang's finder hands every function definition to both rules, and *)
(* what they report is compared with what the function's executions do.    *)
(***************************************************************************)
EXTENDS UseAfterMove, NullCheck

CONSTANTS Pointer,    \* the tracked pointers of a function, its parameters
          Functions   \* families of function bodies

VARIABLES func,     \* a family, then the function that the finder has found
          rule,     \* the rule that has run on it, or "none"
          reports,  \* what it reports
          real,     \* what it must report, for the executions of the function
          allowed   \* what it may report, for its paths

vars == <<func, rule, reports, real, allowed>>

RECURSIVE Ops(_)

\* The operators of all statements and expressions of s.
Ops(s) == {s.op} \cup UNION {Ops(s.kids[i]) : i \in DOMAIN s.kids}
          \cup IF "exprs" \in DOMAIN s THEN UNION {Ops(s.exprs[i]) : i \in DOMAIN s.exprs} ELSE {}

Init == func \in Functions /\ rule = "none" /\ reports = {} /\ real = {} /\ allowed = {}

RunUseAfterMove == /\ rule = "none"
                   /\ \E f \in {f \in func : "give" \in Ops(f)} :
                         /\ func' = f
                         /\ reports' = UseAfterMoveReports(f)
                         /\ real' = MovedUses(f, Pointer)
                         /\ allowed' = real'
                   /\ rule' = "useAfterMove"

RunNullCheck == /\ rule = "none"
                /\ \E f \in {f \in func : "deref" \in Ops(f)}, allow \in BOOLEAN :
                      /\ allow \/ "ref" \in Ops(f)
                      /\ func' = f
                      /\ reports' = NullCheckReports(f, Pointer, allow)
                      /\ real' = NullDereferences(f, Pointer)
                      /\ allowed' = UncheckedDereferences(f, Pointer, allow)
                /\ rule' = "nullCheck"

Next == RunUseAfterMove \/ RunNullCheck
Spec == Init /\ [][Next]_vars

-----------------------------------------------------------------------------
(* Properties                                                              *)

\* p comes before q in the text of a function.
Before(p, q) == \E i \in DOMAIN p \cap DOMAIN q : p[i] < q[i] /\ \A j \in 1..(i - 1) : p[j] = q[j]

JumpsBack(f) == \E p, q \in Paths(f) : At(f, p).op = "goto" /\ At(f, q).op = "label" /\ Before(q, p)

\* The use-after-move rule reports the statements that some path reaches with a pointer
\* that it moved and uses there: it misses none, whatever branches, rounds of loops and
\* cases lead there, and it accuses none.  The premise names what the rule does not follow.
MoveReportsAreExact ==
    /\ rule = "useAfterMove"
    /\ Ops(func) \cap {"goto", "abort", "choose"} = {}
    /\ Ops(func) \cap {"and", "or"} # {} => "assign" \notin Ops(func)
    => reports = real

\* The null check rule reports every parameter that some execution dereferences while it is
\* null, and only those that some path reaches without a check: through branches, short
\* circuits, variables that hold a check, loops, cases and gotos.  The premise names what
\* the rule does not follow; of a label that only dead code jumps to it knows nothing.
NullReportsAreRight ==
    /\ rule = "nullCheck"
    /\ ~({"flag", "assign"} \subseteq Ops(func))
    /\ ~JumpsBack(func)
    => /\ real \subseteq reports
       /\ "goto" \notin Ops(func) => reports \subseteq allowed
=============================================================================
