------------------------- MODULE CleanupExecution --------------------------
(***************************************************************************)
(* An execution of a C function beside what CleanupAnalyzer reports of it: *)
(* the analyzer runs first, then the function runs, with every choice an   *)
(* execution may make of branches, cases and numbers of iterations.  The   *)
(* state machine is the C language's, from how the analyzer's comments use *)
(* it; the properties compare the two.                                     *)
(***************************************************************************)
EXTENDS CleanupAnalyzer, FiniteSets

CONSTANT Functions  \* families of functions to analyse: sets of records [params, body]

VARIABLES fun,     \* the function
          report,  \* what the analyzer said of it
          stack,   \* the open scopes: blocks, loops and switches
          alive,   \* the variables that hold a resource
          lost,    \* history: <<variable, where its scope was left with the resource>>
          early,   \* history: <<variable, a later one still alive, where it was destroyed>>
          proper   \* history: <<variable, where it was used while alive>>

vars == <<fun, report, stack, alive, lost, early, proper>>

Frame(kind, code, next, at, locals) ==
    [kind |-> kind, code |-> code, next |-> next, at |-> at, locals |-> locals]

Top       == Last(stack)
AtStmt    == stack # <<>> /\ Top.kind = "block" /\ Top.next <= Len(Top.code)
AtEnd     == stack # <<>> /\ Top.kind = "block" /\ Top.next > Len(Top.code)
Labelled  == Top.code[Top.next]
\* The statement to execute, which a case label may precede, and its location.
Now == IF Labelled.op = "case" THEN Labelled.body[1] ELSE Labelled
At  == IF Labelled.op = "case" THEN Top.at \o <<Top.next, 1>> ELSE Append(Top.at, Top.next)

\* The stack when the statement has been executed or its body is entered.
Advanced == [stack EXCEPT ![Len(stack)].next = @ + 1]

Locals(i) == UNION {ToSet(stack[k].locals) : k \in i..Len(stack)}
Params    == ToSet(fun.params)

Init == /\ \E family \in Functions : fun \in family
        /\ report = Analyze(fun)
        /\ stack = <<Frame("block", fun.body, 1, <<>>, <<>>)>>
        /\ alive = ToSet(fun.params)
        /\ lost = {} /\ early = {} /\ proper = {}

-----------------------------------------------------------------------------
Decl ==
    /\ AtStmt /\ Now.op = "decl"
    /\ stack' = [Advanced EXCEPT ![Len(stack)].locals = Append(@, Now.var)]
    /\ alive' = alive \cup {Now.var}
    /\ UNCHANGED <<fun, report, lost, early, proper>>

Used(v) == IF v \in alive THEN proper \cup {<<v, At>>} ELSE proper

Use ==
    /\ AtStmt /\ Now.op = "use"
    /\ stack' = Advanced
    /\ proper' = Used(Now.var)
    /\ UNCHANGED <<fun, report, alive, lost, early>>

Order == fun.params \o FlattenSeq([i \in DOMAIN stack |-> stack[i].locals])

Destroy ==
    /\ AtStmt /\ Now.op = "destroy"
    /\ stack' = Advanced
    /\ proper' = Used(Now.var)
    /\ early' = early \cup {<<Now.var, Order[j], At>> : j \in {j \in DOMAIN Order :
                               Order[j] \in alive /\ \E i \in 1..(j - 1) : Order[i] = Now.var}}
    /\ alive' = alive \ {Now.var}
    /\ UNCHANGED <<fun, report, lost>>

\* The frames from index i on are left at a location, with what is alive in them.
Leave(i, at) ==
    /\ stack' = SubSeq(stack, 1, i - 1)
    /\ LET gone == Locals(i) \cup (IF i = 1 THEN Params ELSE {})
       IN  lost' = lost \cup {<<v, at>> : v \in alive \cap gone} /\ alive' = alive \ gone
    /\ UNCHANGED <<fun, report, early, proper>>

Innermost(kinds) ==
    CHOOSE i \in DOMAIN stack : /\ stack[i].kind \in kinds
                                /\ \A k \in (i + 1)..Len(stack) : stack[k].kind \notin kinds

Return   == AtStmt /\ Now.op = "return"   /\ Leave(1, At)
Break    == AtStmt /\ Now.op = "break"    /\ Leave(Innermost(LoopOps \cup {"switch"}), At)
Continue == AtStmt /\ Now.op = "continue" /\ Leave(Innermost(LoopOps) + 1, At)
BlockEnd == AtEnd /\ Leave(Len(stack), Top.at)

Enter(frames) ==
    /\ stack' = Advanced \o frames
    /\ UNCHANGED <<fun, report, alive, lost, early, proper>>

EnterBlock ==
    /\ AtStmt /\ Now.op = "block"
    /\ Enter(<<Frame("block", Now.body, 1, Append(At, 1), <<>>)>>)

EnterBranch ==
    /\ AtStmt /\ Now.op = "if"
    /\ \/ Enter(<<Frame("block", Now.body, 1, Append(At, 1), <<>>)>>)
       \/ Enter(<<Frame("block", Now.other, 1, Append(At, 2), <<>>)>>)

\* One of the cases, or none.
EnterSwitchCase ==
    /\ AtStmt /\ Now.op = "switch"
    /\ \/ Enter(<<>>)
       \/ \E i \in DOMAIN Now.body :
             /\ Now.body[i].op = "case"
             /\ Enter(<<Frame("switch", <<>>, 1, At, <<>>),
                        Frame("block", Now.body, i, Append(At, 1), <<>>)>>)

\* A loop's frame keeps its body; the body of a do is entered at once.
EnterLoopStmt ==
    /\ AtStmt /\ Now.op \in LoopOps
    /\ LET loop == Frame(Now.op, Now.body, 1, At, IF Now.var = NoVar THEN <<>> ELSE <<Now.var>>)
           body == Frame("block", Now.body, 1, Append(At, 1), <<>>)
       IN  stack' = Advanced \o IF Now.op = "do" THEN <<loop, body>> ELSE <<loop>>
    /\ alive' = alive \cup ({Now.var} \ {NoVar})
    /\ UNCHANGED <<fun, report, lost, early, proper>>

\* The condition of the loop that is on top holds, or it does not.
Iterate ==
    /\ stack # <<>> /\ Top.kind \in LoopOps
    /\ stack' = Append(stack, Frame("block", Top.code, 1, Append(Top.at, 1), <<>>))
    /\ UNCHANGED <<fun, report, alive, lost, early, proper>>

EndLoopOrSwitch ==
    stack # <<>> /\ Top.kind \in LoopOps \cup {"switch"} /\ Leave(Len(stack), Append(Top.at, 1))

Next == \/ Decl \/ Use \/ Destroy \/ Return \/ Break \/ Continue \/ BlockEnd
        \/ EnterBlock \/ EnterBranch \/ EnterSwitchCase \/ EnterLoopStmt
        \/ Iterate \/ EndLoopOrSwitch

Spec == Init /\ [][Next]_vars

-----------------------------------------------------------------------------
(* What the analyzer covers                                                *)

RECURSIVE Ends(_), Covered(_, _)

\* The ways in which an execution may leave a block: at its end or by a jump.
Ends(block) ==
    IF block = <<>> THEN {"normal"}
    ELSE LET s     == Head(block)
             first == CASE s.op \in {"decl", "use", "destroy"} -> {"normal"}
                        [] s.op \in Flow \ {"normal"}          -> {s.op}
                        [] s.op \in {"block", "case"}          -> Ends(s.body)
                        [] s.op = "if"     -> Ends(s.body) \cup Ends(s.other)
                        [] s.op = "do"     -> IF Ends(s.body) = {"return"} THEN {"return"}
                                              ELSE {"normal"} \cup (Ends(s.body) \cap {"return"})
                        [] s.op \in {"for", "while"} ->
                                              {"normal"} \cup (Ends(s.body) \cap {"return"})
                        [] s.op = "switch" -> {"normal"} \cup
                                  (UNION {Ends(SubSeq(s.body, i, Len(s.body))) : i \in DOMAIN s.body}
                                      \ {"break"})
         IN  (first \ {"normal"}) \cup IF "normal" \in first THEN Ends(Tail(block)) ELSE {}

\* A loop whose body may reach its end, or always leaves the same way; only a do, which
\* runs at least once, may always return.
ReturnsLikeItsBody(s) ==
    \/ "normal" \in Ends(s.body)
    \/ Ends(s.body) = {"continue"}
    \/ Ends(s.body) = {"break"} /\ s.var = NoVar
    \/ s.op = "do" /\ Ends(s.body) = {"return"}

\* A switch without a jump between its cases, or with a single one, a break, at its end.
ReachesItsEnd(s) ==
    \A i \in DOMAIN s.body : s.body[i].op # "case" =>
        LET ends == Ends(<<s.body[i]>>) IN "normal" \in ends \/ (i = Len(s.body) /\ ends = {"break"})

\* The block has only such loops and switches, and destroys none of the kept variables:
\* a switch keeps what is declared around it, a for its own variable.
Covered(block, kept) ==
    \A i \in DOMAIN block :
        LET s == block[i]
            declared == {block[j].var : j \in {j \in 1..(i - 1) : block[j].op = "decl"}}
        IN  /\ s.op \in LoopOps => ReturnsLikeItsBody(s)
            /\ s.op = "switch" => ReachesItsEnd(s)
            /\ s.op = "destroy" => s.var \notin kept \ declared
            /\ Covered(s.body, CASE s.op = "switch" -> {"a", "b"}
                                 [] s.op = "for"    -> (kept \ declared) \cup {s.var}
                                 [] OTHER           -> kept \ declared)
            /\ Covered(s.other, kept \ declared)

-----------------------------------------------------------------------------
(* Properties                                                              *)

\* rules.md: "Every variable, and every parameter passed by value, must be destroyed or
\* returned before every scope exit".  Wherever an execution leaves a scope with a resource,
\* whatever branches and iterations led there, the analyzer reported it at that place.
LeaksAreReported == Covered(fun.body, {}) => lost \subseteq report.leaks

\* raii_destroy_in_reverse_order: wherever an execution destroys a variable while a later
\* one is alive, in its scope or one further in, the analyzer reported that pair there.
EarlyDestroysAreReported == Covered(fun.body, {}) => early \subseteq report.early

\* raii_use_after_destroy: a use that the analyzer reports is one after the destruction on
\* every path, so no execution reaches it with the variable alive.
UseReportsAreTrue == Covered(fun.body, {}) => proper \cap report.uses = {}
=============================================================================
