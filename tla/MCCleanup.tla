----------------------------- MODULE MCCleanup ------------------------------
(***************************************************************************)
(* Every well-formed function of at most four statements over one resource *)
(* "a", a parameter or the first local variable, and one resource "b".     *)
(***************************************************************************)
EXTENDS CleanupExecution

Leaf == {Stmt("decl", "b", <<>>, <<>>), Stmt("use", "a", <<>>, <<>>),
         Stmt("destroy", "a", <<>>, <<>>), Stmt("destroy", "b", <<>>, <<>>),
         Stmt("return", NoVar, <<>>, <<>>), Stmt("break", NoVar, <<>>, <<>>),
         Stmt("continue", NoVar, <<>>, <<>>)}

Jumps == {"return", "break", "continue"}

WithLabel(s) == Stmt("case", NoVar, <<s>>, <<>>)

\* Sequences of n statements in all, from tables of the shorter ones: nothing follows a jump.
Blocks(stmts, blocks, n) ==
    UNION ({{<<s>> : s \in stmts[n]}} \cup
           {{<<s>> \o b : s \in {s \in stmts[k] : s.op \notin Jumps}, b \in blocks[n - k]} :
            k \in 1..(n - 1)})

\* Bodies of a switch: the first statement has a label, others may, the one after a jump
\* has to; none is a declaration.
SwitchBodies(stmts, cases, n) ==
    LET here(k) == {s \in stmts[k] : s.op # "decl"}
        unlabelled(b) == b[1].body \o Tail(b)
    IN  UNION ({{<<WithLabel(s)>> : s \in here(n)}} \cup
               {{<<WithLabel(s)>> \o b : s \in here(k), b \in cases[n - k]} : k \in 1..(n - 1)} \cup
               {{<<WithLabel(s)>> \o unlabelled(b) :
                    s \in {s \in here(k) : s.op \notin Jumps}, b \in cases[n - k]} :
                k \in 1..(n - 1)})

Compound(op, var, bodies) == {Stmt(op, var, b, <<>>) : b \in bodies}

Stmts(blocks, cases, n) ==
    UNION ({Compound(op, NoVar, blocks[n - 1]) : op \in {"block", "if"} \cup LoopOps} \cup
           {Compound("for", "b", blocks[n - 1]), Compound("switch", NoVar, cases[n - 1])} \cup
           {{Stmt("if", NoVar, b, e) : b \in blocks[k], e \in blocks[n - 1 - k]} :
            k \in 1..(n - 2)})

\* The statements, blocks and switch bodies of one to three statements, each evaluated once.
Stmts1  == Leaf
Blocks1 == Blocks(<<Stmts1>>, <<>>, 1)
Cases1  == SwitchBodies(<<Stmts1>>, <<>>, 1)

Stmts2  == Stmts(<<Blocks1>>, <<Cases1>>, 2)
Blocks2 == Blocks(<<Stmts1, Stmts2>>, <<Blocks1>>, 2)
Cases2  == SwitchBodies(<<Stmts1, Stmts2>>, <<Cases1>>, 2)

Stmts3  == Stmts(<<Blocks1, Blocks2>>, <<Cases1, Cases2>>, 3)
Blocks3 == Blocks(<<Stmts1, Stmts2, Stmts3>>, <<Blocks1, Blocks2>>, 3)
Cases3  == SwitchBodies(<<Stmts1, Stmts2, Stmts3>>, <<Cases1, Cases2>>, 3)

\* Those of four statements, in families, so that TLC need not unite large sets.
Families4 ==
    {{<<s>> \o b : s \in {s \in Stmts1 : s.op \notin Jumps}, b \in Blocks3},
     {<<s>> \o b : s \in Stmts2, b \in Blocks2},
     {<<s>> \o b : s \in Stmts3, b \in Blocks1},
     {<<s>> : s \in Compound("switch", NoVar, Cases3)},
     {<<s>> : s \in Compound("for", "b", Blocks3)},
     {<<Stmt("if", NoVar, b, e)>> : b \in Blocks1, e \in Blocks2},
     {<<Stmt("if", NoVar, b, e)>> : b \in Blocks2, e \in Blocks1}}
    \cup {{<<s>> : s \in Compound(op, NoVar, Blocks3)} : op \in {"block", "if"} \cup LoopOps}

RECURSIVE Legal(_, _)

\* A block names b only in its scope, and jumps have a target:
\* in is the set of what surrounds it, of "b", "loop" and "switch".
Legal(block, in) ==
    IF block = <<>> THEN TRUE
    ELSE LET s == Head(block)
         IN  /\ s.var = "b" => (s.op \in {"decl", "for"} <=> "b" \notin in)
             /\ s.op = "continue" => "loop" \in in
             /\ s.op = "break" => in \cap {"loop", "switch"} # {}
             /\ Legal(s.body, in \cup (IF s.op \in LoopOps THEN {"loop"} ELSE {})
                                 \cup (IF s.op = "switch" THEN {"switch"} ELSE {})
                                 \cup (IF s.op = "for" /\ s.var = "b" THEN {"b"} ELSE {}))
             /\ Legal(s.other, in)
             /\ Legal(Tail(block), in \cup (IF s.op = "decl" THEN {"b"} ELSE {}))

\* a is a parameter, or it is declared first.
WithParameter(bodies) == {[params |-> <<"a">>, body |-> b] : b \in {b \in bodies : Legal(b, {})}}
WithLocal(bodies) ==
    {[params |-> <<>>, body |-> <<Stmt("decl", "a", <<>>, <<>>)>> \o b] :
     b \in {b \in bodies : Legal(b, {})}}

MCFunctions ==
    LET families == {Blocks1, Blocks2, Blocks3} \cup Families4
    IN  {WithParameter(f) : f \in families} \cup {WithLocal(f) : f \in families}
=============================================================================
