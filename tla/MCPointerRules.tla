--------------------------- MODULE MCPointerRules ---------------------------
(***************************************************************************)
(* Functions of up to four statements over one pointer parameter "p".      *)
(***************************************************************************)
EXTENDS PointerRules

E(op) == Expr(op, "p", <<>>)
Do(e) == Stmt("expr", "", <<e>>, <<>>)
Jump(op) == Stmt(op, "L", <<Opaque>>, <<>>)
Assignment == Expr("assign", "p", <<Opaque>>)
Jumps == {"return", "break", "continue", "goto"}

MoveLeaf == {Do(E("ref")), Do(E("give")), Do(Assignment)} \cup {Jump(op) : op \in Jumps \ {"goto"}}
NullLeaf == {Do(E("deref")), Do(Assignment), Do(Expr("abort", "", <<>>))}
            \cup {Jump(op) : op \in Jumps \ {"goto"}}
MoveCond == {Opaque, E("notnull")}
NullCond == {Opaque, E("notnull"), E("isnull"), Expr("or", "", <<E("isnull"), E("deref")>>)}

\* Sequences of n statements in all, from tables of the shorter ones: nothing follows a jump.
Blocks(stmts, blocks, n) ==
    UNION ({{<<s>> : s \in stmts[n]}} \cup
           {{<<s>> \o b : s \in {s \in stmts[k] : s.op \notin Jumps}, b \in blocks[n - k]} :
            k \in 1..(n - 1)})

\* Bodies of a switch: the first statement has a label, what follows a jump has one.
Sections(stmts, cases, n) ==
    LET case(s) == Stmt("case", "", <<>>, <<s>>)
        default(s) == Stmt("default", "", <<>>, <<s>>)
        bare(b) == b[1].kids \o Tail(b)
    IN  UNION ({{<<case(s)>> : s \in stmts[n]}, {<<default(s)>> : s \in stmts[n]}} \cup
               {{<<case(s)>> \o b : s \in stmts[k], b \in cases[n - k]} : k \in 1..(n - 1)} \cup
               {{<<case(s)>> \o bare(b) : s \in {s \in stmts[k] : s.op \notin Jumps},
                                          b \in cases[n - k]} : k \in 1..(n - 1)})

Ifs(conds, blocks, n) ==
    {Stmt("if", "", <<c>>, <<Block(b)>>) : c \in conds, b \in blocks[n - 1]} \cup
    UNION {{Stmt("if", "", <<c>>, <<Block(b), Block(e)>>) :
            c \in conds, b \in blocks[k], e \in blocks[n - 1 - k]} : k \in 1..(n - 2)}

Looping(conds, blocks, n) ==
    {Stmt("while", "", <<c>>, <<Block(b)>>) : c \in conds \cup {True}, b \in blocks[n - 1]} \cup
    {Stmt("do", "", <<c>>, <<Block(b)>>) : c \in conds, b \in blocks[n - 1]} \cup
    {Stmt("for", "", <<Opaque, Assignment>>, <<Block(b)>>) : b \in blocks[n - 1]}

Stmts(conds, blocks, cases, n) ==
    Ifs(conds, blocks, n) \cup Looping(conds, blocks, n) \cup
    {Stmt("switch", "", <<Opaque>>, b) : b \in cases[n - 1]}

RECURSIVE Legal(_, _)
\* Jumps have a target.
Legal(s, in) ==
    /\ s.op = "break" => in # {}
    /\ s.op = "continue" => "loop" \in in
    /\ \A i \in DOMAIN s.kids :
          Legal(s.kids[i], in \cup (IF s.op \in Loops THEN {"loop"} ELSE {})
                              \cup (IF s.op = "switch" THEN {"switch"} ELSE {}))

Bodies(blocks) == {f \in {Block(b) : b \in blocks} : Legal(f, {})}

\* The blocks of four statements, in families, so that TLC need not unite large sets.
Families4(conds, s1, s2, s3, b1, b2, b3, cases3) ==
    {Bodies({<<s>> \o b : s \in {s \in s1 : s.op \notin Jumps}, b \in b3}),
     Bodies({<<s>> \o b : s \in s2, b \in b2}),
     Bodies({<<s>> \o b : s \in s3, b \in b1}),
     Bodies({<<Stmt("for", "", <<Opaque, Assignment>>, <<Block(b)>>)>> : b \in b3}),
     Bodies({<<Stmt("switch", "", <<Opaque>>, b)>> : b \in cases3})} \cup
    {Bodies({<<Stmt("if", "", <<c>>, <<Block(b), Block(e)>>)>> : b \in b1, e \in b2}) : c \in conds} \cup
    {Bodies({<<Stmt("if", "", <<c>>, <<Block(b), Block(e)>>)>> : b \in b2, e \in b1}) : c \in conds} \cup
    {Bodies({<<Stmt(op, "", <<c>>, <<Block(b)>>)>> : b \in b3}) : op \in {"if", "while", "do"}, c \in conds}

M1  == MoveLeaf
MB1 == Blocks(<<M1>>, <<>>, 1)
MC1 == Sections(<<M1>>, <<>>, 1)
M2  == Stmts(MoveCond, <<MB1>>, <<MC1>>, 2)
MB2 == Blocks(<<M1, M2>>, <<MB1>>, 2)
MC2 == Sections(<<M1, M2>>, <<MC1>>, 2)
M3  == Stmts(MoveCond, <<MB1, MB2>>, <<MC1, MC2>>, 3)
MB3 == Blocks(<<M1, M2, M3>>, <<MB1, MB2>>, 3)

MC3 == Sections(<<M1, M2, M3>>, <<MC1, MC2>>, 3)
N1  == NullLeaf
NB1 == Blocks(<<N1>>, <<>>, 1)
NC1 == Sections(<<N1>>, <<>>, 1)
N2  == Stmts(NullCond, <<NB1>>, <<NC1>>, 2)
NB2 == Blocks(<<N1, N2>>, <<NB1>>, 2)
NC2 == Sections(<<N1, N2>>, <<NC1>>, 2)
N3  == Stmts(NullCond, <<NB1, NB2>>, <<NC1, NC2>>, 3)
NB3 == Blocks(<<N1, N2, N3>>, <<NB1, NB2>>, 3)
NC3 == Sections(<<N1, N2, N3>>, <<NC1, NC2>>, 3)
\* An if or a loop on a larger expression, then one more dereference or use.
Atoms  == {E(op) : op \in {"ref", "deref", "notnull", "isnull", "give"}}
          \cup {Opaque, Assignment, Expr("abort", "", <<>>)}
Larger == {Expr("not", "", <<a>>) : a \in Atoms} \cup {E("sizeof")}
          \cup {Expr(op, "", <<a, b>>) : op \in {"and", "or"}, a, b \in Atoms}
          \cup {Expr("choose", "", <<a, b, c>>) : a \in {Opaque, E("isnull")}, b, c \in Atoms}
Expressions(last) ==
    {Bodies({<<Stmt(op, "", <<e>>, <<Block(<<a>>)>>), last>> :
             e \in Larger, a \in {last, Jump("return")}}) : op \in {"if", "while", "do"}}

\* A label at the end, and gotos to it from a block before.
Labelled(s) == Stmt("label", "L", <<>>, <<s>>)
G1  == {Do(E("deref")), Do(Assignment), Jump("goto"), Jump("return")}
GB1 == Blocks(<<G1>>, <<>>, 1)
GS1 == Sections(<<G1>>, <<>>, 1)
G2  == Stmts({Opaque, E("isnull")}, <<GB1>>, <<GS1>>, 2)
GB2 == Blocks(<<G1, G2>>, <<GB1>>, 2)
Forward  == {Bodies({b \o <<Labelled(Do(E("deref")))>> : b \in GB1 \cup GB2}),
             Bodies({<<s>> \o b \o <<Labelled(Do(E("deref")))>> : s \in G2, b \in GB2})}

\* int ok = p != NULL; in front of a block that tests ok.
Flag == Expr("flag", "ok", <<>>)
F1   == {Do(E("deref")), Jump("return"), Jump("break")}
FB1  == Blocks(<<F1>>, <<>>, 1)
FS1  == Sections(<<F1>>, <<>>, 1)
F2   == Stmts({Flag, Expr("not", "", <<Flag>>), Expr("and", "", <<Opaque, Flag>>)}, <<FB1>>, <<FS1>>, 2)
FB2  == Blocks(<<F1, F2>>, <<FB1>>, 2)
Checked(before, blocks) ==
    {Bodies({<<Stmt("decl", "ok", <<c>>, <<>>)>> \o before \o b : b \in blocks}) :
     c \in {E("notnull"), E("isnull"), E("ref"), Expr("and", "", <<E("notnull"), Opaque>>)}}
Flags == Checked(<<>>, FB2) \cup {Bodies({<<Stmt("decl", "ok", <<E("notnull")>>, <<>>), s>> \o b :
                                           s \in F2, b \in FB2})}

MCFunctions == {Bodies(MB1), Bodies(MB2), Bodies(MB3), Bodies(NB1), Bodies(NB2), Bodies(NB3)}
               \cup Families4(MoveCond, M1, M2, M3, MB1, MB2, MB3, MC3)
               \cup Families4(NullCond, N1, N2, N3, NB1, NB2, NB3, NC3)
               \cup Expressions(Do(E("deref"))) \cup Expressions(Do(E("ref")))
               \cup Forward \cup Flags
=============================================================================
