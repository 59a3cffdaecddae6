---------------------------- MODULE MCStructRules ----------------------------
EXTENDS StructRules

Config == [arrays : BOOLEAN, mayOnlyMoveValueRef : BOOLEAN, mayOnlyDestroyValueRef : BOOLEAN,
           inReverseOrder : BOOLEAN, useAfterDestroy : BOOLEAN, standardizedDestroy : BOOLEAN]

\* Only the checks that no setting turns off.
Permissive == [arrays |-> TRUE, mayOnlyMoveValueRef |-> FALSE, mayOnlyDestroyValueRef |-> FALSE,
               inReverseOrder |-> FALSE, useAfterDestroy |-> TRUE, standardizedDestroy |-> FALSE]
Strict == [arrays |-> TRUE, mayOnlyMoveValueRef |-> TRUE, mayOnlyDestroyValueRef |-> TRUE,
           inReverseOrder |-> TRUE, useAfterDestroy |-> FALSE, standardizedDestroy |-> TRUE]

Vec(suffix) == FunctionDecl("vec", suffix)
VecHelpers  == <<Vec("destroy"), Vec("copy"), Vec("move"), Vec("return"), Vec("valid"), Vec("arrayDestroy")>>
VecHeader   == <<StructDecl("vec"), Vec("raii")>> \o VecHelpers
BoxHeader   == <<StructDecl("box"), FunctionDecl("box", "pod")>>

Unit(headers, config, function, depth, parameters, body, fields, destroy) ==
    [headers |-> headers, config |-> config, function |-> function, depth |-> depth,
     parameters |-> parameters, body |-> body, fields |-> fields, destroy |-> destroy]

-----------------------------------------------------------------------------
(* Every function of up to three statements                                *)

Make       == Expr("make", "", <<>>)
Literal    == Expr("literal", "", <<>>)
Copied(x)  == Expr("copy", x, <<>>)
Moved(x)   == Expr("move", x, <<>>)
Given(x)   == Expr("return", x, <<>>)
Var(x)     == Expr("var", x, <<>>)
Deref      == Expr("deref", "*p", <<>>)
Elem       == Expr("elem", "r[0]", <<>>)
Cond       == Expr("conditional", "a", <<>>)
List(es)   == Expr("list", "", es)

Values == {Make, Literal, Var("a"), Var("b"), Deref, Elem, Cond}
          \cup UNION {{Copied(x), Moved(x), Given(x)} : x \in {"&a", "&b", "p"}}
Elements == {Make, Moved("&a"), Var("a")}

Uses == {Use("decl", "b", e, "") : e \in Values \cup {NoExpr}}
        \cup {Use("decl", "r", List(<<d, e>>), "") : d, e \in Elements}
        \cup {Use("decl", "r", e, "") : e \in {NoExpr, List(<<Make>>)}}
        \cup {Use("assign", t, e, "") : t \in {"a", "*p", "r[0]"}, e \in {Make, Var("b")}}
        \cup {Use("assign", "a", e, "") : e \in {Moved("&b"), Deref, Literal}}
        \cup {Use("pass", "", e, "") : e \in {Make, Var("a"), Var("b"), Deref, Given("&a")}
                                               \cup {Copied("&a"), Moved("&a"), Moved("&b")}}
        \cup {Use("wrap", "", e, "") : e \in {Make, Moved("&a")}}
        \cup {Use("discard", "", Make, h) : h \in {"plain", "void", "comma", "member"}}
        \cup {Use("discard", "", Moved("&a"), "conditional")}
        \cup {Use("destroy", x, NoExpr, "") : x \in {"&a", "&b", "p", "&r[0]"}}
        \cup {Use("destroyArray", "r", NoExpr, n) : n \in {1, 2}}
        \cup {Use("destroyArray", "p", NoExpr, 2)}
        \cup {Use("return", "", e, "") : e \in {Make, Var("a"), Var("b"), Deref, Given("&a")}
                                                 \cup {Given("&b"), Given("p"), Moved("&a")}}

Names(s) == {Referenced(s.var)} \cup {Referenced(e.arg) : e \in Parts(s)}

\* A variable is declared once and before it is named, and nothing follows a return.
Legal(body) ==
    \A i \in DOMAIN body :
        /\ body[i].op = "return" => i = Len(body)
        /\ \A v \in Names(body[i]) \cap {"b", "r"} :
              LET decls == {k \in 1..Len(body) : body[k].op = "decl" /\ body[k].var = v}
              IN  /\ Cardinality(decls) = 1
                  /\ \A k \in decls : k < i \/ (k = i /\ v \notin {Referenced(e.arg) : e \in Parts(body[i])})

Headers(body) ==
    IF \E i \in DOMAIN body : body[i].op = "wrap" THEN <<VecHeader \o BoxHeader>> ELSE <<VecHeader>>

UserUnits(parameters, bodies) ==
    {Unit(Headers(b), Permissive, UserFunction, 2, parameters, b, <<>>, <<>>) :
     b \in {b \in bodies : Legal(b)}}

WithoutA(uses) == {s \in uses : "a" \notin Names(s)}
FirstOf(uses)  == {s \in uses : s.op # "return" /\ (Names(s) \cap {"b", "r"} = {} \/ s.op = "decl")}

UpToTwo(uses) == {<<>>} \cup {<<s>> : s \in uses} \cup {<<s, t>> : s \in FirstOf(uses), t \in uses}
Three(uses, s) == {<<s, t, u>> : t, u \in uses}

\* What the four statements of a function with two local variables are chosen from.
FewUses == {Use("decl", "b", e, "") : e \in {Make, Moved("&r[0]")}}
           \cup {Use("decl", "r", List(<<Make, e>>), "") : e \in {Make, Moved("&b"), Copied("&b")}}
           \cup {Use("assign", t, Var("b"), "") : t \in {"*p", "r[0]"}}
           \cup {Use("pass", "", e, "") : e \in {Moved("&b"), Moved("&r[0]"), Var("b")}}
           \cup {Use("destroy", x, NoExpr, "") : x \in {"&b", "&r[0]"}}
           \cup {Use("destroyArray", "r", NoExpr, 2), Use("return", "", Given("&b"), "")}

\* In families, so that TLC need not unite large sets.
MCBodies == {UserUnits(<<"a">>, UpToTwo(Uses)), UserUnits(<<>>, UpToTwo(WithoutA(Uses)))}
            \cup {UserUnits(<<"a">>, Three(Uses, s)) : s \in FirstOf(Uses)}
            \cup {UserUnits(<<>>, Three(WithoutA(Uses), s)) : s \in FirstOf(WithoutA(Uses))}
            \cup {UserUnits(<<>>, {<<s>> \o b : b \in {<<t, u, v>> : t, u, v \in FewUses}}) : s \in FirstOf(FewUses)}

-----------------------------------------------------------------------------
(* Headers in every order, with more, fewer, unfit and ignored declarations *)

Creating == {<<>>} \cup {<<Vec(c)>> : c \in Creators}
            \cup {<<Vec("raii"), Vec("pod")>>, <<[Vec("raii") EXCEPT !.ignored = TRUE]>>,
                  <<[Vec("raii") EXCEPT !.fits = FALSE]>>}
Defining == {<<StructDecl("vec")>>, <<[StructDecl("vec") EXCEPT !.vtable = TRUE]>>,
             <<[StructDecl("vec") EXCEPT !.ignored = TRUE]>>}
Boxes    == {BoxHeader, <<StructDecl("box"), FunctionDecl("box", "free")>>}

Functions == {UserFunction, [struct |-> "box", suffix |-> "free"], [struct |-> "vec", suffix |-> "move"]}

SomeBodies == {<<Use("decl", "b", Var("a"), ""), Use("return", "", Given("&b"), "")>>,
               <<Use("assign", "self->v", Make, ""), Use("destroy", "&a", NoExpr, "")>>,
               <<Use("decl", "b", Moved("p"), ""), Use("return", "", Var("b"), "")>>}

MCOrders ==
    {{Unit(<<d, c, VecHelpers, b>>, Strict, fn, n, <<"a">>, body, <<"f", "g">>, <<Stmt("destroy", "f", <<>>, <<>>)>>) :
        d \in Defining, c \in Creating, b \in Boxes, fn \in Functions, n \in {2, MaxParents + 1},
        body \in SomeBodies}}

-----------------------------------------------------------------------------
(* Every destroy function of up to four statements over two raii fields    *)

Simple == {Stmt("destroy", "f", <<>>, <<>>), Stmt("destroy", "g", <<>>, <<>>),
           Stmt("return", NoVar, <<>>, <<>>), Stmt("goto", "L", <<>>, <<>>)}
Labelled1 == {Stmt("label", "L", <<s>>, <<>>) :
              s \in {Stmt("destroy", "f", <<>>, <<>>), Stmt("destroy", "g", <<>>, <<>>),
                     Stmt("other", NoVar, <<>>, <<>>)}}

\* Statements and blocks of n statements, from tables of the smaller ones.
StmtsOf(blocks, n) ==
    {Stmt(op, NoVar, b, <<>>) : op \in {"if", "while"}, b \in blocks[n - 1]}
    \cup UNION {{Stmt("if", NoVar, b, c) : b \in blocks[k], c \in blocks[n - 1 - k]} : k \in 1..(n - 2)}
BlocksOf(stmts, blocks, n) ==
    {<<s>> : s \in stmts[n]}
    \cup UNION {{<<s>> \o b : s \in stmts[k], b \in blocks[n - k]} : k \in 1..(n - 1)}

S1 == Simple \cup Labelled1
B1 == BlocksOf(<<S1>>, <<>>, 1)
S2 == StmtsOf(<<B1>>, 2)
B2 == BlocksOf(<<S1, S2>>, <<B1>>, 2)
S3 == StmtsOf(<<B1, B2>>, 3)
B3 == BlocksOf(<<S1, S2, S3>>, <<B1, B2>>, 3)
S4 == StmtsOf(<<B1, B2, B3>>, 4)
B4 == BlocksOf(<<S1, S2, S3, S4>>, <<B1, B2, B3>>, 4)

RECURSIVE Count(_, _)
Count(op, block) ==
    IF block = <<>> THEN 0
    ELSE LET s == Head(block)
         IN  (IF s.op = op THEN 1 ELSE 0) + Count(op, s.body) + Count(op, s.other) + Count(op, Tail(block))

\* Each field is destroyed, and a goto has its label.
LegalDestroy(b) ==
    /\ Count("destroy", b) >= 2
    /\ Count("label", b) <= 1
    /\ Count("goto", b) > 0 => Count("label", b) = 1

DestroyUnits(blocks) ==
    {Unit(<<VecHeader>>, [Permissive EXCEPT !.standardizedDestroy = TRUE, !.inReverseOrder = r],
          UserFunction, 2, <<"a">>, <<Use("destroy", "&a", NoExpr, "")>>, <<"f", "g">>, b) :
     b \in {b \in blocks : LegalDestroy(b)}, r \in BOOLEAN}

MCUnits == MCBodies \cup MCOrders \cup {DestroyUnits(b) : b \in {B2, B3, B4}}
=============================================================================
