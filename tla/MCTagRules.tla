----------------------------- MODULE MCTagRules -----------------------------
EXTENDS TagRules

MCFields == <<"p", "q">>

Decl(tag, ref, defines) == [tag |-> tag, ref |-> ref, defines |-> defines, spelling |-> "typedef"]

\* Alone, after a declaration, or in front of one.
Declared(tags, refs) ==
    {<<Decl(t, r, TRUE)>> : t \in tags, r \in refs}
    \cup {<<Decl(s, r, FALSE), Decl(t, q, TRUE)>> : s, t \in tags, r, q \in refs}

\* A declaration, and a definition that spells the type in another way.
Respelled(tags) == {<<Decl(s, FALSE, FALSE), [Decl(t, FALSE, TRUE) EXCEPT !.spelling = "struct"]>> : s, t \in tags}

Types == {[tag |-> t, ref |-> r, const |-> t = None] : t \in {"move", None}, r \in BOOLEAN}

Of(base)     == [base |-> base, ops |-> <<>>]
Apply1(e, op) == [e EXCEPT !.ops = Append(@, op)]
Param  == Of("param")
Local  == Of("local")
Object == Of("object")
Array  == Of("array")
Deref(e)   == Apply1(e, "deref")
Arrow(e)   == Apply1(e, "arrow")
Dot(e)     == Apply1(e, "dot")
Index(e)   == Apply1(e, "index")
Cast1(e)   == Apply1(e, "cast")
Address(e) == Apply1(e, "address")

Places == {Object, Dot(Object), Index(Array), Index(Dot(Object)), Index(Arrow(Address(Object)))}
          \cup UNION {{Arrow(q), Deref(q), Index(q), Index(Arrow(q))} : q \in {Param, Local, Cast1(Param)}}
Args == {Param, Local, Of("null"), Cast1(Param), Cast1(Address(Local)), Array, Dot(Object)}
        \cup {Arrow(q) : q \in {Param, Local}} \cup {Address(e) : e \in Places}

Fun(f)        == [op |-> "function", of |-> f]
Var(v)        == [op |-> "variable", of |-> v]
Plain(b)      == [casts |-> <<>>, of |-> <<b>>]
Cast(v, bs)   == [casts |-> <<v>>, of |-> bs]

Sources == {<<Plain(Fun("f"))>>, <<Plain(Fun("g"))>>, <<Plain(Var("q"))>>, <<Cast("p", <<Fun("g")>>)>>,
            <<Plain(Fun("f")), Plain(Fun("g"))>>}
CastConditional == {<<Cast("p", <<Fun("f"), Fun("g")>>)>>, <<Cast("q", <<Fun("f"), Fun("f")>>)>>}
Callees == {<<Plain(Fun("f"))>>, <<Plain(Var("p"))>>, <<Plain(Var("p")), Plain(Fun("g"))>>}

Options(on) == [t \in Movement |-> t \in on]

\* Declarations of f against the calls; and function pointers against f and g.
Direct == [decls : [f : Declared({"move", "modify", None}, {FALSE}) \cup Respelled({"move", "modify"}),
                    g : {<<Decl("move", FALSE, TRUE)>>},
                    caller : {<<Decl(t, FALSE, TRUE)>> : t \in {"move", "out"}}
                             \cup {<<Decl("modify", FALSE, FALSE), Decl(t, FALSE, TRUE)>> : t \in {"modify", None}}],
           const : [f : BOOLEAN, g : {FALSE}, caller : {FALSE}],
           type : [p : {[tag |-> "move", ref |-> FALSE, const |-> FALSE]},
                   q : {[tag |-> "modify", ref |-> FALSE, const |-> FALSE]}],
           options : {Options(Movement), Options({"move"}), Options({"out", "modify"})},
           work : {[sources |-> Sources, callees |-> Callees, bindings |-> 1, calls |-> 1, assigns |-> FALSE,
                     args |-> {Local, Cast1(Param), Deref(Param)}]}]

Pointers == [decls : [f : {<<Decl("move", FALSE, TRUE)>>, <<Decl("move", TRUE, TRUE)>>,
                           <<Decl("move", FALSE, FALSE), Decl(None, FALSE, TRUE)>>},
                      g : {<<Decl(t, FALSE, TRUE)>> : t \in {"move", "modify"}},
                      caller : {<<Decl("modify", FALSE, TRUE)>>}],
             const : [f : {FALSE}, g : {FALSE}, caller : {FALSE}],
             type : [p : Types, q : {[tag |-> "move", ref |-> FALSE, const |-> FALSE]}],
             options : {Options(Movement)},
             work : {[sources |-> Sources, callees |-> Callees, bindings |-> 2, calls |-> 1, assigns |-> FALSE,
                       args |-> {Local, Address(Object)}],
                     [sources |-> CastConditional, callees |-> Callees, bindings |-> 1, calls |-> 1,
                       assigns |-> FALSE, args |-> {Local}]}]

\* Every argument that may be given to a reference, or to a pointer that should be one.
References == [decls : [f : Declared({"modify"}, BOOLEAN), g : {<<Decl("modify", FALSE, TRUE)>>},
                        caller : {<<Decl("modify", r, TRUE)>> : r \in BOOLEAN}
                                 \cup {<<Decl("modify", r, FALSE), Decl("modify", ~r, TRUE)>> : r \in BOOLEAN}],
               const : [f : {FALSE}, g : {FALSE}, caller : {FALSE}],
               type : [p : {[tag |-> "modify", ref |-> TRUE, const |-> FALSE]},
                       q : {[tag |-> "modify", ref |-> FALSE, const |-> FALSE]}],
               options : {Options({})},
               work : {[sources |-> Sources, callees |-> Callees, bindings |-> 1, calls |-> 1, assigns |-> TRUE,
                         args |-> Args]}]

MCUnits == Direct \cup Pointers \cup References
=============================================================================
