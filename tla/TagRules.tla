------------------------------ MODULE TagRules ------------------------------
(***************************************************************************)
(* The four rules of WorkshopC about the tags of pointer parameters: the   *)
(* declarations of a function (ArgumentPointerMovementRule), what is given *)
(* to a function pointer (FunctionPointerTagRule), the call sites          *)
(* (ArgumentPointerCallsiteRule), and references (ReferencePointerRule).   *)
(* Each node of a translation unit that clang's finder visits is a step;   *)
(* every function has one pointer parameter, and so does the type of every *)
(* function pointer.  The ghost variables are what the program does: the   *)
(* functions that each pointer may hold, and the calls that are executed.  *)
(***************************************************************************)
EXTENDS ReferencePointers, SequencesExt, FiniteSetsExt

CONSTANTS Function, Variable,  \* the functions, and the function pointers
          Caller,              \* the function whose body makes the calls
          Spelling,            \* the ways to write the type of a parameter, as Node* and struct Node*
          Fields,              \* a record's function pointers, in order
          Units                \* the declarations, types, options and expressions considered

VARIABLES unit,       \* decls, const, type, the options, and the work considered
          seen,       \* how many declarations of each function were visited
          inBody,     \* the finder is in the body of Caller
          functions,  \* the rule's map: the tag of the last mere declaration under each key
          reports,    \* the diagnostic codes reported
          holds,      \* ghost: the functions each pointer may hold
          bound,      \* ghost: every <<pointer, function>> there has been
          executed,   \* ghost: what was called, with which argument
          assigned,   \* ghost: the parameter of Caller was given a new value
          steps       \* the bindings and calls that were visited

vars == <<unit, seen, inBody, functions, reports, holds, bound, executed, assigned, steps>>

Movement == {"move", "out", "modify"}
None == "none"
Tag  == Movement \cup {None}

\* An expression for a function is a sequence of branches, those of its conditionals.  A
\* branch is a function or a pointer, or casts to the types of pointers, the outermost first,
\* of one of them or of a conditional: of its branches.
Base   == [op : {"function"}, of : Function] \cup [op : {"variable"}, of : Variable]
Branch == {b \in [casts : Seq(Variable), of : Seq(Base)] :
              Len(b.of) > 0 /\ (b.casts = <<>> => Len(b.of) = 1)}
Expression == {e \in Seq(Branch) : Len(e) > 0}

\* C: a function has one definition, and what it is made of is declared.
ASSUME UnitsAssumption ==
    /\ Caller \in Function /\ Fields \in Seq(Variable)
    /\ \A u \in Units :
          /\ u.decls \in [Function -> Seq([tag : Tag, ref : BOOLEAN, defines : BOOLEAN,
                                           spelling : Spelling])]
          /\ \A f \in Function : \E i \in DOMAIN u.decls[f] :
                \A j \in DOMAIN u.decls[f] : u.decls[f][j].defines <=> j = i
          /\ u.const \in [Function -> BOOLEAN]
          /\ u.type \in [Variable -> [tag : Tag, ref : BOOLEAN, const : BOOLEAN]]
          /\ u.options \in [Movement -> BOOLEAN]
          /\ u.work.sources \subseteq Expression /\ u.work.callees \subseteq Expression
          /\ u.work.args \subseteq Argument

Decls(f)   == unit.decls[f]
Definition(f) == CHOOSE i \in DOMAIN Decls(f) : Decls(f)[i].defines

-----------------------------------------------------------------------------
(* What clang gives: the annotations of a redeclared parameter.            *)

\* The declarations whose annotations the i-th one has, in order: a redeclaration inherits
\* those that it does not write itself, and they come first.
Annotated(f, i) == {k \in 1..i : /\ Decls(f)[k].tag # None
                                 /\ \A j \in (k + 1)..i : Decls(f)[j].tag # Decls(f)[k].tag}

-----------------------------------------------------------------------------
(* What the rules read.  A signature is what is known of the parameter.    *)

GetParamTag(f, i) == IF Annotated(f, i) = {} THEN None
                     ELSE Decls(f)[Min(Annotated(f, i))].tag

\* Mutant: only what the declaration itself writes counts.
WrittenTagOnly(f, i) == IF unit.const[f] THEN None ELSE Decls(f)[i].tag

\* The tag that the declaration check compares: the last one.
TagOfDeclaration(f, i) == IF unit.const[f] \/ Annotated(f, i) = {} THEN None
                          ELSE Decls(f)[Max(Annotated(f, i))].tag

\* A declaration is known by its name and the types of its parameters as they are spelled.
MakeKey(f, i) == <<f, Decls(f)[i].spelling>>

\* An untagged parameter takes the tag of another declaration, the latest one first.
MovementTagOf(f, i) == IF GetParamTag(f, i) # None THEN GetParamTag(f, i)
                       ELSE GetParamTag(f, Len(Decls(f)))

HasReferenceTag(f) == \E i \in DOMAIN Decls(f) : Decls(f)[i].ref

Signature(f, i) == [tag |-> MovementTagOf(f, i), ref |-> HasReferenceTag(f)]
TypeOf(v) == [tag |-> unit.type[v].tag, ref |-> unit.type[v].ref]

FunctionTypeOfBase(b) == IF b.op = "function" THEN Signature(b.of, seen[b.of]) ELSE TypeOf(b.of)

\* An explicit cast decides the type.
FunctionTypeOf(b) == IF b.casts # <<>> THEN TypeOf(b.casts[1]) ELSE FunctionTypeOfBase(b.of[1])

\* Mutant: a cast decides what the pointer is compared with.
TypeOfCast(b) == FunctionTypeOf(b)

\* What the pointer is compared with: below the casts, where a conditional has no type.
BoundFunctionOf(b) == FunctionTypeOfBase(b.of[1])
Known(b) == Len(b.of) = 1

\* The codes for two signatures that must be the same.
Mismatch(s, t) == {c \in {"FunctionPointerMovementTagMismatch"} : s.tag # t.tag}
                  \cup {c \in {"FunctionPointerReferenceTagMismatch"} : s.ref # t.ref}

\* Both branches of a conditional may end up in the pointer.
CheckBinding(v, e) == UNION {Mismatch(BoundFunctionOf(b), TypeOf(v)) : b \in {b \in Range(e) : Known(b)}}

HaveSameTags(e) == \A b \in Range(e) : FunctionTypeOf(b) = FunctionTypeOf(e[1])

\* Every branch of a conditional callee against the first one.
CheckConditionalCallee(e) == UNION {Mismatch(FunctionTypeOf(b), FunctionTypeOf(e[1])) : b \in Range(e)}

\* The tag that the arguments follow: of the function's parameter as it was declared last,
\* or of the type of the first branch.
CalleeTag(e) == LET first == e[1]
                IN  IF first.casts = <<>> /\ first.of[1].op = "function"
                    THEN GetParamTag(first.of[1].of, seen[first.of[1].of])
                    ELSE FunctionTypeOf(first).tag

CheckOperator(tag, wrapper) ==
    IF tag = None THEN {c \in {"OperatorOnUntaggedParameter"} : wrapper # None}
    ELSE IF ~unit.options[tag] THEN {c \in {"OperatorDisabled"} : wrapper # None}
    ELSE {c \in {"OperatorMissing"} : wrapper # tag}

\* The caller's own parameter, or what it points to, may not be moved when it is borrowed.
CheckMoveOfBorrowedParam(tag, arg) ==
    {c \in {"BorrowedPointerMoved"} :
        /\ tag = "move"
        /\ LET n == StripWrappers(arg, Len(arg.ops))
           IN  /\ arg.base = "param"
               /\ n = 0 \/ (arg.ops[n] = "deref" /\ StripWrappers(arg, n - 1) = 0)
        /\ MovementTagOf(Caller, seen[Caller]) \in {"modify", "out"}}

-----------------------------------------------------------------------------
(* The program: what is executed.                                          *)

Bases(e) == UNION {Range(b.of) : b \in Range(e)}

Reaches(e) == UNION {IF b.op = "function" THEN {b.of} ELSE holds[b.of] : b \in Bases(e)}

\* Functions are declared and pointers have a value before they are used.
Usable(e) == \A b \in Bases(e) : IF b.op = "function" THEN seen[b.of] > 0 ELSE holds[b.of] # {}

-----------------------------------------------------------------------------
(* The finder's visits.                                                    *)

\* Parameters of function pointer types are visited with them: an untagged one is reported.
TypeReports(u) == {c \in {"MovementTagMissing"} :
                      \E v \in Variable : ~u.type[v].const /\ u.type[v].tag = None}

Init == /\ unit \in Units
        /\ seen = [f \in Function |-> 0] /\ inBody = FALSE
        /\ functions = [k \in Function \X Spelling |-> "no declaration"]
        /\ reports = TypeReports(unit)
        /\ holds = [v \in Variable |-> {}] /\ bound = {} /\ executed = {} /\ assigned = FALSE
        /\ steps = [bindings |-> 0, calls |-> 0]

\* A declaration of f: without a tag it is reported; a mere declaration is remembered under its
\* key, and the definition is compared with what is remembered under its own.
VisitFunction(f) ==
    /\ seen[f] < Len(Decls(f))
    /\ LET i == seen[f] + 1
           tag == TagOfDeclaration(f, i)
           key == MakeKey(f, i)
           defines == Decls(f)[i].defines
       IN  /\ seen' = [seen EXCEPT ![f] = i]
           /\ inBody' = (f = Caller /\ defines)
           /\ functions' = IF defines THEN functions ELSE [functions EXCEPT ![key] = tag]
           /\ reports' = reports
                  \cup {c \in {"MovementTagMissing"} : ~unit.const[f] /\ tag = None}
                  \cup {c \in {"MovementTagMismatch"} :
                            defines /\ functions[key] \notin {"no declaration", tag}}
                  \cup {c \in {"ReferenceDeclarationTagMismatch"} : i = 1 /\
                            \E j \in DOMAIN Decls(f) : Decls(f)[j].ref # Decls(f)[1].ref}
    /\ UNCHANGED <<unit, holds, bound, executed, assigned, steps>>

\* The pointers vs get the values es: an initializer, an assignment, an argument or a return.
Bind(vs, es) ==
    /\ steps.bindings + Len(es) <= unit.work.bindings
    /\ \A i \in DOMAIN es : Usable(es[i])
    /\ reports' = reports \cup UNION {CheckBinding(vs[i], es[i]) : i \in DOMAIN es}
    /\ LET new == [i \in DOMAIN es |-> Reaches(es[i])]
       IN  /\ holds' = [v \in Variable |-> IF \E i \in DOMAIN es : vs[i] = v
                                           THEN new[CHOOSE i \in DOMAIN es : vs[i] = v] ELSE holds[v]]
           /\ bound' = bound \cup UNION {{vs[i]} \X new[i] : i \in DOMAIN es}
    /\ steps' = [steps EXCEPT !.bindings = @ + Len(es)]
    /\ UNCHANGED <<unit, seen, inBody, functions, executed, assigned>>

BindPointer == \E v \in Variable, e \in unit.work.sources : Bind(<<v>>, <<e>>)

\* A record's fields are initialized in order, not always all of them.
InitializeRecord == \E n \in 1..Len(Fields), es \in [1..Len(Fields) -> unit.work.sources] :
                        Bind(Fields, SubSeq(es, 1, n))

\* A call in the body of Caller; when the branches of its callee differ, only that is reported.
Call(e, wrapper, arg) ==
    /\ inBody /\ steps.calls < unit.work.calls /\ Usable(e)
    /\ reports' = reports \cup CheckConditionalCallee(e)
           \cup IF HaveSameTags(e)
                THEN CheckMoveOfBorrowedParam(CalleeTag(e), arg) \cup CheckOperator(CalleeTag(e), wrapper)
                     \cup {c \in {"ReferenceInvalidArgument"} :
                              /\ FunctionTypeOf(e[1]).ref
                              /\ ~IsValidArgument(arg, HasReferenceTag(Caller))}
                ELSE {}
    /\ executed' = executed \cup {[targets |-> Reaches(e), wrapper |-> wrapper, arg |-> arg,
                                   null |-> Null(arg, HasReferenceTag(Caller) /\ ~assigned)]}
    /\ steps' = [steps EXCEPT !.calls = @ + 1]
    /\ UNCHANGED <<unit, seen, inBody, functions, holds, bound, assigned>>

VisitCall == \E e \in unit.work.callees, wrapper \in Tag, arg \in unit.work.args :
                Call(e, wrapper, arg)

\* param = other;  also ++ and the compound assignments.
VisitAssignment ==
    /\ inBody /\ ~assigned /\ unit.work.assigns
    /\ assigned' = TRUE
    /\ reports' = reports \cup {c \in {"ReferenceReassigned"} : HasReferenceTag(Caller)}
    /\ UNCHANGED <<unit, seen, inBody, functions, holds, bound, executed, steps>>

Next == (\E f \in Function : VisitFunction(f)) \/ BindPointer \/ InitializeRecord \/ VisitCall \/ VisitAssignment

Spec == Init /\ [][Next]_vars

-----------------------------------------------------------------------------
(* Properties                                                              *)

Finished == \A f \in Function : seen[f] = Len(Decls(f))

\* What the function does with its parameter: the tag at its definition, or else at
\* another declaration.
Does(f) == LET written == {Decls(f)[i].tag : i \in DOMAIN Decls(f)} \ {None}
               atDefinition == Decls(f)[Definition(f)].tag
           IN  [tag |-> IF atDefinition # None \/ written = {} THEN atDefinition
                        ELSE CHOOSE t \in written : TRUE,
                ref |-> \E i \in DOMAIN Decls(f) : Decls(f)[i].ref]

\* Every declaration says what the definition does, and so does every function pointer
\* that ever holds the function.
DeclarationsAgree == \A f \in Function : \A i \in DOMAIN Decls(f) :
                         /\ Decls(f)[i].tag \in {Does(f).tag, None} /\ GetParamTag(f, i) = Does(f).tag
                         /\ Decls(f)[i].ref = Does(f).ref
BindingsAgree == \A b \in bound : TypeOf(b[1]) = Does(b[2])

\* The argument is the parameter of the caller, or what it points to.
GivesParameter(arg) == /\ arg.base = "param"
                       /\ LET rest == {i \in DOMAIN arg.ops : arg.ops[i] # "cast"}
                          IN  \A i \in rest : arg.ops[i] = "deref" /\ rest = {i}

\* The mark at the call site is that of the function executed, and a parameter that the
\* caller only borrows is not given to a function that takes it; and a reference is not null.
MarkedRight(c, f) ==
    /\ c.wrapper = IF Does(f).tag # None /\ unit.options[Does(f).tag] THEN Does(f).tag ELSE None
    /\ ~(Does(f).tag = "move" /\ Does(Caller).tag \in {"modify", "out"} /\ GivesParameter(c.arg))
    /\ ~(Does(f).ref /\ c.null)
CallsAgree == \A c \in executed : \A f, g \in c.targets : MarkedRight(c, f) /\ Does(f) = Does(g)

TagsWhereNeeded == /\ \A f \in Function : unit.const[f] = (Does(f).tag = None)
                   /\ \A v \in Variable : unit.type[v].const \/ unit.type[v].tag # None

\* The declarations are as rules.md has them: one in a header and a definition, and no tags
\* on pointers to const.
PlainDeclarations ==
    \A f \in Function : /\ Definition(f) = Len(Decls(f)) /\ Len(Decls(f)) <= 2
                        /\ unit.const[f] => \A i \in DOMAIN Decls(f) : Decls(f)[i].tag = None

\* A header and a definition that spell the type differently have different keys, and the rule
\* never compares their tags.
SpelledAlike == \A f \in Function : \A i, j \in DOMAIN Decls(f) : MakeKey(f, i) = MakeKey(f, j)

\* A call follows the type that its callee is cast to, which no rule compares with what is
\* cast; and a binding is not checked where a conditional is cast.
CalleesUncast    == \A e \in unit.work.callees : \A b \in Range(e) : b.casts = <<>>
NoCastConditional == \A e \in unit.work.sources : \A b \in Range(e) : Known(b)

\* Pointers are followed from the parameter and local pointers only, as in neither (&x)->f nor *a.
PlainArgument(arg) == \A i \in DOMAIN arg.ops :
    arg.ops[i] \in {"arrow", "deref"} => StripWrappers(arg, i - 1) = 0 /\ arg.base # "array"

\* When none of the rules reports anything, the ownership that each call site shows is what
\* the executed function does, and no reference is null, whatever pointers, casts and
\* conditionals it was reached through, and whichever declaration the call site saw; if the
\* declarations of a function spell the type of its parameter alike.
QuietCodeKeepsItsTags ==
    /\ Finished /\ PlainDeclarations /\ SpelledAlike /\ CalleesUncast /\ NoCastConditional
    /\ reports = {}
    => DeclarationsAgree /\ BindingsAgree /\ CallsAgree

\* And code whose tags agree is not reported by any of them.
CodeThatAgreesIsQuiet ==
    /\ TagsWhereNeeded /\ DeclarationsAgree /\ BindingsAgree /\ CallsAgree
    /\ CalleesUncast /\ \A c \in executed : PlainArgument(c.arg)
    /\ ~(assigned /\ Does(Caller).ref)
    => reports = {}
=============================================================================
