--------------------------- MODULE StructDatabase ----------------------------
(***************************************************************************)
(* What WorkshopC knows of the structs of a translation unit: a struct is  *)
(* a free, a pod or a raii struct by the one creator function that is      *)
(* declared for it (StructDatabase, and StructDatabaseRule, which fills it *)
(* and reports what is missing).  A declaration is a record: of the struct *)
(* [what, struct, vtable, ignored], or of a function whose name is a       *)
(* struct's name and a configured suffix [what, struct, suffix, fits,      *)
(* ignored], where fits says that its signature is the one expected.       *)
(***************************************************************************)
EXTENDS Integers, Sequences, SequencesExt, FiniteSets

Creators == {"free", "pod", "raii"}
Helpers  == {"destroy", "copy", "move", "return", "valid"}
FunctionKind == Creators \cup Helpers \cup {"arrayDestroy"}

Declarations == [what : {"struct", "function"}, struct : STRING, suffix : STRING, fits : BOOLEAN,
                 vtable : BOOLEAN, ignored : BOOLEAN]
Declaration(what, struct) ==
    [what |-> what, struct |-> struct, suffix |-> "", fits |-> TRUE, vtable |-> FALSE,
     ignored |-> FALSE]
StructDecl(s) == Declaration("struct", s)
FunctionDecl(s, suffix) == [Declaration("function", s) EXCEPT !.suffix = suffix]

StructInfo == [decl |-> FALSE, has |-> {}, freeWithoutCreator |-> FALSE, kind |-> "Invalid"]

NoStructs == [s \in {} |-> StructInfo]

\* structs[name]: what is there, or a new StructInfo.
Info(db, s) == IF s \in DOMAIN db THEN db[s] ELSE StructInfo
With(db, s, info) == [n \in DOMAIN db \cup {s} |-> IF n = s THEN info ELSE db[n]]

\* Mutant: the definition of a struct forgets the functions declared before it.
RegisterStructAfresh(db, d) ==
    With(db, d.struct, [StructInfo EXCEPT !.decl = TRUE, !.freeWithoutCreator = d.vtable])

RegisterStruct(db, d) ==
    LET info == Info(db, d.struct)
    IN  With(db, d.struct, [decl |-> TRUE, has |-> info.has, kind |-> info.kind,
                            freeWithoutCreator |-> info.freeWithoutCreator \/ d.vtable])

RegisterFunction(db, d) ==
    With(db, d.struct, [Info(db, d.struct) EXCEPT !.has = @ \cup {d.suffix}])

\* A declaration that is suppressed, of a system header or of a third party is not seen.
Visit(db, d) ==
    IF d.ignored THEN db
    ELSE IF d.what = "struct" THEN RegisterStruct(db, d)
    ELSE IF d.fits THEN RegisterFunction(db, d)
    ELSE db

KindFor(info) ==
    LET creators == info.has \cap Creators
    IN  IF creators = {} /\ info.freeWithoutCreator THEN "Free"
        ELSE IF Cardinality(creators) # 1 THEN "Invalid"
        ELSE IF "free" \in creators THEN "Free"
        ELSE IF "pod" \in creators THEN "Pod"
        ELSE "Raii"

Finalize(db) == [s \in DOMAIN db |-> [db[s] EXCEPT !.kind = KindFor(db[s])]]
KindOf(db, s) == Info(db, s).kind
Known(db, s)  == s \in DOMAIN db

\* StructDatabaseRule::finalize
DatabaseReports(db) ==
    {<<"StructInvalidConstructor", s>> :
        s \in {s \in DOMAIN db : db[s].kind = "Invalid" /\ db[s].decl}}
    \cup UNION {{<<"StructMissing", s, h>> : h \in Helpers \ db[s].has} :
        s \in {s \in DOMAIN db : db[s].kind = "Raii" /\ db[s].decl}}
=============================================================================
