-------------------------- MODULE ReferencePointers --------------------------
(***************************************************************************)
(* The arguments of a call: when WorkshopC takes one for a reference, and  *)
(* when it may be null.  An argument is a base (the parameter or a local   *)
(* pointer of the function that makes the call, an object, an array, or    *)
(* null) and the operators applied to it, the innermost first: address,    *)
(* deref, arrow (an array field reached through a pointer), dot (the same  *)
(* of an object), index, and cast, which stands for the operator wrappers  *)
(* too.  Its first n operators give its n-th subexpression.                *)
(***************************************************************************)
EXTENDS Integers, Sequences

Argument == [base : {"param", "local", "object", "array", "null"},
             ops  : Seq({"address", "deref", "arrow", "dot", "index", "cast"})]

Outermost(e, n) == IF n = 0 THEN e.base ELSE e.ops[n]

-----------------------------------------------------------------------------
(* The rule.  ref: the parameter of the caller has the reference tag.      *)

\* The subexpression below the casts of the n-th one.
StripWrappers(e, n) == CHOOSE k \in 0..n : /\ Outermost(e, k) # "cast"
                                           /\ \A i \in (k + 1)..n : e.ops[i] = "cast"

IsReference(e, n, ref) == e.base = "param" /\ StripWrappers(e, n) = 0 /\ ref

IsArray(e, n) == Outermost(e, n) \in {"array", "arrow", "dot"}

\* An object whose address can never be null: a variable, or what a reference points to,
\* or a field of one, or an element of an array in one.
IsObject(e, n, ref) ==
    \E k \in 0..n :
        /\ \/ k = 0 /\ e.base # "null"
           \/ k > 0 /\ e.ops[k] \in {"arrow", "deref"} /\ IsReference(e, k - 1, ref)
        /\ \A i \in (k + 1)..n : e.ops[i] = "dot" \/ (e.ops[i] = "index" /\ IsArray(e, i - 1))

IsValidArgument(e, ref) ==
    LET n == StripWrappers(e, Len(e.ops))
    IN  \/ IsReference(e, n, ref)
        \/ Outermost(e, n) = "address" /\ IsObject(e, n - 1, ref)
        \/ IsArray(e, n) /\ IsObject(e, n, ref)

-----------------------------------------------------------------------------
(* C.  nonNull: the parameter of the caller points to an object.  What is  *)
(* certain of a subexpression: "exists", it designates an object in every  *)
(* execution; "points", its value is a pointer to one.                     *)

OfBase(e, nonNull) ==
    {c \in {"exists"} : e.base # "null"}
    \cup {c \in {"points"} : e.base = "array" \/ (e.base = "param" /\ nonNull)}

\* The n-th operator, applied to a subexpression of which v is certain.
Apply(e, n, v) ==
    LET op == e.ops[n]
        exists == \/ op \in {"arrow", "deref"} /\ "points" \in v
                  \/ op = "dot" /\ "exists" \in v
                  \/ op = "index" /\ IsArray(e, n - 1) /\ "exists" \in v
    IN  {c \in {"exists"} : exists}
        \cup {c \in {"points"} : \/ op = "cast" /\ "points" \in v
                                 \/ op = "address" /\ "exists" \in v
                                 \/ op \in {"arrow", "dot"} /\ exists}

Values(e, nonNull) ==
    LET v[n \in 0..Len(e.ops)] == IF n = 0 THEN OfBase(e, nonNull) ELSE Apply(e, n, v[n - 1])
    IN  v

\* The argument may be null, or reached through a null pointer.
Null(e, nonNull) == "points" \notin Values(e, nonNull)[Len(e.ops)]
=============================================================================
