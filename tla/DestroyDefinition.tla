-------------------------- MODULE DestroyDefinition --------------------------
(***************************************************************************)
(* StructDestroyDefinitionRule: the destroy function of a raii struct      *)
(* destroys all of its raii fields together, in one block of its body or   *)
(* of an if there, each once, with no jump and no label in between, and on *)
(* request in the reverse order of their declaration.                      *)
(*                                                                         *)
(* A statement is a record Stmt(op, var, body, other) as in                *)
(* CleanupAnalyzer; "destroy" names a field, "label" has its statement as  *)
(* its body, and "goto" names a label.  A block's path is as there.        *)
(***************************************************************************)
EXTENDS CleanupAnalyzer, FiniteSets

NoBlock == <<0>>

FieldDestroy(field, block, position) ==
    [field |-> field, block |-> block, position |-> position]

RECURSIVE StripLabels(_), FindJump(_), FindLabel(_), CollectNested(_), CollectBlock(_, _, _)

StripLabels(s) == IF s.op = "label" THEN StripLabels(s.body[1]) ELSE s

Children(s) == s.body \o s.other

\* There is a return or a goto, or a label, inside a statement.
FindJump(s)  == s.op \in {"return", "goto"} \/ \E i \in DOMAIN Children(s) : FindJump(Children(s)[i])
FindLabel(s) == s.op = "label" \/ \E i \in DOMAIN Children(s) : FindLabel(Children(s)[i])

\* The destroys anywhere in a statement that is no allowed place.
CollectNested(s) ==
    (IF s.op = "destroy" THEN <<FieldDestroy(s.var, NoBlock, 0)>> ELSE <<>>)
    \o FlattenSeq([i \in DOMAIN Children(s) |-> CollectNested(Children(s)[i])])

\* The destroys in a block, of the function's body or of an if in it.
CollectBlock(block, path, isBody) ==
    LET At(i) == LET s == StripLabels(block[i])
                 IN  IF s.op = "destroy" THEN <<FieldDestroy(s.var, path, i)>>
                     ELSE IF s.op = "if" /\ isBody
                     THEN CollectBlock(s.body, Append(path, i), FALSE)
                          \o FlattenSeq([k \in DOMAIN s.other |-> CollectNested(s.other[k])])
                     ELSE CollectNested(block[i])
    IN  FlattenSeq([i \in DOMAIN block |-> At(i)])

\* The statements of the block at a path of CollectBlock's.
BlockAt(body, path) == IF path = <<>> THEN body ELSE StripLabels(body[path[1]]).body

\* Mutant: a label at the last destroy is overlooked.
InterruptedBefore(block, first, last) ==
    \E i \in (first + 1)..(last - 1) : FindJump(block[i]) \/ FindLabel(block[i])

\* Between two destroys stands a jump, or after the first a label.
Interrupted(block, first, last) ==
    \/ \E i \in (first + 1)..(last - 1) : FindJump(block[i])
    \/ \E i \in (first + 1)..last : FindLabel(block[i])

\* The codes that are reported, of a struct's raii fields in order.
CheckDestroyDefinition(fields, body, inReverseOrder) ==
    LET destroys == CollectBlock(body, <<>>, TRUE)
        Of(f)    == {k \in DOMAIN destroys : destroys[k].field = f}
        First(f) == CHOOSE k \in Of(f) : \A j \in Of(f) : k <= j
        firsts   == {First(f) : f \in {f \in ToSet(fields) : Of(f) # {}}}
        allowed  == {k \in firsts : destroys[k].block # NoBlock}
        group    == IF allowed = {} THEN NoBlock
                    ELSE destroys[CHOOSE k \in allowed : \A j \in allowed : k <= j].block
        placed   == {k \in allowed : destroys[k].block = group}
        between  == {destroys[k].position : k \in placed}
        Holds(code) ==
            CASE code = "RaiiFieldMultipleDestroyCalls" ->
                    \E f \in ToSet(fields) : Cardinality(Of(f)) > 1
              [] code = "RaiiFieldNotDestroyed" -> \E f \in ToSet(fields) : Of(f) = {}
              [] code = "RaiiFieldDestroyMisplaced" -> firsts # placed
              [] code = "RaiiFieldDestroysInterrupted" ->
                    /\ placed # {}
                    /\ Interrupted(BlockAt(body, group),
                                   CHOOSE i \in between : \A j \in between : i <= j,
                                   CHOOSE i \in between : \A j \in between : i >= j)
              [] code = "RaiiDestroyNotReverseOrder" ->
                    /\ inReverseOrder
                    /\ \E i, j \in DOMAIN fields : /\ i < j
                          /\ \E k, l \in placed : /\ destroys[k].field = fields[i]
                                                  /\ destroys[l].field = fields[j] /\ k < l
    IN  IF fields = <<>> THEN {}
        ELSE {code \in {"RaiiFieldMultipleDestroyCalls", "RaiiFieldNotDestroyed",
                        "RaiiFieldDestroyMisplaced", "RaiiFieldDestroysInterrupted",
                        "RaiiDestroyNotReverseOrder"} : Holds(code)}

-----------------------------------------------------------------------------
(* The function's execution, as C's: a sequence of instructions            *)

RECURSIVE Code(_)

Instr(op, arg, by) == [op |-> op, arg |-> arg, by |-> by]

CodeOf(block) == FlattenSeq([i \in DOMAIN block |-> Code(block[i])])

\* A branch goes on or skips as many instructions as it says.
Code(s) ==
    LET body  == CodeOf(s.body)
        other == CodeOf(s.other)
    IN  CASE s.op = "if"   -> <<Instr("branch", "", Len(body) + 1)>> \o body
                              \o <<Instr("jump", "", Len(other))>> \o other
          [] s.op = "while" -> <<Instr("branch", "", Len(body) + 1)>> \o body
                              \o <<Instr("jump", "", -(Len(body) + 2))>>
          [] s.op = "label" -> <<Instr("label", s.var, 0)>> \o body
          [] OTHER          -> <<Instr(s.op, s.var, 0)>>

LabelAt(code, l) == CHOOSE i \in DOMAIN code : code[i].op = "label" /\ code[i].arg = l

\* The instructions that may be executed next; what is no index is the end.
Successors(code, pc) ==
    LET i == code[pc]
    IN  CASE i.op = "return" -> {Len(code) + 1}
          [] i.op = "goto"   -> {LabelAt(code, i.arg)}
          [] i.op = "jump"   -> {pc + 1 + i.by}
          [] i.op = "branch" -> {pc + 1, pc + 1 + i.by}
          [] OTHER           -> {pc + 1}

\* A goto jumps back over a destroy.
GoesBack(code) ==
    \E i \in DOMAIN code : code[i].op = "goto" /\ \E k \in LabelAt(code, code[i].arg)..i : code[k].op = "destroy"
=============================================================================
