-------------------------- MODULE PrefixNamespace --------------------------
(***************************************************************************)
(* PrefixNamespaceRule (WorkshopC/src/rule_prefix_namespace.cpp): what the *)
(* names and the include guard of a header are expected to be.  Both are   *)
(* made from the path by which the file was included, name by name as it   *)
(* is spelled, with its .. left in.                                        *)
(*                                                                         *)
(* A path is the sequence of its names; dotted are the names with a dot in *)
(* them.  Names that the rule compares alike are one name; a prefix is the *)
(* sequence of its folders, and a guard that of its names.                 *)
(***************************************************************************)
EXTENDS ConfigFile

Setting(c, k) == c.rules["prefix_namespace"][k]

\* The names after the first one that is the top folder; without a top folder, all of them.
\* buildIncludeGuardName joins them.
BelowTop(c, path) ==
    LET at == SelectInSeq(path, LAMBDA name : <<name>> = Setting(c, "top_dir"))
    IN  IF Setting(c, "top_dir") = <<>> THEN path
        ELSE IF at = 0 THEN <<>> ELSE SubSeq(path, at + 1, Len(path))

\* extractDirs stops at the first name with a dot, of a file or a folder.
ExtractDirs(c, dotted, path) ==
    LET names == BelowTop(c, path)
        at    == SelectInSeq(names, LAMBDA name : name \in dotted)
    IN  IF at = 0 THEN names ELSE SubSeq(names, 1, at - 1)

StopAtCount(c) == CHOOSE n \in 0..20 : Setting(c, "stop_at_count") = <<ToString(n)>>

\* The first or the last of the folders.
BuildPrefix(c, dotted, path) ==
    LET dirs == ExtractDirs(c, dotted, path)
        n    == Min({StopAtCount(c), Len(dirs)})
    IN  IF IsTrue(c, "prefix_namespace", "work_from_top")
        THEN SubSeq(dirs, 1, n) ELSE SubSeq(dirs, Len(dirs) - n + 1, Len(dirs))

\* checkName: the folders that a name starts with.
MissesPrefix(prefix, name) == prefix # <<>> /\ ~IsPrefix(prefix, name)

\* The first #ifndef, or 0.
GuardLine(lines) == SelectInSeq(lines, LAMBDA line : "guard" \in line)

\* checkIncludeGuard: the first #ifndef of the file names its path, or is suppressed.
GuardIsMissing(c, path, guard, suppressed) ==
    /\ IsTrue(c, "prefix_namespace", "require_ifndef_for_filepath")
    /\ BelowTop(c, path) # <<>>
    /\ guard = <<>> \/ (guard # BelowTop(c, path) /\ ~suppressed)
=============================================================================
