---------------------------- MODULE ConfigReader ----------------------------
(***************************************************************************)
(* How ConfigParser (WorkshopC/src/config_parser.cpp) reads the lines of a *)
(* configuration file.                                                     *)
(***************************************************************************)
EXTENDS ConfigFile

ParseLevel(v) == IF v \in {<<"Off">>, <<"Warning">>, <<"Error">>} THEN v ELSE <<"Warning">>
ParseBool(v)  == IF v \in {<<"true">>, <<"yes">>, <<"1">>} THEN <<"true">> ELSE <<"false">>

\* std::stoi reads the number the text starts with.
Numerals == {"-1", "0", "1", "10", "20"}
ParseInt(v, fallback) == IF v # <<>> /\ v[1] \in Numerals THEN <<v[1]>> ELSE fallback

Unquote(v) == IF Len(v) >= 2 /\ Head(v) \in {"'", "\""} /\ Last(v) = Head(v)
              THEN SubSeq(v, 2, Len(v) - 1) ELSE v
\* Text that was given in two pairs of quotes still has one of them.
Quoted(v)  == Unquote(v) # v

ParseInlineList(v) == IF Len(v) >= 2 /\ Head(v) = "[" /\ Last(v) = "]"
                      THEN SubSeq(v, 2, Len(v) - 1) ELSE <<>>

\* The value of a setting after a line that gives it v.
Parse(kind, old, v) ==
    CASE kind = "level"    -> ParseLevel(v)
      [] kind = "flag"     -> ParseBool(v)
      [] kind = "number"   -> ParseInt(v, old)
      [] kind = "unquoted" -> Unquote(v)
      [] kind = "list"     -> ParseInlineList(v)
      [] kind = "legacy"   -> <<"given">>
      [] OTHER -> v

ApplyRuleSetting(c, r, k, v) ==
    IF r \in Rules /\ k \in DOMAIN Settings[r]
    THEN [c EXCEPT !.rules[r][k] = Parse(KindOf(r, k), @, v)] ELSE c

ApplyRuleListItem(c, r, k, v) ==
    IF r \in Rules /\ k \in DOMAIN Settings[r] /\ Unquote(v) # <<>> /\ KindOf(r, k) = "list"
    THEN [c EXCEPT !.rules[r][k] = @ \o Unquote(v)] ELSE c

\* loadFromStream before the first line: which section and rule the lines are of, and to
\* which list the items go.
Reader == [config |-> Config, section |-> "", rule |-> "", indent |-> 0, listKey |-> "",
           inThirdParty |-> FALSE]

ReadItem(s, l) ==
    IF s.listKey # ""
    THEN [s EXCEPT !.config = ApplyRuleListItem(@, s.rule, s.listKey, l.value)]
    ELSE IF s.inThirdParty
    THEN [s EXCEPT !.config.thirdPartyIncludes = Append(@, l.value)] ELSE s

\* `key:` below rules is a list of the current rule or, not deeper than it, the next rule.
ReadRuleHead(s, l) ==
    IF s.rule # "" /\ l.indent > s.indent THEN [s EXCEPT !.listKey = l.key]
    ELSE [s EXCEPT !.rule = l.key, !.indent = l.indent, !.listKey = ""]

ReadTopSetting(s, l) ==
    [s EXCEPT !.inThirdParty = FALSE,
              !.config.compileCommandsDir =
                  IF l.key = "compile_commands_dir" THEN Unquote(l.value) ELSE @]

ReadRuleSetting(s, l) ==
    IF s.rule = "" THEN s
    ELSE [s EXCEPT !.listKey = "", !.config = ApplyRuleSetting(@, s.rule, l.key, l.value)]

\* The heads of sections, and all other heads but the one list outside of them.
Sections  == {"paths", "rules"}
IsHead(l) == l.form = "head" /\ l.key \notin Sections \cup {"third_party_includes"}

\* Lines that are read alike in every section.
ReadLine(s, l) ==
    CASE l.form = "note" -> s
      [] l.form = "item" -> ReadItem(s, l)
      [] l.form = "head" /\ l.key \in Sections ->
           [s EXCEPT !.section = l.key, !.rule = "", !.listKey = "", !.inThirdParty = FALSE]
      [] l.form = "head" /\ l.key = "third_party_includes" -> [s EXCEPT !.inThirdParty = TRUE]

ReadRuleLine(s, l) == CASE IsHead(l)       -> ReadRuleHead(s, l)
                        [] l.form = "pair" -> ReadRuleSetting(s, l)
                        [] OTHER           -> ReadLine(s, l)

ReadTopLine(s, l) == CASE IsHead(l)       -> [s EXCEPT !.inThirdParty = FALSE]
                       [] l.form = "pair" -> ReadTopSetting(s, l)
                       [] OTHER           -> ReadLine(s, l)

ReadNext(s, l) == IF s.section = "rules" THEN ReadRuleLine(s, l) ELSE ReadTopLine(s, l)

\* The loop over the lines: what is known after the first n of them.  It is kept in a record
\* for TLC, which then reads the lines before n ahead of line n and not in the midst of it.
Reading(lines) ==
    LET after[n \in 0..Len(lines)] ==
            IF n = 0 THEN [reader |-> Reader]
            ELSE [after[n - 1] EXCEPT !.reader = ReadNext(@, lines[n])]
    IN  after

LoadFromStream(lines) == Reading(lines)[Len(lines)].reader.config
=============================================================================
