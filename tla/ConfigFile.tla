----------------------------- MODULE ConfigFile -----------------------------
(***************************************************************************)
(* ConfigParser (WorkshopC/src/config_parser.cpp) and the settings of      *)
(* config.hpp: how a configuration file is read, checked and written       *)
(* (--dump-config).                                                        *)
(*                                                                         *)
(* A line of a file is a record [form, indent, key, value]: "head" for     *)
(* `key:`, "pair" for `key: value`, "item" for `- value`, "note" for a     *)
(* comment or an empty line. A value is the sequence of its words, where   *)
(* quotes, brackets and what a `#` starts are words too: <<"Off">>,        *)
(* <<"'", "g_", "'">>, <<"[", "f", "g", "]">>. Read settings have the same *)
(* form: a level, a Boolean and a number are one word, an empty text none. *)
(***************************************************************************)
EXTENDS Integers, Sequences, SequencesExt

ConfigLine == [form : {"head", "pair", "item", "note"}, indent : Nat, key : STRING,
               value : Seq(STRING)]

\* The settings of a kind that the rule's applySetting reads.
Kind(keys, kind) == [key \in keys |-> kind]
Flags(keys)      == Kind(keys, "flag")
Texts(keys)      == Kind(keys, "text")
Level            == Kind({"level"}, "level")
f ++ g == [key \in DOMAIN f \cup DOMAIN g |-> IF key \in DOMAIN f THEN f[key] ELSE g[key]]

\* What each applySetting reads.
EnumSettings    == Level ++ Flags({"allow_enum_typedef"})
PrivateSettings == Level ++ Texts({"private_field", "getter_contains", "setter_contains"})
AssignmentSettings ==
    Level ++ Flags({"forbid_zero_init_for_objects_with_pointers", "forbid_null_assign",
                    "forbid_mut_arg_pointer", "forbid_arg_reassign", "forbid_null_as_arg"})
PrefixNamespaceSettings ==
    Level ++ Texts({"top_dir", "separator"}) ++ Kind({"stop_at_count"}, "number")
    ++ Flags({"work_from_top", "use_separator", "require_ifndef_for_filepath",
              "apply_to_functions", "apply_to_structs", "apply_to_typedefs",
              "case_insensitive"})
NullCheckSettings == Level ++ Flags({"allow_direct_ptr_in_if_statement"})
ArgumentPointerMovementSettings ==
    Level ++ Flags({"require_operator_for_move_callsite", "require_operator_for_out_callsite",
                    "require_operator_for_modify_callsite"})
StructResourceManagementSettings ==
    Level ++ Texts({"pod_struct_creator_suffix", "raii_struct_creator_suffix",
                    "raii_struct_destroyer_suffix", "raii_struct_copy_suffix",
                    "raii_struct_move_suffix", "raii_struct_return_suffix",
                    "raii_struct_valid_suffix", "free_struct_creator_suffix",
                    "raii_struct_array_destroyer_suffix"})
    ++ Flags({"allow_raii_struct_arrays", "raii_use_after_destroy",
              "raii_may_only_move_value_ref", "raii_may_only_destroy_value_ref",
              "raii_destroy_in_reverse_order", "raii_standardized_destroy_definitions"})
InterfacesSettings ==
    Level ++ Texts({"vtable_suffix", "interface_suffix", "const_interface_suffix"})
    ++ Flags({"interface_must_have_fields_that_are_private_alternative"})
RestrictedMallocSettings == Level ++ Kind({"list_of_allowed_malloc_functions"}, "list")
SingleReturnSettings == Level ++ Flags({"allow_early_return", "require_return_for_void"})
GlobalVariableSettings ==
    Level ++ Flags({"must_be_static", "must_be_const", "forbid_static_in_header",
                    "mutable_require_prefix", "mutable_must_be_caps",
                    "const_require_prefix", "const_must_be_caps",
                    "mutable_local_static_require_prefix", "mutable_local_static_must_be_caps",
                    "const_local_static_require_prefix", "const_local_static_must_be_caps"})
    ++ Kind({"mutable_prefix", "const_prefix", "mutable_local_static_prefix",
             "const_local_static_prefix"}, "unquoted")
    ++ Kind({"require_prefix", "prefix", "must_be_caps", "local_static_prefix",
             "treat_local_static_as_global", "require_local_static_prefix"}, "legacy")
ReferencePointerSettings == Level ++ Flags({"disable_null_check_rule_for_reference_pointers"})
ArrayStructSettings ==
    Level ++ Texts({"flexible_size_name", "array_struct_suffix"})
    ++ Flags({"only_allow_array_passing_to_library_functions",
              "enforce_size_suffix_for_array_structs", "size_suffix_with_underscore",
              "enforce_suffix_for_array_structs", "struct_name_as_prefix",
              "use_naming_rules_on_one_array_field_structs_without_forbidding_public_arrays"})
SpanStructSettings ==
    Level ++ Texts({"span_struct_suffix", "const_span_struct_suffix"})
    ++ Flags({"only_allow_array_passing_to_library_functions_and_spans",
              "allow_string_literals_as_const_char_arguments",
              "allow_spans_to_be_given_fewer_elements_than_their_size",
              "require_span_immediately_after_array",
              "only_allow_span_data_passing_in_one_line_static_functions",
              "allow_pod_span_to_be_initialized_manually_if_static"})

\* The names applyRuleSetting dispatches on.
Rules == {"suppression_reason_rule", "enum", "private", "private_alternative", "function_pointer",
          "typedef_struct", "assignment", "prefix_namespace", "null_check",
          "argument_pointer_movement", "struct_resource_management", "interfaces",
          "restricted_malloc", "single_return", "strict_switch", "global_variable",
          "reference_pointer", "function_discard", "array_struct", "span_struct", "const_field",
          "no_goto"}

Settings ==
    [r \in Rules |->
        CASE r = "enum"              -> EnumSettings
          [] r = "private"           -> PrivateSettings
          [] r = "assignment"        -> AssignmentSettings
          [] r = "prefix_namespace"  -> PrefixNamespaceSettings
          [] r = "null_check"        -> NullCheckSettings
          [] r = "argument_pointer_movement"  -> ArgumentPointerMovementSettings
          [] r = "struct_resource_management" -> StructResourceManagementSettings
          [] r = "interfaces"        -> InterfacesSettings
          [] r = "restricted_malloc" -> RestrictedMallocSettings
          [] r = "single_return"     -> SingleReturnSettings
          [] r = "global_variable"   -> GlobalVariableSettings
          [] r = "reference_pointer" -> ReferencePointerSettings
          [] r = "array_struct"      -> ArrayStructSettings
          [] r = "span_struct"       -> SpanStructSettings
          [] OTHER                   -> Level]

KindOf(r, k) == Settings[r][k]

\* The settings that are not off, false or empty when a file does not give them.
InitiallyOn == {"raii_use_after_destroy", "allow_early_return", "require_return_for_void",
                "size_suffix_with_underscore"}
Default(r, k) ==
    CASE KindOf(r, k) = "level"  -> <<"Off">>
      [] KindOf(r, k) = "number" -> <<"10">>
      [] KindOf(r, k) = "flag"   -> IF k \in InitiallyOn THEN <<"true">> ELSE <<"false">>
      [] OTHER -> <<>>

\* A legacy setting is only remembered as given (legacySettings).
Config == [rules |-> [r \in Rules |-> [k \in DOMAIN Settings[r] |-> Default(r, k)]],
           thirdPartyIncludes |-> <<>>, compileCommandsDir |-> <<>>]

-----------------------------------------------------------------------------
(* Writing                                                                 *)

Note          == [form |-> "note", indent |-> 0, key |-> "", value |-> <<>>]
HeadAt(n, k)  == [form |-> "head", indent |-> n, key |-> k, value |-> <<>>]
Pair(n, k, v) == [form |-> "pair", indent |-> n, key |-> k, value |-> v]
Item(n, v)    == [form |-> "item", indent |-> n, key |-> "", value |-> v]

\* The keys of each rule in the order in which writeConfig writes them, one rule after the
\* other; what is given here is written, whatever applySetting reads.
WrittenFirst == <<
    <<"suppression_reason_rule", <<"level">> >>,
    <<"enum", <<"level", "allow_enum_typedef">> >>,
    <<"private", <<"level", "private_field", "getter_contains", "setter_contains">> >>,
    <<"private_alternative", <<"level">> >>,
    <<"function_pointer", <<"level">> >>,
    <<"typedef_struct", <<"level">> >>,
    <<"assignment", <<"level", "forbid_zero_init_for_objects_with_pointers",
        "forbid_null_assign", "forbid_mut_arg_pointer", "forbid_arg_reassign",
        "forbid_null_as_arg">> >>,
    <<"prefix_namespace", <<"level", "top_dir", "work_from_top", "stop_at_count",
        "use_separator", "separator", "require_ifndef_for_filepath", "apply_to_functions",
        "apply_to_structs", "apply_to_typedefs", "case_insensitive">> >>,
    <<"null_check", <<"level", "allow_direct_ptr_in_if_statement">> >>,
    <<"argument_pointer_movement", <<"level", "require_operator_for_move_callsite",
        "require_operator_for_out_callsite", "require_operator_for_modify_callsite">> >>,
    <<"struct_resource_management", <<"level", "pod_struct_creator_suffix",
        "raii_struct_creator_suffix", "raii_struct_destroyer_suffix",
        "raii_struct_copy_suffix", "raii_struct_move_suffix", "raii_struct_return_suffix",
        "raii_struct_valid_suffix", "free_struct_creator_suffix", "allow_raii_struct_arrays",
        "raii_struct_array_destroyer_suffix", "raii_use_after_destroy",
        "raii_may_only_move_value_ref", "raii_may_only_destroy_value_ref",
        "raii_destroy_in_reverse_order", "raii_standardized_destroy_definitions">> >> >>

WrittenNext == <<
    <<"interfaces", <<"level", "vtable_suffix", "interface_suffix", "const_interface_suffix",
        "interface_must_have_fields_that_are_private_alternative">> >>,
    <<"restricted_malloc", <<"level", "list_of_allowed_malloc_functions">> >>,
    <<"single_return", <<"level", "allow_early_return", "require_return_for_void">> >>,
    <<"strict_switch", <<"level">> >>,
    <<"global_variable", <<"level", "must_be_static", "must_be_const",
        "forbid_static_in_header", "mutable_require_prefix", "mutable_prefix",
        "mutable_must_be_caps", "const_require_prefix", "const_prefix", "const_must_be_caps",
        "mutable_local_static_require_prefix", "mutable_local_static_prefix",
        "mutable_local_static_must_be_caps", "const_local_static_require_prefix",
        "const_local_static_prefix", "const_local_static_must_be_caps">> >>,
    <<"reference_pointer", <<"level", "disable_null_check_rule_for_reference_pointers">> >>,
    <<"function_discard", <<"level">> >>,
    <<"array_struct", <<"level", "only_allow_array_passing_to_library_functions",
        "enforce_size_suffix_for_array_structs", "size_suffix_with_underscore",
        "flexible_size_name", "enforce_suffix_for_array_structs", "array_struct_suffix",
        "struct_name_as_prefix",
        "use_naming_rules_on_one_array_field_structs_without_forbidding_public_arrays">> >>,
    <<"span_struct", <<"level", "span_struct_suffix", "const_span_struct_suffix",
        "only_allow_array_passing_to_library_functions_and_spans",
        "allow_string_literals_as_const_char_arguments",
        "only_allow_span_data_passing_in_one_line_static_functions",
        "allow_spans_to_be_given_fewer_elements_than_their_size",
        "require_span_immediately_after_array",
        "allow_pod_span_to_be_initialized_manually_if_static">> >>,
    <<"const_field", <<"level">> >>,
    <<"no_goto", <<"level">> >> >>

Written == WrittenFirst \o WrittenNext

\* A list has a line for each of its items.
WriteList(n, k, list) ==
    IF list = <<>> THEN << Pair(n, k, <<"[", "]">>) >>
    ELSE << HeadAt(n, k) >> \o [i \in DOMAIN list |-> Item(n + 2, << list[i] >>)]

\* Empty texts are left out.
WriteSetting(c, r, k) ==
    LET value == c.rules[r][k]
        kind  == KindOf(r, k)
    IN  CASE kind = "list" -> WriteList(4, k, value)
          [] kind \in {"text", "unquoted"} -> IF value = <<>> THEN <<>> ELSE << Pair(4, k, value) >>
          [] OTHER -> << Pair(4, k, value) >>

WriteRule(c, r, keys) ==
    << Note, HeadAt(2, r) >> \o FlattenSeq([i \in DOMAIN keys |-> WriteSetting(c, r, keys[i])])

\* Mutant: the list is written on one line, which the reader does not take for a list.
WriteThirdPartyInline(c) ==
    << Pair(0, "third_party_includes", <<"[">> \o FlattenSeq(c.thirdPartyIncludes) \o <<"]">>) >>

WriteThirdParty(c) ==
    IF c.thirdPartyIncludes = <<>> THEN << Pair(0, "third_party_includes", <<"[", "]">>) >>
    ELSE << HeadAt(0, "third_party_includes") >>
         \o [i \in DOMAIN c.thirdPartyIncludes |-> Item(2, c.thirdPartyIncludes[i])]

WriteConfig(c) ==
    WriteThirdParty(c)
    \o (IF c.compileCommandsDir = <<>> THEN <<>>
        ELSE << Pair(0, "compile_commands_dir", c.compileCommandsDir) >>)
    \o << HeadAt(0, "rules") >>
    \o FlattenSeq([i \in DOMAIN Written |-> WriteRule(c, Written[i][1], Written[i][2])])

-----------------------------------------------------------------------------
(* Checking                                                                *)

LevelOf(c, r)   == c.rules[r]["level"][1]
IsOn(c, r)      == LevelOf(c, r) # "Off"
IsTrue(c, r, k) == c.rules[r][k] = <<"true">>

\* requireString: the texts that a rule needs when it is not Off.
Required(c) ==
    {s \in {<<"private", k>> : k \in {"private_field", "getter_contains", "setter_contains"}}
         \cup {<<"prefix_namespace", k>> : k \in {"top_dir", "separator"}}
         \cup {<<"struct_resource_management", k>> :
                   k \in {t \in DOMAIN Settings["struct_resource_management"] :
                              /\ KindOf("struct_resource_management", t) = "text"
                              /\ t = "raii_struct_array_destroyer_suffix" =>
                                   IsTrue(c, "struct_resource_management",
                                          "allow_raii_struct_arrays")}}
         \cup {<<"interfaces", k>> : k \in {"vtable_suffix", "interface_suffix",
                                            "const_interface_suffix"}}
         \cup {<<"global_variable", p[2]>> :
                   p \in {q \in {<<"mutable_require_prefix", "mutable_prefix">>,
                                 <<"const_require_prefix", "const_prefix">>,
                                 <<"mutable_local_static_require_prefix",
                                   "mutable_local_static_prefix">>,
                                 <<"const_local_static_require_prefix",
                                   "const_local_static_prefix">>} :
                              IsTrue(c, "global_variable", q[1])}}
         \cup {<<"array_struct", k>> : k \in {"flexible_size_name", "array_struct_suffix"}}
         \cup {<<"span_struct", k>> : k \in {"span_struct_suffix", "const_span_struct_suffix"}} :
     IsOn(c, s[1])}

\* addSetting and requireDistinct: no two of the texts name the same thing.
Distinct(c, settings) ==
    \A a, b \in {s \in settings : IsOn(c, s[1]) /\ c.rules[s[1]][s[2]] # <<>>} :
        a # b => c.rules[a[1]][a[2]] # c.rules[b[1]][b[2]]

StructFunctions(c) == {s \in Required(c) : s[1] = "struct_resource_management"}
StructNames(c)     == {s \in Required(c) : s[1] \in {"interfaces", "array_struct", "span_struct"}}

\* requireRuleOn: the setting k of r needs the rule needed.
RequireRuleOn(c, r, k, needed) == IsOn(c, r) /\ IsTrue(c, r, k) => IsOn(c, needed)

NoLegacySettings(c) ==
    \A k \in DOMAIN Settings["global_variable"] :
        KindOf("global_variable", k) = "legacy" => c.rules["global_variable"][k] = <<>>

\* The folders, compared without ./ before and / behind them.
TopDirIsOurs(c) ==
    LET topDir == c.rules["prefix_namespace"]["top_dir"]
    IN  IsOn(c, "prefix_namespace") =>
          /\ c.rules["prefix_namespace"]["stop_at_count"] # <<"-1">>
          /\ topDir # <<>> =>
                \A i \in DOMAIN c.thirdPartyIncludes : c.thirdPartyIncludes[i] # topDir

NamingRulesNameSomething(c) ==
    /\ IsOn(c, "array_struct")
    /\ IsTrue(c, "array_struct",
              "use_naming_rules_on_one_array_field_structs_without_forbidding_public_arrays")
    => \E k \in {"enforce_size_suffix_for_array_structs", "enforce_suffix_for_array_structs",
                 "struct_name_as_prefix"} : IsTrue(c, "array_struct", k)

ValidateConfig(c) ==
    /\ \A s \in Required(c) : c.rules[s[1]][s[2]] # <<>>
    /\ NoLegacySettings(c)
    /\ TopDirIsOurs(c)
    /\ Distinct(c, StructFunctions(c)) /\ Distinct(c, StructNames(c))
    /\ NamingRulesNameSomething(c)
    /\ RequireRuleOn(c, "span_struct", "allow_pod_span_to_be_initialized_manually_if_static",
                     "struct_resource_management")
    /\ RequireRuleOn(c, "interfaces",
                     "interface_must_have_fields_that_are_private_alternative",
                     "private_alternative")
    /\ RequireRuleOn(c, "reference_pointer", "disable_null_check_rule_for_reference_pointers",
                     "null_check")
=============================================================================
