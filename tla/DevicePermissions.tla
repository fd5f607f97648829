------------------------- MODULE DevicePermissions -------------------------
(***************************************************************************)
(* The rules for the permissions of device nodes: a rule is a record of    *)
(* the paths that its pattern matches (whether by name, as a prefix or as  *)
(* a wildcard) and of the permissions.                                     *)
(***************************************************************************)
EXTENDS Integers, Sequences, SequencesExt

Match(rule, path) == path \in rule.paths

\* Variant: the rules are searched from the first.
FirstRuleFor(rules, path, links) ==
  LET Applies(rule) == Match(rule, path) \/ \E l \in links : Match(rule, l)
  IN  SelectInSeq(rules, Applies)

\* The index of the rule for a node with these links, 0 if there is none: the last that
\* matches the node or any of the links.
RuleFor(rules, path, links) ==
  LET Applies(rule) == Match(rule, path) \/ \E l \in links : Match(rule, l)
  IN  SelectLastInSeq(rules, Applies)

GetDevicePermissions(rules, path, links, default) ==
  IF RuleFor(rules, path, links) = 0 THEN default ELSE rules[RuleFor(rules, path, links)].perm
=============================================================================
