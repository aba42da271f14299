----------------------------- MODULE Validator -----------------------------
(***************************************************************************)
(* The checks a parse tree must pass to compile: policy::validation.  A    *)
(* validator is a sequence of rules.  Every policy and every node of the   *)
(* tree is checked by the conditions of the first rule that has its type.  *)
(*                                                                         *)
(* A path is a node and its ancestors, nearest first, the root last; like  *)
(* a path of types, it does not tell two equal siblings apart.  That a     *)
(* policy is in a node only once (despecialised_unique_in_owner) is so by  *)
(* the form of a node here.                                                *)
(***************************************************************************)
EXTENDS LeafNodes

\* tree_type_recursor from the first node of a path: all paths below it, but
\* not into children of the types to skip
RECURSIVE PathsFrom(_, _)
PathsFrom(path, skip) ==
  {path} \cup UNION {PathsFrom(<<child>> \o path, skip) :
                       child \in {c \in ToSet(Head(path).children) : c.type \notin skip}}

IsMode(node) == node.type = "mode"

\* The types of a node's policies
PolicyTypes(node) ==
  node.policies \cup {p \in {"long_name", "short_name", "none_name", "description", "router"} :
                        \/ p = "long_name"   /\ HasLong(node)
                        \/ p = "short_name"  /\ HasShort(node)
                        \/ p = "none_name"   /\ HasNone(node)
                        \/ p = "description" /\ node.description # <<>>
                        \/ p = "router"      /\ node.router}

\* A name policy's type holds the text.
NamePolicy(policy, node) ==
  CASE policy = "long_name"  -> <<policy, node.long>>
    [] policy = "short_name" -> <<policy, node.short>>
    [] policy = "none_name"  -> <<policy, node.none>>

NamePolicies(node) ==
  {NamePolicy(p, node) : p \in PolicyTypes(node) \cap {"long_name", "short_name", "none_name"}}
-----------------------------------------------------------------------------
\* Mutant of UniqueUpToMode: nothing is compared
UniqueUpToModeAlways(policy, path) == TRUE

\* policy_unique_from_owner_parent_to_mode_or_root: no other node below the
\* nearest mode, or the root, has this policy.  The nearest mode may be the
\* owner itself.
UniqueUpToMode(policy, path) ==
  LET mode == SelectInSeq(path, IsMode)
      own  == SubSeq(path, 1, IF mode = 0 THEN Len(path) ELSE mode)
  IN  Len(path) > 1 =>
        \A other \in PathsFrom(<<Last(own)>>, {"mode"}) \ {own} :
           NamePolicy(policy, Head(path)) \notin NamePolicies(Head(other))

\* parent_types: one of the pairs of an index in the ancestry and a type
\* matches; parents are those of the policy or node.
ParentTypes(parents, pairs) ==
  \E pair \in pairs : pair[1] \in DOMAIN parents /\ parents[pair[1]].type = pair[2]

MustNotHave(node, policies) == PolicyTypes(node) \cap policies = {}

\* Mutant of NotAllChildrenHave: no child has it
NotAllChildrenHaveAny(node, policy) ==
  \A k \in DOMAIN node.children : policy \notin PolicyTypes(node.children[k])

\* child_must_not_have_policy
NotAllChildrenHave(node, policy) ==
  node.children # <<>> => \E k \in DOMAIN node.children : policy \notin PolicyTypes(node.children[k])

AtEnd(children, IsOne(_)) ==
  \A j, k \in DOMAIN children : j < k /\ IsOne(children[j]) => IsOne(children[k])

\* Mutant of TypesAtEnd: the order of the children is not checked
TypesAtEndAlways(node, types) == TRUE

\* node_types_must_be_at_end
TypesAtEnd(node, types) == AtEnd(node.children, LAMBDA c : c.type \in types)

IsListLike(node) ==
  /\ "min_max_count" \in node.policies
  /\ node.min # node.max
  /\ node.policies \cap {"multi_stage_value", "token_end_marker"} = {}

\* Mutant of ListLikeLast: a list may be followed by other nodes
ListLikeLastAlways(node) == TRUE

\* list_like_nodes_must_have_fixed_count_if_not_at_end
ListLikeLast(node) ==
  \A k \in DOMAIN node.children : IsListLike(node.children[k]) => k = Len(node.children)

IsAnonymousMode(node) == IsMode(node) /\ ~HasNone(node)

SingleAnonymousMode(node) ==
  Cardinality({k \in DOMAIN node.children : IsAnonymousMode(node.children[k])}) <= 1

\* Mutant of AnonymousModeAtEnd: it may come first
AnonymousModeAnywhere(node) == TRUE

AnonymousModeAtEnd(node) ==
  (\E k \in DOMAIN node.children : IsAnonymousMode(node.children[k])) => TypesAtEnd(node, {"mode"})

MinCountIfRequired(node) ==
  "required" \in node.policies /\ "min_max_count" \in node.policies => node.min >= 1
-----------------------------------------------------------------------------
\* A condition and its parameters
Condition(name, with) == [name |-> name, with |-> with]

UniqueInScope   == Condition("unique up to mode", {})
OwnerLacks(p)   == Condition("owner lacks", {p})
ParentIn(pairs) == Condition("parents", pairs)
Lacks(policies) == Condition("lacks", policies)
Has(policies)   == Condition("has", policies)
ChildrenLack(p) == Condition("children lack", p)
EndsWith(types) == Condition("at end", types)
ListLast        == Condition("list last", {})
MinCount        == Condition("min count", {})
OneAnonymous    == Condition("one anonymous", {})
AnonymousLast   == Condition("anonymous last", {})

\* condition::check<T, Parents...>, of a policy of the path's first node (its
\* owner), or of the node itself
Holds(condition, policy, path) ==
  LET node == Head(path)
      with == condition.with
      name == condition.name
  IN  CASE name = "unique up to mode" -> UniqueUpToMode(policy, path)
        [] name = "owner lacks"       -> MustNotHave(node, with)
        [] name = "parents" ->
             ParentTypes(IF policy = "" THEN Tail(path) ELSE path, with)
        [] name = "lacks"             -> MustNotHave(node, with)
        [] name = "has"               -> with \subseteq PolicyTypes(node)
        [] name = "children lack"     -> NotAllChildrenHave(node, with)
        [] name = "at end"            -> TypesAtEnd(node, with)
        [] name = "list last"         -> ListLikeLast(node)
        [] name = "min count"         -> MinCountIfRequired(node)
        [] name = "one anonymous"     -> SingleAnonymousMode(node)
        [] name = "anonymous last"    -> AnonymousModeAtEnd(node)

\* A rule for some types; is_policy has every policy
Rule(types, conditions) == [types |-> types, conditions |-> conditions]

AnyPolicy == {"any policy"}

\* Mutant of Matches: the generic policy rule matches nothing
MatchesExact(rule, type, isPolicy) == type \in rule.types

Matches(rule, type, isPolicy) == type \in rule.types \/ (rule.types = AnyPolicy /\ isPolicy)

\* validate_fn for a policy, or with policy = "" for the node itself.  No rule
\* is an error too.
Passes(rules, policy, path) ==
  LET type == IF policy = "" THEN Head(path).type ELSE policy
      at   == SelectInSeq(rules, LAMBDA rule : Matches(rule, type, policy # ""))
  IN  at # 0 /\ \A condition \in rules[at].conditions : Holds(condition, policy, path)

\* validator::validate
Validates(rules, root) ==
  \A path \in PathsFrom(<<root>>, {}) :
    \A policy \in PolicyTypes(Head(path)) \cup {""} : Passes(rules, policy, path)
-----------------------------------------------------------------------------
\* default_validator
PolicyRules ==
  << Rule({"long_name", "short_name"}, {UniqueInScope}),
     Rule({"none_name"}, {UniqueInScope, OwnerLacks("long_name"),
                          OwnerLacks("short_name"), OwnerLacks("display_name")}),
     Rule({"display_name"}, {OwnerLacks("long_name"), OwnerLacks("short_name"),
                             OwnerLacks("none_name")}),
     Rule({"required"}, {OwnerLacks("default_value")}),
     Rule({"default_value"}, {OwnerLacks("required")}),
     Rule({"router"}, {ParentIn({<<1, "mode">>, <<2, "root">>})}),
     Rule({"exception_translator"}, {ParentIn({<<1, "root">>})}),
     Rule(AnyPolicy, {}) >>

LeafRules ==
  LET not == {"no_result_value", "validator"}
  IN << Rule({"flag"}, {Lacks(not \cup {"multi_stage_value", "required"})}),
        Rule({"arg"}, {Lacks(not \cup {"multi_stage_value"})}),
        Rule({"multi_arg"}, {Lacks(not \cup {"multi_stage_value"})}),
        Rule({"forwarding_arg"}, {Lacks(not \cup {"multi_stage_value"})}),
        Rule({"counting_flag"}, {Lacks(not \cup {"required"})}),
        Rule({"positional_arg"}, {Lacks(not \cup {"alias", "multi_stage_value"}), MinCount}) >>

GroupRules ==
  LET children == {ChildrenLack("required"), ChildrenLack("default_value"),
                   ParentIn({<<1, "mode">>})}
  IN << Rule({"one_of"},
             {Lacks({"no_result_value", "multi_stage_value", "validator"})} \cup children),
        Rule({"one_of", "alias_group"}, {Lacks({"no_result_value", "validator"})} \cup children) >>

\* The rules of the nodes that hold others, and of help
OuterRules ==
  << Rule({"mode"}, {Lacks({"multi_stage_value", "required", "runtime_enable_required",
                            "alias", "dependent"}),
                     EndsWith({"positional_arg"}), ListLast,
                     ParentIn({<<1, "root">>, <<1, "mode">>})}),
     Rule({"help"}, {Lacks({"multi_stage_value", "required", "short_form_expander",
                            "validator", "runtime_enable"}),
                     ParentIn({<<1, "root">>})}),
     Rule({"root"}, {Has({"validator"}),
                     Lacks({"multi_stage_value", "no_result_value", "runtime_enable",
                            "runtime_enable_required"}),
                     ChildrenLack("required"), ChildrenLack("alias"),
                     OneAnonymous, AnonymousLast}) >>

DefaultRules == PolicyRules \o LeafRules \o GroupRules \o OuterRules
-----------------------------------------------------------------------------
\* validation::utility: the edits of a list of rules
IndexOfRule(types, rules)       == SelectInSeq(rules, LAMBDA rule : rule.types = types)
InsertRule(rules, i, rule)      == InsertAt(rules, i, rule)
RemoveRule(rules, i)            == RemoveAt(rules, i)
RemoveRuleOf(rules, types)      == LET i == IndexOfRule(types, rules)
                                   IN  IF i = 0 THEN rules ELSE RemoveRule(rules, i)
UpdateRule(rules, i, rule)      == ReplaceAt(rules, i, rule)
UpdateRuleOf(rules, types, rule) == UpdateRule(rules, IndexOfRule(types, rules), rule)
AddToTypes(rules, i, type)      == [rules EXCEPT ![i].types = @ \cup {type}]
AddToTypesOf(rules, types, type) == AddToTypes(rules, IndexOfRule(types, rules), type)
=============================================================================
