------------------------------ MODULE Policies ------------------------------
(***************************************************************************)
(* The pre-parse phases of the policies, run in order of priority over the *)
(* token adapter by tree_node::pre_parse_impl.  A phase maps a state s to  *)
(* the next one:                                                           *)
(*    s.a     the token adapter                                            *)
(*    s.act   its pre_parse_result: "valid", "skip", "subs" (skip the node *)
(*            but use its sub-targets) or "error"; or "throw", when the    *)
(*            phase does not return                                        *)
(*    s.code  the error code of an "error", the exception of a "throw"     *)
(*    s.subs  the sub-targets collected so far                             *)
(* A node is a record whose field policies is the set of its policies'     *)
(* names; the policies' parameters are fields of the node.                 *)
(***************************************************************************)
EXTENDS Tokens, DynamicTokenAdapter, SequencesExt

\* parse_target: the node that will parse, and its tokens without the label
Target(id, tokens) == [node |-> id, tokens |-> tokens]

Valid(s)       == [s EXCEPT !.act = "valid"]
SkipNode(s)    == [s EXCEPT !.act = "skip"]
Error(s, code) == [s EXCEPT !.act = "error", !.code = code]
Throw(s, exception) == [s EXCEPT !.act = "throw", !.code = exception]

Tokens(a) == a.p \o a.u
IsEmpty(a) == Size(a) = 0
First(a)  == At(a, 0)

Smaller(m, n) == IF m < n THEN m ELSE n

NamedOffset(node) == IF IsNamed(node) THEN 1 ELSE 0
-----------------------------------------------------------------------------
\* value_separator: --num=7 becomes the label --num and the value 7
ValueSeparator(node, s) ==
  LET first == First(s.a)
      at    == SelectInSeq(first.name, LAMBDA atom : atom = Separator)
      value == SubSeq(first.name, at + 1, Len(first.name))
      label == SubSeq(first.name, 1, at - 1)
      asked == IF first.pre = "none" THEN GetTokenType(first.name) ELSE first
  IN  CASE IsEmpty(s.a) -> Valid(s)
        [] ~IsEmpty(s.a) /\ at = 0 /\ Match(node, asked) ->
             Error(s, "missing_value_separator")
        [] ~IsEmpty(s.a) /\ at = 0 /\ ~Match(node, asked) -> SkipNode(s)
        [] ~IsEmpty(s.a) /\ at > 0 /\ value = <<>> -> SkipNode(s)
        [] OTHER ->
             LET b == Insert(s.a, 1, <<Token("none", value)>>)
             IN  Valid([s EXCEPT !.a = SetAt(b, 0, Token(first.pre, label))])

\* Mutant of Rest: the expanded flags get the wrong prefix
RestLong(name) == [i \in 1 .. Len(name) - 1 |-> Token("long", <<name[i + 1]>>)]

\* The clusters of a collapsed word after the first, as short-form tokens
Rest(name) == [i \in 1 .. Len(name) - 1 |-> Token("short", <<name[i + 1]>>)]

\* Mutant of Leave: the expanded flags end up behind the rest of the line
LeaveAtBack(a, tokens) == [a EXCEPT !.u = @ \o tokens]

\* Tokens for other nodes go to the front of the unprocessed ones.
Leave(a, tokens) == [a EXCEPT !.u = tokens \o @]

\* short_form_expander: -abc becomes the label -a, and -b -c are left for
\* other nodes.  For the word - nothing is left, and without a word behind it
\* the size to reserve, 0 + 0 - 1, is more than a vector can hold.
ShortFormExpander(node, s) ==
  LET first   == AsLabelOf(node, First(s.a))
      label   == Token("short", SubSeq(first.name, 1, Smaller(1, Len(first.name))))
      claimed == Transfer(s.a, 0)
  IN  CASE IsEmpty(s.a) \/ first.pre # "short" \/ Len(first.name) = Len(node.short) -> Valid(s)
        [] ~IsEmpty(s.a) /\ first.pre = "short" /\ first.name = <<>> /\ claimed.u = <<>> ->
             Throw(s, "length_error")
        [] OTHER -> Valid([s EXCEPT !.a = SetAt(Leave(claimed, Rest(first.name)), 0, label)])
-----------------------------------------------------------------------------
\* Mutant of RuntimeEnable: the constructor's argument is not asked
RuntimeEnableIgnored(node, s) == Valid(s)

\* runtime_enable and runtime_enable_required
RuntimeEnable(node, s) == IF node.enabled THEN Valid(s) ELSE SkipNode(s)

\* Mutant of TokenEndMarker: the marker stays among the values
TokenEndMarkerKept(node, s) ==
  LET at == SelectInSubSeq(Tokens(s.a), NamedOffset(node) + 1, Size(s.a),
                           LAMBDA t : t.name = <<node.marker>>)
  IN  Valid([s EXCEPT !.a = Transfer(@, IF at = 0 THEN Size(s.a) ELSE at - 1)])

\* token_end_marker: claim the tokens up to the marker, all of them if there
\* is none, and drop the marker
TokenEndMarker(node, s) ==
  LET at == SelectInSubSeq(Tokens(s.a), NamedOffset(node) + 1, Size(s.a),
                           LAMBDA t : t.name = <<node.marker>>)
      it == IF at = 0 THEN Size(s.a) ELSE at - 1
  IN  Valid([s EXCEPT !.a = Erase(Transfer(@, it), it)])
-----------------------------------------------------------------------------
\* std::size_t, of eight bits here.  Counts are far below half of it, and an
\* iterator takes it as a signed offset.
SizeMax   == 255
Unbounded == SizeMax
MinusOne(n) == (n - 1) % (SizeMax + 1)
AsOffset(n) == IF 2 * n > SizeMax THEN n - (SizeMax + 1) ELSE n

\* The tokens a count asks for, with the label
WithLabel(count, node) == IF count = SizeMax THEN count ELSE count + NamedOffset(node)

\* Mutant of MinMaxCount: the label counts as a value
MinMaxCountOfTokens(node, s) ==
  LET num == IF "token_end_marker" \in node.policies THEN Len(s.a.p) ELSE Size(s.a)
  IN  IF num < node.min THEN Error(s, "minimum_count_not_reached")
      ELSE Valid([s EXCEPT !.a = Transfer(@, AsOffset(Smaller(MinusOne(node.max),
                                                               MinusOne(num))))])

\* min_max_count: claim as many tokens as the node may have.  With a marker
\* the tokens claimed so far are all there is.
MinMaxCount(node, s) ==
  LET marked == "token_end_marker" \in node.policies
      num    == IF marked THEN Len(s.a.p) ELSE Size(s.a)
      mn     == WithLabel(node.min, node)
      mx     == WithLabel(node.max, node)
      last   == AsOffset(Smaller(MinusOne(mx), MinusOne(num)))
  IN  CASE marked /\ num > mx -> Error(s, "maximum_count_exceeded")
        [] ~(marked /\ num > mx) /\ num < mn -> Error(s, "minimum_count_not_reached")
        [] OTHER -> Valid([s EXCEPT !.a = Transfer(@, last)])
-----------------------------------------------------------------------------
\* The nodes of a tree in the order tree_recursor visits them.  Only the
\* groups have children here, and those have none.
Nodes(children) ==
  FlattenSeq([i \in DOMAIN children |-> <<children[i]>> \o children[i].children])

\* Mutant of AliasTargets: every target gets one token too many, the label
AliasTargetsWithLabel(node, children, tokens) ==
  LET nodes == Nodes(children)
      Of(n) == IF n.id \in node.alias THEN <<Target(n.id, SubSeq(tokens, 1, node.max + 1))>> ELSE <<>>
  IN  FlattenSeq([k \in DOMAIN nodes |-> Of(nodes[k])])

\* One target per aliased node, each with a copy of the alias's values
AliasTargets(node, children, tokens) ==
  LET nodes == Nodes(children)
      Of(n) == IF n.id \in node.alias THEN <<Target(n.id, SubSeq(tokens, 2, node.max + 1))>> ELSE <<>>
  IN  FlattenSeq([k \in DOMAIN nodes |-> Of(nodes[k])])

\* alias: replace the label and its values by the aliased nodes' targets
Alias(node, children, s) ==
  LET label   == AsLabelOf(node, First(s.a))
      claimed == Transfer(s.a, node.max)
  IN  CASE node.max + 1 > Size(s.a) -> Error(s, "too_few_values_for_alias")
        [] node.max + 1 <= Size(s.a) /\ ~Match(node, label) -> SkipNode(s)
        [] OTHER -> [s EXCEPT !.act  = "subs",
                              !.subs = @ \o AliasTargets(node, children, claimed.p),
                              !.a = [claimed EXCEPT !.p = Cut(@, 0, node.max + 1)]]

\* Mutant of Dependent: one of the needed nodes is enough
DependentOnAny(node, done, s) ==
  IF node.depends \cap done # {} THEN Valid(s) ELSE Error(s, "dependent_argument_missing")

\* dependent: every needed node is a target of the mode already
Dependent(node, done, s) ==
  IF node.depends \subseteq done THEN Valid(s) ELSE Error(s, "dependent_argument_missing")
-----------------------------------------------------------------------------
\* skip_node_but_use_sub_targets outlives a later valid_node.
KeepSubs(before, after) ==
  [after EXCEPT !.act = IF before.act = "subs" /\ @ = "valid" THEN "subs" ELSE @]

\* The state after a phase that makes next of s.  A policy the node does not
\* have, or behind one that ended the phases, does not run.
After(s, policy, node, next) ==
  IF policy \notin node.policies \/ s.act \in {"skip", "error", "throw"} THEN s
  ELSE KeepSubs(s, next)

\* The phases of node, in order of priority, on the unprocessed tokens args;
\* children are those of its mode, and done the nodes that are targets of the
\* mode so far.  A set with the one state in which they end: TLC then evaluates
\* the state before a phase once.
RunPhases(node, children, done, args) ==
  LET s0 == {[a |-> [p |-> <<>>, u |-> args], act |-> "valid", code |-> "", subs |-> <<>>]}
      s1 == {After(s, "value_separator", node, ValueSeparator(node, s)) : s \in s0}
      s2 == {After(s, "short_form_expander", node, ShortFormExpander(node, s)) : s \in s1}
      s3 == {After(s, "runtime_enable", node, RuntimeEnable(node, s)) : s \in s2}
      s4 == {After(s, "token_end_marker", node, TokenEndMarker(node, s)) : s \in s3}
      s5 == {After(s, "min_max_count", node, MinMaxCount(node, s)) : s \in s4}
      s6 == {After(s, "alias", node, Alias(node, children, s)) : s \in s5}
  IN  {After(s, "dependent", node, Dependent(node, done, s)) : s \in s6}
=============================================================================
