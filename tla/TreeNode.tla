------------------------------ MODULE TreeNode ------------------------------
(***************************************************************************)
(* How a node of the parse tree claims the front of the command line       *)
(* (tree_node::pre_parse_impl), and how the two groups, one_of and         *)
(* alias_group, try their children.                                        *)
(*                                                                         *)
(* The caller passes a validator, here its verdict on the node: "accept",  *)
(* "reject", or the code of the error it throws.  The outcome o of an      *)
(* attempt is a record:                                                    *)
(*    o.kind     "none" (not this node), "error" or "match"                *)
(*    o.code     the code of an error                                      *)
(*    o.args     of a match, the unprocessed tokens it leaves              *)
(*    o.targets  of a match, the targets it adds                           *)
(*    o.asked    the validator was called                                  *)
(***************************************************************************)
EXTENDS Policies

Outcome(kind, code, args, targets, asked) ==
  [kind |-> kind, code |-> code, args |-> args, targets |-> targets, asked |-> asked]

\* Mutant of NotThisNode: the validator is called before the name check
NotThisNodeAsked == Outcome("none", "", <<>>, <<>>, TRUE)

NotThisNode == Outcome("none", "", <<>>, <<>>, FALSE)

\* The processed and unprocessed tokens at the name check, which takes the
\* first token if no policy did and no policy replaced the label
WithLabelClaimed(node, s) ==
  IF IsNamed(node) /\ s.act # "subs" /\ s.a.p = <<>> THEN Transfer(s.a, 0) ELSE s.a

\* Mutant of LabelMatches: a policy's error is thrown without the name check
LabelMatchesOrError(node, s) ==
  LET p == WithLabelClaimed(node, s).p
  IN  \/ ~IsNamed(node)
      \/ s.act \in {"subs", "error"}
      \/ p # <<>> /\ Match(node, AsLabelOf(node, Head(p)))

\* The first token names the node, or need not.
LabelMatches(node, s) ==
  LET p == WithLabelClaimed(node, s).p
  IN  \/ ~IsNamed(node)
      \/ s.act = "subs"
      \/ p # <<>> /\ Match(node, AsLabelOf(node, Head(p)))

\* What follows the policies, unless one threw: the name check, the caller's
\* validator, and only then the error of a policy.  A match that has
\* sub-targets is replaced by them (the mode flattens them out).
Settle(node, s, verdict) ==
  LET a      == WithLabelClaimed(node, s)
      values == IF IsNamed(node) /\ a.p # <<>> THEN Tail(a.p) ELSE a.p
      own    == <<Target(node.id, values)>>
  IN  CASE s.act = "throw" -> Outcome("error", s.code, <<>>, <<>>, FALSE)
        [] s.act # "throw" /\ (s.act = "skip" \/ ~LabelMatches(node, s)) -> NotThisNode
        [] OTHER ->
             CASE verdict = "reject" -> Outcome("none", "", <<>>, <<>>, TRUE)
               [] verdict \notin {"accept", "reject"} ->
                    Outcome("error", verdict, <<>>, <<>>, TRUE)
               [] verdict = "accept" /\ s.act = "error" ->
                    Outcome("error", s.code, <<>>, <<>>, TRUE)
               [] OTHER ->
                    Outcome("match", "", a.u, IF s.subs = <<>> THEN own ELSE s.subs, TRUE)

\* tree_node::pre_parse of a leaf (and of a named mode's label)
PreParseLeaf(node, children, done, args, verdict) ==
  CHOOSE o \in {Settle(node, s, verdict) : s \in RunPhases(node, children, done, args)} : TRUE
-----------------------------------------------------------------------------
\* mode_t::verify_match: only a multi-stage child may be matched again
VerifyMatch(node, already) ==
  CASE node.multi_stage \/ ~already                       -> "accept"
    [] ~node.multi_stage /\ already /\ IsNamed(node)  -> "argument_has_already_been_set"
    [] ~node.multi_stage /\ already /\ ~IsNamed(node) -> "reject"

\* Mutant of OneOfVerdict: the selected child is not compared
OneOfVerdictIgnored(node, selected, verdict) == verdict

\* The validator that one_of wraps around the caller's: another child of it
\* must not have been selected before
OneOfVerdict(node, selected, verdict) ==
  IF selected \notin {"none", node.id} THEN "one_of_selected_type_mismatch" ELSE verdict

\* What the validator leaves in last_typeid_
Selects(node, selected) == IF selected = "none" THEN node.id ELSE selected

\* one_of::pre_parse: the first child that is not "none".  The policies of the
\* group itself have no part in this.  selected is the one_of's last_typeid_.
PreParseOneOf(group, children, done, args, selected, already) ==
  LET Verdict(child, sel) == OneOfVerdict(child, sel, VerifyMatch(child, already))
      Try(child, sel) ==
        LET o == PreParseLeaf(child, children, done, args, Verdict(child, sel))
        IN  [o |-> o, selected |-> IF o.asked THEN Selects(child, sel) ELSE sel]
      Then(r, child) == IF r.o.kind = "none" THEN Try(child, r.selected) ELSE r
      after[k \in 0 .. Len(group.children)] ==
        IF k = 0 THEN [o |-> NotThisNode, selected |-> selected]
        ELSE Then(after[k - 1], group.children[k])
  IN  after[Len(group.children)]

\* alias_group::pre_parse: the same, with the caller's validator
PreParseAliasGroup(group, children, done, args, already) ==
  LET Try(child)     == PreParseLeaf(child, children, done, args, VerifyMatch(child, already))
      Then(o, child) == IF o.kind = "none" THEN Try(child) ELSE o
      after[k \in 0 .. Len(group.children)] ==
        IF k = 0 THEN NotThisNode ELSE Then(after[k - 1], group.children[k])
  IN  after[Len(group.children)]

\* A child of a mode tries the front of the command line.
PreParse(node, children, done, args, selected, already) ==
  CASE node.kind = "one_of" -> PreParseOneOf(node, children, done, args, selected, already)
    [] node.kind = "alias_group" ->
         [o |-> PreParseAliasGroup(node, children, done, args, already), selected |-> selected]
    [] OTHER ->
         [o |-> PreParseLeaf(node, children, done, args, VerifyMatch(node, already)),
          selected |-> selected]
=============================================================================
