-------------------------- MODULE ParserProperties --------------------------
(***************************************************************************)
(* What root_t::parse must guarantee, stated over the words of the command *)
(* line, the targets and the values that reach a router.                   *)
(***************************************************************************)
EXTENDS Parser

TypeOK ==
  /\ tree \in Trees
  /\ calls \in 0 .. MaxCalls
  /\ phase \in {"idle", "root", "leaf", "submode", "loop", "run", "missing", "stages"}
  /\ line \in Seq(tree.words)
  /\ i \in Nat
  /\ \A k \in DOMAIN path : path[k].kind = "mode"
  /\ matched \subseteq DOMAIN Children
  /\ \A k \in DOMAIN args : args[k].pre \in {"none", "short"}
  /\ Done \subseteq {n.id : n \in ToSet(Nodes(Children))}
-----------------------------------------------------------------------------
Abstract == INSTANCE ParseCall
            WITH busy    <- phase # "idle",
                 routers <- Len(routed),
                 failed  <- answer = "threw"

\* A call either calls one router once, as its last step, or throws and calls
\* none (root.hpp:147-180, mode.hpp:340-416).
ImplementsParseCall == Abstract!Spec

\* Every call ends: the loop of a mode comes to an end, and so does the search
\* for a mode (mode.hpp:285-335, root.hpp:149-173).
EveryCallEnds == phase # "idle" ~> phase = "idle"
-----------------------------------------------------------------------------
\* The atoms that say which node a word is for, or that a list ends
Marks == {LongPrefix, ShortPrefix, Separator} \cup {n.marker : n \in ToSet(Nodes(Children))}

\* A text and several texts without some atoms
Atoms(marks, text) ==
  FlattenSeq([k \in DOMAIN text |-> IF text[k] \in marks THEN <<>> ELSE <<text[k]>>])

Flat(marks, texts) == FlattenSeq([k \in DOMAIN texts |-> Atoms(marks, texts[k])])

\* The forms of a name
Forms == {"long", "short", "none"}

\* A node with a name is named in a form it has.
NamedIn(form) ==
  \A k \in DOMAIN targets :
    LET node == NodeOf(targets[k].node) IN IsNamed(node) => node[form[k]] # <<>>

\* The words that would be read as these modes and targets, if each target's
\* node is named in the given form
Retyped(form) ==
  [k \in DOMAIN path |-> path[k].none] \o
  FlattenSeq([k \in DOMAIN targets |->
                <<NodeOf(targets[k].node)[form[k]]>> \o Names(targets[k].tokens)])

HasAlias == \E n \in ToSet(Nodes(Children)) : "alias" \in n.policies

\* No word of the command line is lost, invented, reordered or split between
\* the wrong nodes: what the targets hold, each behind a name of its node,
\* and behind the names of the modes, is the command line.  (Aliases replace
\* words, AliasDelivered is about them.)
Explained ==
  answer = "routed" /\ ~HasAlias =>
    \E form \in [DOMAIN targets -> Forms] :
      NamedIn(form) /\ Flat(Marks, line) = Flat(Marks, Retyped(form))

\* The texts that the first n targets hold for the child k
TextsFor(k) ==
  LET upTo[n \in 0 .. Len(targets)] ==
        IF n = 0 THEN <<>>
        ELSE IF Owner(targets[n].node) # k THEN upTo[n - 1]
        ELSE upTo[n - 1] \o Parsed(NodeOf(targets[n].node), targets[n]).list
  IN  upTo

\* The router gets one value of each child that is no mode and stands for no
\* others, in order.  It is made of the tokens of all the child's targets, in the
\* order of the command line, or it is the child's default if it has no target.
\* (A mode's child that is a mode gets no target.)
Delivered ==
  answer = "routed" /\ path # <<>> =>
    /\ routed = <<Routing(Mode.id, Stripped(Children, results))>>
    /\ \A k \in DOMAIN results :
         LET own == {j \in DOMAIN targets : Owner(targets[j].node) = k}
         IN  /\ Children[k].kind = "mode" => own = {}
             /\ results[k] = IF ~HasResult(Children[k]) THEN Unset
                             ELSE IF own = {} THEN Value("default", Children[k].default)
                             ELSE Value(targets[Max(own)].node, TextsFor(k)[Len(targets)])

\* A word sets a node that has a value and is not multi-stage at most once,
\* whatever mixture of its own names and of aliases names it.
SetOnce ==
  answer = "routed" /\ path # <<>> =>
    \A k \in DOMAIN results :
      HasResult(Children[k]) /\ Cardinality({j \in DOMAIN targets : Owner(targets[j].node) = k}) > 1 =>
        \E n \in ToSet(Nodes(<<Children[k]>>)) : n.multi_stage

\* No router sees a value its node's validation rejects: neither one of the
\* command line, nor a merged one, nor a default.
InRange ==
  answer = "routed" /\ path # <<>> =>
    \A k \in DOMAIN results :
      HasResult(Children[k]) => results[k].list \notin Children[k].low \cup Children[k].high

\* A node never gets fewer or more values than its counts allow.
CountsWithin ==
  \A k \in DOMAIN targets :
    LET node == NodeOf(targets[k].node)
        n    == Len(targets[k].tokens)
    IN  "min_max_count" \in node.policies => n >= node.min /\ (node.max = Unbounded \/ n <= node.max)
-----------------------------------------------------------------------------
\* The token starts with a name of the node, as a label, a label with its value
\* behind the separator, or the first flag of a collapsed word.
NamedBy(node, tok) ==
  LET t == AsLabelOf(node, tok)
  IN  \/ t.pre = "long"  /\ HasLong(node)  /\ IsPrefix(node.long, t.name)
      \/ t.pre = "short" /\ HasShort(node) /\ IsPrefix(node.short, t.name)
      \/ t.pre = "none"  /\ HasNone(node)  /\ IsPrefix(node.none, t.name)

\* The leaves of the child whose turn it was when the call failed
Tried == {n \in ToSet(Nodes(<<Child>>)) : n.kind \in {"leaf", "flag"}}

PolicyErrors == {"minimum_count_not_reached", "maximum_count_exceeded",
                 "missing_value_separator", "too_few_values_for_alias",
                 "dependent_argument_missing"}

\* The nodes that a match of this one makes targets for
Sets(node) == IF "alias" \in node.policies THEN node.alias ELSE {node.id}

\* The error of a named node's policy ends the call only if the front word is
\* a label of that node (tree_node.hpp:582-584: otherwise "a parse-stopping
\* exception could be thrown when the target of the token isn't even this
\* node").
OwnErrors ==
  thrown \in PolicyErrors =>
    \E n \in Tried : IsNamed(n) => args # <<>> /\ NamedBy(n, Head(args))

\* A call that fails throws a parse_exception, made from one of the error codes
\* ("@exception parse_exception Thrown if parsing has failed", root.hpp:145).
FailuresAreParseErrors ==
  answer = "threw" =>
    thrown \in PolicyErrors \cup
      {"unknown_argument", "unhandled_arguments", "argument_has_already_been_set",
       "failed_to_parse", "no_arguments_passed", "minimum_value_not_reached",
       "maximum_value_exceeded", "mode_requires_arguments", "missing_required_argument",
       "one_of_selected_type_mismatch"}

\* "Already set" is said only of a node that has been set: while words are
\* left, of a node the front word names, or of another one of its alias_group;
\* later, of one with two targets.
AlreadySetIsTrue ==
  thrown = "argument_has_already_been_set" =>
    IF args = <<>>
    THEN \E j, k \in DOMAIN targets : j # k /\ Owner(targets[j].node) = Owner(targets[k].node)
    ELSE \E n \in Tried :
           /\ NamedBy(n, Head(args))
           /\ \E m \in IF Child.kind = "alias_group" THEN Tried ELSE {n} : Sets(m) \subseteq Done

\* "Only one of" is said only of a command line that has two of them: a target
\* of one child, and a front word that names another, or may be a value of one
\* without a name (one_of.hpp:83-129).
MismatchIsTrue ==
  thrown = "one_of_selected_type_mismatch" =>
    \E m, n \in Tried : /\ m # n
                        /\ Sets(m) \subseteq Done
                        /\ IsNamed(n) => NamedBy(n, Head(args))

\* The weight of a token: its text, without the prefix
WeightOf(tok) == IF tok.name = <<>> THEN 1 ELSE Len(tok.name)

\* and of the first n tokens of some
WeightUpTo(tokens) ==
  LET upTo[n \in 0 .. Len(tokens)] == IF n = 0 THEN 0 ELSE upTo[n - 1] + WeightOf(tokens[n])
  IN  upTo

Weight(tokens) == WeightUpTo(tokens)[Len(tokens)]

\* Every round of the mode's loop leaves less of the command line, so that the
\* loop ends: expanding a collapsed word makes more tokens, but less text
\* (mode.hpp:285-335, short_form_expander.hpp).
RoundsConsume ==
  [][phase = "loop" /\ matched' # {} /\ i' = 1 /\ phase' = "loop" =>
       Weight(args') < Weight(args)]_vars

\* A token end marker ends the list of its node's values: no token behind it
\* becomes a value of that node, and every one before it does.
MarkerEndsList ==
  [][\A k \in DOMAIN targets' \ DOMAIN targets :
       LET node == NodeOf(targets'[k].node)
           from == NamedOffset(node) + 1
           at   == SelectInSubSeq(args, from, Len(args), LAMBDA t : t.name = <<node.marker>>)
       IN  "token_end_marker" \in node.policies /\ at > 0 =>
             targets'[k].tokens = SubSeq(args, from, at - 1)]_vars
-----------------------------------------------------------------------------
SetByUser(id) == \E k \in DOMAIN results : results[k].by = id

\* A node with dependencies reaches the router only together with the nodes it
\* depends on.
DependenciesMet ==
  answer = "routed" =>
    \A n \in ToSet(Nodes(Children)) :
      n.kind \in {"leaf", "flag"} /\ "dependent" \in n.policies /\ SetByUser(n.id) =>
        \A id \in n.depends : SetByUser(id)

\* A disabled node gets no value from the command line; its value is the
\* default.
DisabledUntouched ==
  answer = "routed" =>
    \A n \in ToSet(Nodes(Children)) : ~n.enabled => n.id \notin Done

\* A disabled mode gets no word and its router is not called.
DisabledModesClosed ==
  \A k \in DOMAIN path : ~path[k].enabled => matched = {} /\ routed = <<>>

\* The words behind a label of the node are these texts, as many as it takes.
StandBehind(node, texts) ==
  \E j \in 1 .. Len(line) - node.max : /\ NamedBy(node, Raw(line[j]))
                                       /\ texts = SubSeq(line, j + 1, j + node.max)

\* An alias on the command line sets every node it stands for, each to the
\* values behind the alias's own label.
AliasDelivered ==
  answer = "routed" /\ path # <<>> =>
    \A k \in matched :
      "alias" \in Children[k].policies =>
        \A id \in Children[k].alias :
          /\ SetByUser(id)
          /\ Children[k].max > 0 => StandBehind(Children[k], results[Owner(id)].list)

\* The mode whose children get the words is the deepest enabled one that the
\* leading words name, the anonymous one only if they name none.
ModeIsDeepest ==
  phase = "loop" =>
    LET named == IF IsNamed(Mode) THEN path ELSE <<>>
        n     == Len(named)
        inner == IF named = <<>> THEN tree.children ELSE Children
    IN  /\ \A k \in 1 .. n : line[k] = named[k].none
        /\ \A c \in ToSet(inner) :
             c.kind = "mode" /\ IsNamed(c) /\ c.enabled /\ Len(line) > n => line[n + 1] # c.none
-----------------------------------------------------------------------------
\* What the theorems ask of the parse trees.

\* The trees are made of the given nodes, and their words of the atoms A.
TreesOf(nodes, A) ==
  /\ \A t \in Trees : t.children \in Seq(nodes) /\ t.words \subseteq Seq(A)
  /\ \A n \in nodes : n.children \in Seq(nodes) /\ n.min \in Nat /\ n.max \in Nat

\* The lists of children of the roots and of the modes
Siblings(nodes) == {t.children : t \in Trees} \cup {n.children : n \in nodes}

\* An id is the type of a node, and no type appears twice among siblings.
DistinctIds(nodes) ==
  \A children \in Siblings(nodes) : \A m, n \in ToSet(Nodes(children)) :
     n.id \notin {Unset.by, "none", "default"} /\ (m.id = n.id => m = n)

\* Only nodes whose value is validated have limits: those that parse, and
\* those that are validated in the end.
LimitsAreChecked(nodes) ==
  \A n \in nodes : n.low \cup n.high # {} => Staged(n) \/ (n.kind = "leaf" /\ n.children = <<>>)

\* A node is disabled by runtime_enable, a mode only if it is named.
DisabledByPolicy(nodes) ==
  \A n \in nodes : ~n.enabled => /\ "runtime_enable" \in n.policies
                                 /\ n.kind = "mode" => IsNamed(n)

\* The names are texts.  The children of a group are leaves, and its parent is
\* a mode (validator.hpp:690-703).
LeavesInGroups(nodes) ==
  /\ \A n \in nodes :
       /\ {n.long, n.short, n.none} \subseteq Seq(STRING)
       /\ n.kind \in {"leaf", "flag", "one_of", "alias_group", "mode"}
       /\ n.kind \in {"one_of", "alias_group"} =>
            \A m \in ToSet(n.children) : m.kind \in {"leaf", "flag"}
  /\ \A t \in Trees : \A n \in ToSet(t.children) : n.kind \notin {"one_of", "alias_group"}

\* What an alias stands for are nodes of its mode (alias.hpp:204).
AliasesExist(nodes) ==
  \A children \in Siblings(nodes) : \A n \in ToSet(Nodes(children)) :
     "alias" \in n.policies => n.alias \subseteq {m.id : m \in ToSet(Nodes(children))}

\* A mode's only name is a word, and its policies leave the words alone.
\* Anonymous modes are children of the root, the last ones, and have no child
\* modes (validator.hpp:511-539, mode.hpp:212, 244).
LabelPolicies == {"value_separator", "short_form_expander", "token_end_marker", "min_max_count",
                  "alias", "dependent"}

ModeRules(nodes) ==
  /\ \A n \in nodes :
       n.kind = "mode" => /\ n.long = <<>> /\ n.short = <<>>
                          /\ n.policies \cap LabelPolicies = {}
                          /\ \A c \in ToSet(n.children) :
                               c.kind = "mode" => IsNamed(n) /\ IsNamed(c)
  /\ \A t \in Trees : \A j, k \in DOMAIN t.children :
       t.children[j].kind = "mode" /\ ~IsNamed(t.children[j]) /\ j < k =>
         t.children[k].kind # "mode"

\* No alias stands for a node that depends on others.
AliasesOfIndependent(nodes) ==
  \A children \in Siblings(nodes) : \A m, n \in ToSet(Nodes(children)) :
     m.id \in n.alias => "dependent" \notin m.policies

\* What a node depends on does not stand for others, its value would be dropped,
\* and is not merged with other nodes of a group.
DependsOnSingle(nodes) ==
  \A children \in Siblings(nodes) : \A n \in ToSet(Nodes(children)), c \in ToSet(children) :
     (\E m \in ToSet(Nodes(<<c>>)) : m.id \in n.depends) =>
       /\ "alias" \notin c.policies
       /\ c.children # <<>> => \A m \in ToSet(Nodes(<<c>>)) : ~m.multi_stage

\* The nodes of a child mode are not those of the other children, and no alias
\* of these stands for one.
ModesApart(nodes) ==
  \A children \in Siblings(nodes) : \A a, b \in ToSet(children) :
     a.kind # "mode" /\ b.kind = "mode" =>
       \A n \in ToSet(Nodes(<<a>>)), m \in ToSet(Nodes(<<b>>)) : m.id \notin n.alias \cup {n.id}

\* No alias stands for a disabled node.
AliasesOfEnabled(nodes) ==
  \A children \in Siblings(nodes) : \A m, n \in ToSet(Nodes(children)) :
     m.id \in n.alias => m.enabled

\* Every leaf has a minimum and a maximum count, which are sizes
\* (min_max_count.hpp:34-40).  A node without a name may have a value.  A value
\* behind a separator is one value, and its node has a name
\* (value_separator.hpp:79-86).
CountRules(nodes) ==
  \A n \in nodes :
    /\ n.kind \in {"leaf", "flag"} => "min_max_count" \in n.policies
    /\ "min_max_count" \in n.policies =>
         n.min <= n.max /\ n.max <= SizeMax /\ (IsNamed(n) \/ n.max > 0)
    /\ "value_separator" \in n.policies => IsNamed(n) /\ n.min = 1 /\ n.max = 1

\* An alias stands for some nodes, with counts like its own (alias.hpp:163,
\* 168-179, 245-253).
AliasCounts(nodes) ==
  /\ \A n \in nodes : "alias" \in n.policies => n.alias # {}
  /\ \A children \in Siblings(nodes) : \A m, n \in ToSet(Nodes(children)) :
       "alias" \in n.policies /\ m.id \in n.alias => m.min = n.max /\ m.max = n.max

\* A collapsed word may be split among these nodes.
SplitsFlags(children) == \E n \in ToSet(Nodes(children)) : "short_form_expander" \in n.policies

\* A group is no alias: its own policies have no phases.  What an alias stands for
\* is no alias itself, it would get no value.  The values of an alias are words
\* behind its label, which is a word too: it does not split words, and if it has a
\* short name, no other node of its mode does.  A flag has no value
\* (flag.hpp:30-32), and a value that an alias gives is not merged with others,
\* nor with those of other nodes of a group.
AliasValues(nodes) ==
  /\ \A n \in nodes : n.kind \in {"one_of", "alias_group"} => "alias" \notin n.policies
  /\ \A children \in Siblings(nodes) : \A n \in ToSet(Nodes(children)) :
       "alias" \in n.policies =>
         /\ n.max > 0 =>
              /\ n.policies \cap {"value_separator", "short_form_expander", "token_end_marker"} = {}
              /\ HasShort(n) => ~SplitsFlags(children)
         /\ \A c \in ToSet(children) : \A m \in ToSet(Nodes(<<c>>)) :
              m.id \in n.alias =>
                /\ "alias" \notin c.policies
                /\ n.max > 0 => m.kind # "flag"
                /\ c.children # <<>> \/ n.max > 0 =>
                     \A x \in ToSet(Nodes(<<c>>)) : ~x.multi_stage

\* A marker ends a list of values, one with counts and of no fixed length
\* (token_end_marker.hpp:75-83), whose node does not split words.  A positional
\* list that may be empty has no maximum: with one, it takes the words behind a
\* marker that comes first.
MarkerRules(nodes) ==
  \A n \in nodes : "token_end_marker" \in n.policies =>
    /\ "min_max_count" \in n.policies /\ n.min # n.max
    /\ "short_form_expander" \notin n.policies
    /\ IsNamed(n) \/ n.min > 0 \/ n.max = Unbounded

\* A node splits a word behind a separator or between flags, not both: flags get
\* the expander when they are made (flag.hpp:136-149, counting_flag.hpp:148-164)
\* and have no value (flag.hpp:30-32), while a separator needs one
\* (value_separator.hpp:76-81).  Nothing refuses a node that is given both: its
\* value would stand behind the flags that the expander puts in front.
SplitOnce(nodes) ==
  \A n \in nodes : ~({"value_separator", "short_form_expander"} \subseteq n.policies)

\* A command line is no longer than an iterator's offset can tell.
ShortLines ==
  \A t \in Trees : \A words \in Lines(t.words) :
    2 * Weight([k \in DOMAIN words |-> Raw(words[k])]) <= SizeMax
=============================================================================
