----------------------------- MODULE LeafNodes -----------------------------
(***************************************************************************)
(* The nodes a program builds its parse tree from: what each factory       *)
(* function (flag, arg, positional_arg, ...) puts into the node, beside    *)
(* the policies it is given, and how it turns the bare strings among its   *)
(* parameters into names and a description.                                *)
(*                                                                         *)
(* A bare string is its text and whether it has several characters.        *)
(***************************************************************************)
EXTENDS Policies

Word(text) == [text |-> <<text>>, many |-> TRUE]
Char(text) == [text |-> <<text>>, many |-> FALSE]

\* multi_char_finder, single_char_finder: the first such string from an index
IndexFrom(strings, from, many) ==
  SelectInSubSeq(strings, from, Len(strings), LAMBDA s : s.many = many)

TextAt(strings, k) == IF k \in DOMAIN strings THEN strings[k].text ELSE <<>>

\* Mutant of FirstString: the first string, whatever its length
FirstStringOfAny(strings) == TextAt(strings, 1)

\* The mappers: the text that becomes the policy, <<>> if none does
FirstString(strings)  == TextAt(strings, IndexFrom(strings, 1, TRUE))
SecondString(strings) ==
  LET first == IndexFrom(strings, 1, TRUE)
  IN  IF first = 0 THEN <<>> ELSE TextAt(strings, IndexFrom(strings, first + 1, TRUE))
SingleChar(strings)   == TextAt(strings, IndexFrom(strings, 1, FALSE))
FirstText(strings)    == TextAt(strings, 1)
SecondText(strings)   == TextAt(strings, 2)

\* convert, as the labelled nodes, the forwarding one and the positional one
\* call it
ToLabels(strings) == [long        |-> FirstString(strings),
                      description |-> SecondString(strings),
                      short       |-> SingleChar(strings)]

ToNoneName(strings) == [none        |-> FirstString(strings),
                        description |-> SecondString(strings)]

ToDisplayName(strings) == [display     |-> FirstText(strings),
                           description |-> SecondText(strings)]

\* "Unhandled bare strings passed": every string has become a policy.
AllMapped(mapped, strings) == Cardinality({p \in DOMAIN mapped : mapped[p] # <<>>}) = Len(strings)
-----------------------------------------------------------------------------
\* A node without policies
BlankNode == [id |-> "", type |-> "", kind |-> "leaf", long |-> <<>>, short |-> <<>>,
              none |-> <<>>, description |-> <<>>, policies |-> {}, min |-> 0, max |-> 0,
              marker |-> "", enabled |-> TRUE, alias |-> {}, depends |-> {}, default |-> <<>>,
              multi_stage |-> FALSE, unparsable |-> {}, low |-> {}, high |-> {},
              router |-> FALSE, children |-> <<>>]

\* A node with a long and a short name; its id, its type, is told by them.
Labelled(type, strings) ==
  LET to == ToLabels(strings)
  IN  [BlankNode EXCEPT !.id = Head(to.long \o to.short), !.type = type, !.long = to.long,
                        !.short = to.short, !.description = to.description]

\* Mutant of ExpanderIfShort: a flag never expands
ExpanderNever(node) == {}

\* A flag expands collapsed short forms if it has a short name.
ExpanderIfShort(node) == IF HasShort(node) THEN {"short_form_expander"} ELSE {}

Flag(strings) ==
  LET node == Labelled("flag", strings)
  IN  [node EXCEPT !.kind = "flag",
                   !.policies = {"default_value", "min_max_count"} \cup ExpanderIfShort(node)]

CountingFlag(strings) ==
  LET node == Labelled("counting_flag", strings)
  IN  [node EXCEPT !.kind = "flag", !.multi_stage = TRUE,
                   !.policies = {"multi_stage_value", "min_max_count"} \cup ExpanderIfShort(node)]

\* multi_arg_base_t, for a node without a min_max_count of its own
Counted(node, min) ==
  [node EXCEPT !.policies = {"min_max_count"}, !.min = min, !.max = Unbounded]

Arg(strings) == [Counted(Labelled("arg", strings), 1) EXCEPT !.max = 1]

MultiArg(strings) == Counted(Labelled("multi_arg", strings), 1)

ForwardingArg(strings) ==
  LET to == ToNoneName(strings)
  IN  [Counted(BlankNode, 0) EXCEPT !.id = Head(to.none), !.type = "forwarding_arg",
                                    !.none = to.none, !.description = to.description]

PositionalArg(strings) ==
  LET to == ToDisplayName(strings)
  IN  [Counted(BlankNode, 0) EXCEPT !.id = Head(to.display), !.type = "positional_arg",
                                    !.policies = @ \cup {"display_name"},
                                    !.description = to.description]

\* The policies a program gives to a node
With(node, policies)   == [node EXCEPT !.policies = @ \cup policies]
Counts(node, m, n)     == [node EXCEPT !.min = m, !.max = n]
Fixed(node, n)         == Counts(node, n, n)
Required(node)         == With(node, {"required"})
Separated(node)        == With(node, {"value_separator"})
Marked(node, marker)   == [With(node, {"token_end_marker"}) EXCEPT !.marker = marker]
Disabled(node)         == [With(node, {"runtime_enable"}) EXCEPT !.enabled = FALSE]
AliasOf(node, ids)     == [With(node, {"alias"}) EXCEPT !.alias = ids]
DependsOn(node, ids)   == [With(node, {"dependent"}) EXCEPT !.depends = ids]
Default(node, values)  == [With(node, {"default_value"}) EXCEPT !.default = values]
Routed(node)           == [node EXCEPT !.router = TRUE]

-----------------------------------------------------------------------------
\* dependency::one_of and alias_group keep the nodes among their parameters.
Group(type, id, children) ==
  [BlankNode EXCEPT !.id = id, !.type = type, !.kind = type, !.policies = {"display_name"},
                    !.children = children]

ModeOf(id, name, children) ==
  [BlankNode EXCEPT !.id = id, !.type = "mode", !.kind = "mode", !.none = name,
                    !.policies = {"no_result_value"}, !.router = TRUE, !.children = children]

Anonymous(children) == ModeOf("main", <<>>, children)

\* The root node, with the one policy the rules ask for
RootOf(children) == [BlankNode EXCEPT !.id = "root", !.type = "root", !.policies = {"validator"},
                                      !.children = children]

\* A list of nodes among the parameters of a node
ListOf(children) == [kind |-> "list", children |-> children]

\* list_expander: a list is replaced by its nodes, at any depth.
RECURSIVE Expanded(_)
Expanded(params) ==
  FlattenSeq([k \in DOMAIN params |->
                IF params[k].kind = "list" THEN Expanded(params[k].children) ELSE <<params[k]>>])
=============================================================================
