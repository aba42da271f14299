------------------------------ MODULE HelpData ------------------------------
(***************************************************************************)
(* What the help output says of each node: the help_data_type of the node  *)
(* types, and the rows it is made of, from a node downwards.  Text is a    *)
(* sequence of atoms, one column per character.                            *)
(***************************************************************************)
EXTENDS LeafNodes

\* utf8::terminal_width, of text without wide or empty characters
ColumnsOf(text) == FoldLeft(LAMBDA n, atom : n + Len(atom), 0, text)

ValueSuffix(node) ==
  IF node.low \cup node.high = {} THEN <<>> ELSE <<"<", "min", "-", "max", ">">>

HasCount(node)    == "min_max_count" \in node.policies
CountText(n)      == IF n = Unbounded THEN "N" ELSE ToString(n)
CountSuffix(node) ==
  CASE HasCount(node) /\ node.min = node.max -> <<"[", CountText(node.min), "]">>
    [] HasCount(node) /\ node.min # node.max ->
         <<"[", CountText(node.min), ",", CountText(node.max), "]">>
    [] OTHER -> <<"[", "0", ",", "N", "]">>

ValueSeparatorSuffix(node) ==
  LET value == IF ValueSuffix(node) = <<>> THEN <<"<Value>">> ELSE ValueSuffix(node)
  IN  CASE "value_separator" \in node.policies -> <<Separator>> \o value
        [] "value_separator" \notin node.policies /\ HasCount(node) /\ node.min = 1 /\ node.max = 1 ->
             <<" ">> \o value
        [] OTHER -> <<>>

\* The long and short name, or the only one there is
LabelGenerator(node) ==
  LET long  == <<LongPrefix>> \o node.long
      short == <<ShortPrefix>> \o node.short
  IN  CASE HasLong(node) /\ HasShort(node)  -> long \o <<",">> \o short \o ValueSeparatorSuffix(node)
        [] HasLong(node) /\ ~HasShort(node) -> long \o ValueSeparatorSuffix(node)
        [] ~HasLong(node) /\ HasShort(node) -> short \o ValueSeparatorSuffix(node)
        [] ~HasLong(node) /\ ~HasShort(node) /\ HasNone(node) -> node.none \o ValueSeparatorSuffix(node)
        [] OTHER -> <<>>

\* help_data_type::label.  That of an anonymous mode is a blank.
HelpLabel(node) ==
  CASE node.type = "root"                   -> <<>>
    [] node.type = "mode" /\ ~HasNone(node) -> <<" ">>
    [] node.type = "one_of"                 -> <<node.id>>
    [] node.type = "alias_group"            -> <<node.id>> \o ValueSuffix(node)
    [] node.type = "positional_arg"         -> <<"<", node.id, "> ">> \o CountSuffix(node)
    [] node.type \in {"multi_arg", "forwarding_arg"} ->
         LabelGenerator(node) \o <<" ">> \o CountSuffix(node)
    [] OTHER -> LabelGenerator(node)
-----------------------------------------------------------------------------
RuntimeDisabled(node) == "runtime_enable" \in node.policies /\ ~node.enabled

IsGroup(node) == node.type \in {"one_of", "alias_group"}

\* Mutant of Shown: the filter is not passed on
ShownAll(node, flatten, live) ==
  IF node.type = "mode" /\ HasNone(node) /\ ~flatten THEN <<>> ELSE node.children

\* The children a node shows: a named mode its own only if flattened.  live is
\* for the data generated at run time, without the disabled children; it is
\* also that of the types, when not.
Shown(node, flatten, live) ==
  IF node.type = "mode" /\ HasNone(node) /\ ~flatten THEN <<>>
  ELSE SelectSeq(node.children, LAMBDA c : ~(live /\ RuntimeDisabled(c)))

\* The bars in front of the children of a group, unless only one is shown
Bar(node, k, n) ==
  CASE ~IsGroup(node) \/ n <= 1      -> <<>>
    [] IsGroup(node) /\ n > 1 /\ k = 1 -> <<"r ">>
    [] IsGroup(node) /\ n > 1 /\ k = n -> <<"L ">>
    [] OTHER                           -> <<"| ">>

\* runtime_children of a mode or a group flattens what is below it.
Deeper(node, flatten, live) == flatten \/ (live /\ (node.type = "mode" \/ IsGroup(node)))

Row(node, bar, depth) == [id |-> node.id, depth |-> depth, label |-> bar \o HelpLabel(node),
                          description |-> IF IsGroup(node) THEN <<>> ELSE node.description]

\* generate_runtime_help_data and runtime_children, or the help_data_type with
\* its children; the rows in the order they are printed.  The sets have one
\* element, for TLC to evaluate it once.
RECURSIVE Rows(_, _, _, _, _)
Rows(node, bar, depth, flatten, live) ==
  LET Parts(shown) ==
        << <<Row(node, bar, depth)>> >> \o
          [k \in DOMAIN shown |-> Rows(shown[k], Bar(node, k, Len(shown)), depth + 1,
                                      Deeper(node, flatten, live), live)]
  IN  CHOOSE rows \in {FlattenSeq(parts) :
                         parts \in {Parts(shown) : shown \in {Shown(node, flatten, live)}}} : TRUE
=============================================================================
