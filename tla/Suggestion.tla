----------------------------- MODULE Suggestion -----------------------------
(***************************************************************************)
(* The node that an unknown argument may have meant: the Levenshtein       *)
(* distance of two names, and the walk through the tree for the nearest.   *)
(* A name is a sequence of clusters.                                       *)
(***************************************************************************)
EXTENDS HelpData

\* Mutant of Corner: the old cost above
CornerAbove(old, j) == old[j + 1]

\* The old cost above to the left
Corner(old, j) == old[j]

\* The inner loop of levenshtein_distance: from the costs for the clusters of a
\* in front of its i-th, c1, to those for it too.  costs is updated in place;
\* corner is the cost it had one column to the left.
NextRow(old, i, c1, b) ==
  LET new[j \in 0 .. Len(b)] ==
        CASE j = 0                 -> i
          [] j > 0 /\ c1 = b[j]    -> Corner(old, j)
          [] j > 0 /\ c1 # b[j]    -> Smaller(new[j - 1], Smaller(old[j + 1], Corner(old, j))) + 1
  IN  [j \in 1 .. Len(b) + 1 |-> new[j - 1]]

LevenshteinDistance(a, b) ==
  LET row[i \in 0 .. Len(a)] ==
        IF i = 0 THEN [j \in 1 .. Len(b) + 1 |-> j - 1]
        ELSE CHOOSE new \in {NextRow(old, i, a[i], b) : old \in {row[i - 1]}} : TRUE
  IN  IF a = <<>> \/ b = <<>> THEN Len(a) + Len(b) ELSE row[Len(a)][Len(b) + 1]
-----------------------------------------------------------------------------
\* tree_recursor: every node with its parents, nearest first, in the order of
\* the visits
RECURSIVE TreeRecursor(_)
TreeRecursor(path) ==
  LET Parts(node) == << <<path>> >> \o
                       [k \in DOMAIN node.children |-> TreeRecursor(<<node.children[k]>> \o path)]
  IN  CHOOSE visits \in {FlattenSeq(parts) : parts \in {Parts(node) : node \in {Head(path)}}} : TRUE

\* Mutant of IsRuntimeDisabled: only the node itself
IsRuntimeDisabledItself(path) == RuntimeDisabled(Head(path))

IsRuntimeDisabled(path) == \E k \in DOMAIN path : RuntimeDisabled(path[k])

\* node_token_type.  The error name an anonymous mode has by default
NodeTokenType(node) ==
  CASE node.type = "mode" /\ ~HasNone(node)   -> Token("none", <<"(Anon mode)">>)
    [] "display_name" \in node.policies       -> Token("none", <<node.id>>)
    [] "display_name" \notin node.policies /\ HasLong(node) -> Token("long", node.long)
    [] "display_name" \notin node.policies /\ ~HasLong(node) /\ HasShort(node) -> Token("short", node.short)
    [] OTHER -> Token("none", node.none)

\* The names of a node, in the order they are compared
NameTokens(node) ==
  SelectSeq(<<Token("long", node.long), Token("short", node.short), Token("none", node.none)>>,
            LAMBDA t : t.name # <<>>)

\* As yet, nothing fits.
NoFit == [tokens |-> <<>>, score |-> Unbounded]

\* append_parents, and the reversal of unknown_argument_exception: the names of
\* the parents without the starting node, the outermost first, then the child's
PathTokens(token, path) ==
  LET parents == SubSeq(path, 2, Len(path) - 1)
  IN  Reverse([k \in DOMAIN parents |-> NodeTokenType(parents[k])]) \o <<token>>

\* The visitor of closest_matching_child_node
Closest(best, name, path) ==
  LET Try(b, token) ==
        LET score == LevenshteinDistance(name, token.name)
        IN  IF score < b.score THEN [tokens |-> PathTokens(token, path), score |-> score] ELSE b
  IN  IF IsRuntimeDisabled(path) THEN best ELSE FoldLeft(Try, best, NameTokens(Head(path)))
=============================================================================
