--------------------------- MODULE HelpProperties ---------------------------
(***************************************************************************)
(* What the user may rely on when the program explains itself.             *)
(***************************************************************************)
EXTENDS Help

Endings == {"shown", "unknown", "aborted"}

\* The paths from a node downwards, the node itself first
RECURSIVE PathsBelow(_)
PathsBelow(n) ==
  {<<n>>} \cup UNION {{<<n>> \o p : p \in PathsBelow(c)} : c \in ToSet(n.children)}

Enabled(path) == \A k \in DOMAIN path : ~RuntimeDisabled(path[k])

IsNameOf(word, n) == \E token \in ToSet(NameTokens(n)) : word = AsWord(token)

\* Words are the names of the nodes on a path from the root.
NamesPath(asking, path) ==
  /\ Len(path) = Len(asking) + 1
  /\ \A k \in DOMAIN asking : IsNameOf(asking[k], path[k + 1])

Leads(asking) == \E path \in PathsBelow(Tree) : NamesPath(asking, path) /\ Enabled(path)

\* The help node finds what its words lead to, and only that: the first child
\* that matches is entered for good, and still no word is given up that would
\* have led to an enabled node (help.hpp:235-275).
FoundIsTrue ==
  asked.kind = "help" =>
    /\ phase = "found" => \E path \in PathsBelow(Tree) : NamesPath(asked.words, path) /\ Enabled(path) /\ Last(path) = node
    /\ phase \in {"unknown", "aborted"} => ~Leads(asked.words)

\* A node that is disabled at run time is not there for the help node: the
\* error names the first word that leads nowhere.
NamesTheWord ==
  asked.kind = "help" /\ phase \in {"unknown", "aborted"} =>
    /\ phase = "unknown"
    /\ \E k \in DOMAIN asked.words : /\ told = <<asked.words[k]>>
                                     /\ Leads(SubSeq(asked.words, 1, k - 1))
                                     /\ ~Leads(SubSeq(asked.words, 1, k))

\* A path that the output shows: of enabled nodes, and through a named mode
\* only if it is the node asked for or the output is flattened
IsShown(path) ==
  /\ Enabled(Tail(path))
  /\ HelpLabel(Last(path)) # <<>>
  /\ \A k \in 1 .. Len(path) - 1 :
       path[k].type = "mode" /\ HasNone(path[k]) => asked.flatten \/ node.type # "root"

ShownPaths == {path \in PathsBelow(node) : IsShown(path)}

\* The output has every enabled node the user should see below the one asked
\* for, once, behind its parent, and no disabled one, though the layout is
\* computed over all of them (help.hpp:135-165, tree_node.hpp:370-404).
ShownOnce ==
  phase = "shown" =>
    /\ \A id \in ToSet(output) \cup {Last(path).id : path \in ShownPaths} :
         Cardinality({k \in DOMAIN output : output[k] = id}) =
           Cardinality({path \in ShownPaths : Last(path).id = id})
    /\ \A j, k \in DOMAIN rows : rows[j].depth < rows[k].depth => \E i \in 1 .. k - 1 : rows[i].depth = rows[k].depth - 1

\* One blank too many in front of a row of the colour formatter at depth 0
Slip(row) == IF asked.colour /\ rows[row].depth = 0 THEN 1 ELSE 0

\* Whatever is disabled, all descriptions are in one column, which is computed
\* at compile time, at least an indent behind every label, and none is wider
\* than a terminal with room for it (default_help_formatter.hpp:93-127,
\* 290-333).
Aligned ==
  /\ line.what = "label" => line.to <= start - Indent + Slip(line.row)
  /\ line.what = "description" =>
       /\ line.from \in {start, start + Slip(line.row)}
       /\ Wrapped => line.to <= asked.columns + Slip(line.row)

\* Every question is answered: the search consumes a word at every node, and a
\* description is wrapped only if line_iterator is given columns to fill.
HelpEnds == <>(phase \in Endings)

\* The number of edits that make one sequence the other
RECURSIVE EditsBetween(_, _)
EditsBetween(a, b) ==
  CASE a = <<>> \/ b = <<>> -> Len(a) + Len(b)
    [] a # <<>> /\ b # <<>> /\ Head(a) = Head(b) -> EditsBetween(Tail(a), Tail(b))
    [] OTHER -> 1 + Min({EditsBetween(Tail(a), b), EditsBetween(a, Tail(b)),
                         EditsBetween(Tail(a), Tail(b))})

\* The enabled nodes below the one that did not know the word
Suggestible == {p \in PathsBelow(node) : Len(p) > 1 /\ Enabled(p)}

\* An unknown argument's error suggests an enabled node, under its path, and
\* none whose name is nearer; there is no suggestion only if nothing is enabled
\* (levenshtein_distance.hpp:22-58, 70-148).
NearestSuggested ==
  asked.kind = "typo" /\ phase \in {"suggested", "unknown"} /\ words = <<>> =>
    LET names == UNION {{<<p, token>> : token \in ToSet(NameTokens(Last(p)))} : p \in Suggestible}
        Edits(name) == EditsBetween(Unknown, name[2].name)
    IN  IF names = {} THEN phase = "unknown"
        ELSE /\ phase = "suggested"
             /\ \E name \in names :
                  /\ \A other \in names : Edits(name) <= Edits(other)
                  /\ Tail(told) = Append([k \in 1 .. Len(name[1]) - 2 |->
                                            AsWord(NodeTokenType(name[1][k + 1]))],
                                         AsWord(name[2]))

\* What was suggested can be asked about, unless a parent of it has no name: the
\* walk and the search agree on what is disabled, though one looks at a node
\* with all its parents and the other stops at the first.
SuggestionCanBeAsked ==
  LET asking == TypoPath \o [k \in DOMAIN best.tokens |-> AsWord(best.tokens[k])]
  IN  asked.kind = "typo" /\ phase \in {"unknown", "aborted"} /\ best.tokens # <<>> =>
        ~\E path \in PathsBelow(Tree) : NamesPath(asking, path)
=============================================================================
