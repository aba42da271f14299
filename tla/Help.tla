-------------------------------- MODULE Help --------------------------------
(***************************************************************************)
(* What a program tells its user about its parse tree.                     *)
(*                                                                         *)
(* The help node searches the tree for the node its words lead to, and     *)
(* prints the rows below it, a line at a time; help() of the root prints   *)
(* them without a search.  An unknown argument ends the parse with an      *)
(* error that suggests the nearest name, about which the user may then ask *)
(* the help node.                                                          *)
(*                                                                         *)
(* A description is what line_iterator makes of it: lines of at most the   *)
(* columns it is given, broken anywhere (Utf8 has where).                  *)
(***************************************************************************)
EXTENDS Suggestion

CONSTANTS
  Cases,             \* what the user asks: see CasesAssumption
  Indent,            \* the columns of a level of the tree
  DescColumnOffset   \* the columns a description needs to be wrapped

ASSUME IndentAssumption == Indent \in Nat \ {0} /\ DescColumnOffset \in Nat \ {0}

\* kind is "help" (the words behind the help node's label), "method" (help() of
\* the root) or "typo" (the first word is unknown to the node that the others
\* lead to); flatten is the flatten_help policy, colour the formatter's kind.
ASSUME CasesAssumption ==
  \A c \in Cases : /\ DOMAIN c = {"tree", "kind", "words", "flatten", "colour", "columns"}
                   /\ c.kind \in {"help", "method", "typo"}
                   /\ c.columns \in Nat

VARIABLES
  asked,     \* the case; it never changes
  node,      \* the node the search has reached, or the walk started from
  words,     \* the words of the search that are left
  phase,     \* "find", "print", "describe", "walk", "suggested" or an ending
  told,      \* the words the error ends with
  best,      \* best_token and best_score
  at,        \* the next node of the walk, or row to print
  rows,      \* the rows to print
  start,     \* desc_column
  left,      \* the columns of the description that are not printed
  cursor,    \* the column the output has reached
  line,      \* the last piece of a row that was printed
  output     \* the nodes whose rows were printed

vars == <<asked, node, words, phase, told, best, at, rows, start, left, cursor, line, output>>

\* A label or a description, its row and its columns
Piece(what, row, from, to) == [what |-> what, row |-> row, from |-> from, to |-> to]

Tree == RootOf(asked.tree)

\* The words that lead to the node a typo was made at
TypoPath == Tail(asked.words)

\* The mode a word enters
ModeNamed(parent, word) ==
  CHOOSE c \in ToSet(parent.children) : c.type = "mode" /\ c.none = word

Init ==
  /\ asked \in Cases
  /\ node = IF asked.kind = "typo" THEN FoldLeft(ModeNamed, Tree, TypoPath) ELSE Tree
  /\ words = IF asked.kind = "help" THEN asked.words ELSE <<>>
  /\ phase = CASE asked.kind = "help"   -> "find"
               [] asked.kind = "method" -> "found"
               [] asked.kind = "typo"   -> "walk"
  /\ told = <<>>
  /\ best = NoFit
  /\ at = 1
  /\ rows = <<>>
  /\ start = 0
  /\ left = 0
  /\ cursor = 0
  /\ line = Piece("nothing", 0, 0, 0)
  /\ output = <<>>
-----------------------------------------------------------------------------
\* find_help_target

\* Mutant of Refused: a disabled node is entered
RefusedNever(n) == FALSE

Refused(n) == RuntimeDisabled(n)

\* A disabled node is not there.  The error names the word in front; if the
\* node was the last word's there is none, and front() of an empty vector is
\* whatever it held, or the end of a program that was built to check it.
Refuse ==
  /\ phase = "find" /\ Refused(node)
  /\ \/ phase' = "unknown"
     \/ words = <<>> /\ phase' = "aborted"
  /\ told' \in IF words # <<>> THEN {<<words[1]>>} ELSE {<<w>> : w \in ToSet(asked.words)}
  /\ UNCHANGED <<asked, node, words, best, at, rows, start, left, cursor, line, output>>

\* The word is a name of the child.
IsTarget(child, word) == Match(child, GetTokenTypeFor(child, word))

FirstMatch == SelectInSeq(node.children, LAMBDA c : IsTarget(c, words[1]))

Descend ==
  /\ phase = "find" /\ ~Refused(node) /\ words # <<>> /\ FirstMatch # 0
  /\ node' = node.children[FirstMatch]
  /\ words' = Tail(words)
  /\ UNCHANGED <<asked, phase, told, best, at, rows, start, left, cursor, line, output>>

NoTarget ==
  /\ phase = "find" /\ ~Refused(node) /\ words # <<>> /\ FirstMatch = 0
  /\ phase' = "unknown"
  /\ told' = <<words[1]>>
  /\ UNCHANGED <<asked, node, words, best, at, rows, start, left, cursor, line, output>>

Arrive ==
  /\ phase = "find" /\ ~Refused(node) /\ words = <<>>
  /\ phase' = "found"
  /\ UNCHANGED <<asked, node, words, told, best, at, rows, start, left, cursor, line, output>>
-----------------------------------------------------------------------------
\* Mutant of DescriptionColumnStart: the level of a row is not counted
DescriptionColumnStartFlat(all) == Max({ColumnsOf(all[k].label) + Indent : k \in DOMAIN all})

\* description_column_start: over all rows, disabled nodes included
DescriptionColumnStart(all) ==
  Max({all[k].depth * Indent + ColumnsOf(all[k].label) + Indent : k \in DOMAIN all})

\* help_t::parse and root_t::help up to the formatter: a node that was asked
\* for is flattened
Flatten == asked.flatten \/ (asked.kind # "method" /\ node.type # "root")

Generate ==
  /\ phase = "found"
  /\ phase' = "print"
  /\ rows' = Rows(node, <<>>, 0, Flatten, TRUE)
  /\ start' = DescriptionColumnStart(Rows(node, <<>>, 0, Flatten, FALSE))
  /\ at' = 1
  /\ UNCHANGED <<asked, node, words, told, best, left, cursor, line, output>>

\* std::numeric_limits<std::size_t>::max(), as wide as any text here
Unlimited == 1000

\* Mutant of Wrapped: a description may be left less than the offset
WrappedTight == asked.columns >= start

\* The terminal is wide enough for descriptions to be wrapped.
Wrapped == asked.columns >= start + DescColumnOffset

\* The columns line_iterator is given
Room == (IF Wrapped THEN asked.columns ELSE Unlimited) - start

\* The gap in front of a label.  setw(0) << ' ' is one blank.
LabelGap(depth) ==
  IF asked.colour /\ depth = 0 THEN 1 ELSE depth * Indent

\* A row without a label is not printed, what is below it is.
SkipRow ==
  /\ phase = "print" /\ at <= Len(rows) /\ rows[at].label = <<>>
  /\ at' = at + 1
  /\ UNCHANGED <<asked, node, words, phase, told, best, rows, start, left, cursor, line, output>>

PrintLabel ==
  /\ phase = "print" /\ at <= Len(rows) /\ rows[at].label # <<>>
  /\ LET row == rows[at]
         gap == start - row.depth * Indent - ColumnsOf(row.label)
         end == LabelGap(row.depth) + ColumnsOf(row.label)
     IN  /\ line' = Piece("label", at, LabelGap(row.depth), end)
         /\ output' = Append(output, row.id)
         /\ left' = ColumnsOf(row.description)
         /\ IF row.description = <<>>
            THEN /\ at' = at + 1
                 /\ cursor' = 0
                 /\ UNCHANGED phase
            ELSE /\ phase' = "describe"
                 /\ cursor' = end + gap
                 /\ UNCHANGED at
  /\ UNCHANGED <<asked, node, words, told, best, rows, start>>

\* A line of the description, and the gap in front of the next
PrintDescription ==
  /\ phase = "describe"
  /\ \E n \in IF left <= Room THEN {left} ELSE 1 .. Room :
       /\ line' = Piece("description", at, cursor, cursor + n)
       /\ left' = left - n
       /\ IF n = left
          THEN /\ phase' = "print"
               /\ at' = at + 1
               /\ cursor' = 0
          ELSE /\ cursor' = start
               /\ UNCHANGED <<phase, at>>
  /\ UNCHANGED <<asked, node, words, told, best, rows, start, output>>

\* The output goes to the router, or to the terminal and the program exits.
Shows ==
  /\ phase = "print" /\ at > Len(rows)
  /\ phase' = "shown"
  /\ UNCHANGED <<asked, node, words, told, best, at, rows, start, left, cursor, line, output>>
-----------------------------------------------------------------------------
\* unknown_argument_exception

\* All nodes but the starting one
Candidates == Tail(TreeRecursor(<<node>>))

\* The token without its prefix
Unknown == GetTokenType(Head(asked.words)).name

Visit ==
  /\ phase = "walk" /\ at <= Len(Candidates)
  /\ best' = Closest(best, Unknown, Candidates[at])
  /\ at' = at + 1
  /\ UNCHANGED <<asked, node, words, phase, told, rows, start, left, cursor, line, output>>

\* A token as the user types it
AsWord(token) ==
  CASE token.pre = "long"  -> <<LongPrefix>> \o token.name
    [] token.pre = "short" -> <<ShortPrefix>> \o token.name
    [] token.pre = "none"  -> token.name

Throws ==
  /\ phase = "walk" /\ at > Len(Candidates)
  /\ told' = <<Head(asked.words)>> \o [k \in DOMAIN best.tokens |-> AsWord(best.tokens[k])]
  /\ phase' = IF best.tokens = <<>> THEN "unknown" ELSE "suggested"
  /\ UNCHANGED <<asked, node, words, best, at, rows, start, left, cursor, line, output>>

\* The user asks about the suggestion.
AskAboutSuggestion ==
  /\ phase = "suggested"
  /\ phase' = "find"
  /\ node' = Tree
  /\ words' = TypoPath \o Tail(told)
  /\ UNCHANGED <<asked, told, best, at, rows, start, left, cursor, line, output>>
-----------------------------------------------------------------------------
Next == \/ Refuse \/ Descend \/ NoTarget \/ Arrive
        \/ Generate \/ SkipRow \/ PrintLabel \/ PrintDescription \/ Shows
        \/ Visit \/ Throws \/ AskAboutSuggestion

Spec == Init /\ [][Next]_vars /\ WF_vars(Next)
=============================================================================
