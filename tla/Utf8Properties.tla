--------------------------- MODULE Utf8Properties ---------------------------
(***************************************************************************)
(* What the iterators of Utf8 owe their users.                             *)
(***************************************************************************)
EXTENDS Utf8

\* The types of the iterators' members; no iterator runs past its text
\* (utf8.hpp:257-259, 563-566).
TypeOK ==
  /\ [text |-> text, kind |-> kind, columns |-> columns]
       \in [text : Seq(Nat), kind : {"clusters", "lines"}, columns : Nat]
  /\ phase \in {"scan", "have", "end"}
  /\ at \in 0 .. Len(text) /\ scan \in 0 .. Left /\ size \in 0 .. Left
  /\ width \in Nat
  /\ mark \in [size : 0 .. scan, columns : 0 .. width]
  /\ DOMAIN window = 1 .. WindowSize
  /\ pieces \in Seq([from : Nat, size : Nat])

End(piece) == piece.from + piece.size

\* Every code point of the text is in one piece, in order, but for the
\* whitespace a line leaves behind it (utf8.hpp:485-501).
NothingLost ==
  /\ pieces = <<>> => at = 0
  /\ pieces # <<>> => pieces[1].from = 0
  /\ \A k \in DOMAIN pieces :
       LET to == IF k = Len(pieces) THEN at ELSE pieces[k + 1].from
       IN  /\ End(pieces[k]) <= to
           /\ \A n \in End(pieces[k]) + 1 .. to : kind = "lines" /\ IsWhitespace(text[n])
-----------------------------------------------------------------------------
\* The rules applied to the text itself: all of it in front of the position,
\* the nearest first, takes the place of the window.
Behind(n)  == [k \in 1 .. n + 2 |-> IF k <= n THEN Class(text[n + 1 - k]) ELSE "any"]
Allowed(n) == ShouldBreak(Behind(n), Class(text[n + 1]))

IsIndicator(cp) == cp \in 127462 .. 127487

\* The code points a rule looks back over, flags and spaces, are fewer than
\* the window has room for.
LooksBack(cp) == IsIndicator(cp) \/ cp = 32
WindowSuffices ==
  \A m \in 1 .. Len(text) - WindowSize + 1 :
     \E k \in m .. m + WindowSize - 1 : ~LooksBack(text[k])

\* Where flags and spaces are fewer than the window has room for, the clusters
\* are exactly the stretches within which the rules allow no break.
\* (grapheme_cluster_break.hpp:35-38, utf8.hpp:217-259)
ClustersAsRuled ==
  kind = "clusters" /\ WindowSuffices =>
    \A k \in DOMAIN pieces :
      /\ \A n \in pieces[k].from + 1 .. End(pieces[k]) - 1 : ~Allowed(n)
      /\ End(pieces[k]) < Len(text) => Allowed(End(pieces[k]))

\* The columns of the first n code points of a text, and of those at m + 1 .. n
ColumnsUpTo(t) ==
  LET upTo[n \in 0 .. Len(t)] == IF n = 0 THEN 0 ELSE upTo[n - 1] + TerminalWidth(t[n])
  IN  upTo

Columns(m, n) == ColumnsUpTo(text)[n] - ColumnsUpTo(text)[m]

\* No line is wider than asked for (utf8.hpp:340-342).
LinesFit == kind = "lines" => \A k \in DOMAIN pieces :
                               Columns(pieces[k].from, End(pieces[k])) <= columns

\* Where a line that begins behind m may end
Opportunities(m) == {n \in m + 1 .. Len(text) - 1 :
                       Allowed(n) /\ Columns(m, n) \in 1 .. columns}

\* What is left in the window of an earlier line matters to no rule: there is
\* no flag, whose indicators are counted, and where there are Hebrew letters no
\* hyphen stands behind a space that a line may leave out between the two.
NothingCarried ==
  /\ \A k \in DOMAIN text : ~IsIndicator(text[k])
  /\ \/ \A k \in DOMAIN text : LineClass(text[k]) # "HL"
     \/ \A k \in 2 .. Len(text) :
          IsWhitespace(text[k - 1]) => LineClass(text[k]) \notin {"HY", "BA"}

\* A line ends at the last position where the rules allow it and it fits; if
\* there is none, only in front of a code point that does not fit.
EndsAsRuled(from, end) ==
  \/ end = Len(text)
  \/ IF Opportunities(from) # {} THEN end = Max(Opportunities(from))
                                 ELSE Columns(from, end + 1) > columns

\* Lines end as the rules, looking at all of the text, say, although a line
\* starts with the window the one before it left.  (utf8.hpp:503-566)
LinesAsRuled ==
  kind = "lines" /\ WindowSuffices /\ NothingCarried =>
    \A k \in DOMAIN pieces : EndsAsRuled(pieces[k].from, End(pieces[k]))

\* The loop over an iterator comes to its end (utf8.hpp:373-374).
IterationEnds == <>(phase = "end")
=============================================================================
