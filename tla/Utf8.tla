--------------------------------- MODULE Utf8 ---------------------------------
(***************************************************************************)
(* The two iterators of utf8.hpp over a text: utf8::iterator, which yields *)
(* its grapheme clusters, and line_iterator, which yields lines of at most *)
(* so many terminal columns.  Text is a sequence of code points, sizes are *)
(* counted in code points (CodePoint has the bytes), and it is well formed.*)
(***************************************************************************)
EXTENDS GraphemeClusterBreak, LineBreak, FiniteSetsExt

CONSTANTS Inputs,      \* what is iterated over: [text, kind, columns]
          WindowSize   \* AR_UTF8_TRAILING_WINDOW_SIZE

ASSUME WindowSizeAssumption == WindowSize \in Nat /\ WindowSize >= 2
ASSUME InputsAssumption ==
  Inputs \subseteq [text : Seq(Nat), kind : {"clusters", "lines"}, columns : Nat]

VARIABLES text,      \* the string; it never changes
          kind,      \* "clusters" or "lines", the class of the iterator
          columns,   \* max_columns_ of a line_iterator
          phase,     \* "scan", "have" (a piece) or "end"
          at,        \* the code points removed from the front of str_
          scan,      \* the code points behind at that were looked at
          width,     \* their columns
          mark,      \* the last break between them: code points and columns
          window,    \* trailing_window_
          size,      \* current_ or line_break_byte_
          pieces     \* the non-empty pieces the user has seen: [from, size]

vars == <<text, kind, columns, phase, at, scan, width, mark, window, size, pieces>>

\* terminal_width of one code point
TerminalWidth(cp) == CASE Known(DoubleWidth, cp) -> 2
                       [] Known(ZeroWidth, cp)   -> 0
                       [] OTHER                  -> 1

IsWhitespace(cp) == Known(Whitespace, cp)

Class(cp) == IF kind = "clusters" THEN GraphemeClass(cp) ELSE LineClass(cp)
ShouldBreak(win, next) ==
  IF kind = "clusters" THEN GraphemeShouldBreak(win, next) ELSE LineShouldBreak(win, next)

Piece(from, n) == [from |-> from, size |-> n]
Mark(n, cols)  == [size |-> n, columns |-> cols]

Left == Len(text) - at

\* fill_trailing_window
EmptyWindow == [k \in 1 .. WindowSize |-> "any"]

\* Mutant of Rotated: the window keeps only the current class
RotatedAway(class) == [EmptyWindow EXCEPT ![1] = class]

\* rotate_trailing_window, with the class of the current code point in front
Rotated(class) == [k \in 1 .. WindowSize |-> IF k = 1 THEN class ELSE window[k - 1]]

\* The code point behind the scanned ones, and the class of the one after it
Current   == text[at + scan + 1]
NextClass == IF at + scan + 2 <= Len(text) THEN Class(text[at + scan + 2]) ELSE "any"

\* A line_iterator of zero columns is given no text.
Init == /\ \E input \in Inputs : /\ kind = input.kind
                                 /\ columns = input.columns
                                 /\ text = IF input.kind = "lines" /\ input.columns = 0
                                           THEN <<>> ELSE input.text
        /\ phase = IF text = <<>> THEN "end" ELSE "scan"
        /\ at = 0
        /\ scan = 0
        /\ width = 0
        /\ mark = Mark(0, 0)
        /\ window = EmptyWindow
        /\ size = 0
        /\ pieces = <<>>
-----------------------------------------------------------------------------
\* One turn of the loop of iterator::update_current
ScanCluster ==
  /\ kind = "clusters" /\ phase = "scan" /\ scan < Left
  /\ window' = Rotated(Class(Current))
  /\ scan' = scan + 1
  /\ \/ /\ ~ShouldBreak(window', NextClass) /\ scan' < Left
        /\ UNCHANGED <<phase, size>>
     \/ /\ ShouldBreak(window', NextClass) \/ scan' = Left
        /\ phase' = "have"
        /\ size' = scan'
  /\ UNCHANGED <<text, kind, columns, at, width, mark, pieces>>

\* Mutant of ScanLine: the column limit may be reached one code point late
ScanLineLate ==
  /\ kind = "lines" /\ phase = "scan" /\ scan < Left /\ width <= columns
  /\ window' = Rotated(Class(Current))
  /\ scan' = scan + 1
  /\ width' = width + TerminalWidth(Current)
  /\ mark' = IF ShouldBreak(window', NextClass) THEN Mark(scan', width') ELSE mark
  /\ UNCHANGED <<text, kind, columns, phase, at, size, pieces>>

\* One turn of the loop of line_iterator::consume: the code point fits.
ScanLine ==
  /\ kind = "lines" /\ phase = "scan" /\ scan < Left
  /\ width + TerminalWidth(Current) <= columns
  /\ window' = Rotated(Class(Current))
  /\ scan' = scan + 1
  /\ width' = width + TerminalWidth(Current)
  /\ mark' = IF ShouldBreak(window', NextClass) THEN Mark(scan', width') ELSE mark
  /\ UNCHANGED <<text, kind, columns, phase, at, size, pieces>>

\* Mutant of LineFull: a line that may break nowhere is not broken by force
LineFullNoForce ==
  /\ kind = "lines" /\ phase = "scan" /\ scan < Left
  /\ width + TerminalWidth(Current) > columns
  /\ phase' = "have"
  /\ size' = mark.size
  /\ UNCHANGED <<text, kind, columns, at, scan, width, mark, window, pieces>>

\* It does not: break where it is allowed, or in front of the code point if
\* it is allowed nowhere.
LineFull ==
  /\ kind = "lines" /\ phase = "scan" /\ scan < Left
  /\ width + TerminalWidth(Current) > columns
  /\ phase' = "have"
  /\ size' = IF mark.columns = 0 THEN scan ELSE mark.size
  /\ UNCHANGED <<text, kind, columns, at, scan, width, mark, window, pieces>>

\* The rest of the text is the last line.
LastLine ==
  /\ kind = "lines" /\ phase = "scan" /\ scan = Left
  /\ phase' = "have"
  /\ size' = Left
  /\ UNCHANGED <<text, kind, columns, at, scan, width, mark, window, pieces>>

\* Mutant of Removed: whatever is in front of the next line is removed
RemovedOne(n) == IF n < Len(text) THEN n + 1 ELSE n

\* Mutant of Removed: the same, beyond the end of the text
RemovedPast(n) == n + 1

\* What is removed from the front: a line takes the whitespace behind it along.
Removed(n) ==
  IF kind = "lines" /\ size # 0
  THEN Min({m \in n .. Len(text) : m < Len(text) => ~IsWhitespace(text[m + 1])})
  ELSE n

\* The user looks at the piece, and operator++ goes to the next.
Increment ==
  /\ phase = "have"
  /\ pieces' = IF size = 0 THEN pieces ELSE Append(pieces, Piece(at, size))
  /\ at' = Removed(at + size)
  /\ phase' = IF at' = Len(text) THEN "end" ELSE "scan"
  /\ size' = 0
  /\ scan' = 0
  /\ width' = 0
  /\ mark' = Mark(0, 0)
  /\ UNCHANGED <<text, kind, columns, window>>

Next == ScanCluster \/ ScanLine \/ LineFull \/ LastLine \/ Increment

Spec == Init /\ [][Next]_vars /\ WF_vars(Next)
=============================================================================
