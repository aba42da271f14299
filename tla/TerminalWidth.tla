---------------------------- MODULE TerminalWidth ----------------------------
(***************************************************************************)
(* utf8::terminal_width(str): each code point of the string is decoded and *)
(* looked up, by the binary search of detail::find_range, in the table of  *)
(* the wide code points and then in that of the empty ones.                *)
(***************************************************************************)
EXTENDS CodePoint

CONSTANTS Inputs,        \* strings: [text, its code points, str, its bytes]
          DoubleRows,    \* double_width_table, unpacked
          ZeroRows       \* zero_width_table, unpacked

Rows == [first : 0 .. MaxBits, last : 0 .. MaxBits, meta : 0 .. 63]

ASSUME InputsAssumption == Inputs \subseteq [text : Seq(CodePoints), str : Seq(Byte)]
ASSUME RowsAssumption  == /\ DoubleRows \in Seq(Rows) /\ Ordered(DoubleRows)
                          /\ ZeroRows \in Seq(Rows) /\ Ordered(ZeroRows)

VARIABLES text,    \* the code points of the string; they never change
          str,     \* the bytes that are left
          cp,      \* the code point whose width is looked up
          table,   \* where: "double" or "zero"
          first,   \* the search goes on among the len rows from here
          len,
          width,   \* the columns so far
          phase    \* "decode", "search" or "done"

vars == <<text, str, cp, table, first, len, width, phase>>

RowsOf(t) == IF t = "double" THEN DoubleRows ELSE ZeroRows

Step    == len \div 2
Halfway == Pack(RowsOf(table)[first + Step])

Init == /\ \E input \in Inputs : text = input.text /\ str = input.str
        /\ cp = NoCodePoint
        /\ table = "double"
        /\ first = 1
        /\ len = 0
        /\ width = 0
        /\ phase = "decode"

\* The search for cp in a table begins.
Search(t) == /\ table' = t
             /\ first' = 1
             /\ len' = Len(RowsOf(t))

\* The next code point of the string.  (A string that ends within one is beyond
\* its end then, which is undefined: there is no such input.)
DecodeNext ==
  /\ phase = "decode" /\ str # <<>> /\ Size(str) <= Len(str)
  /\ cp' = Decode(str)
  /\ phase' = "search"
  /\ Search("double")
  /\ UNCHANGED <<text, str, width>>

Done == /\ phase = "decode" /\ str = <<>>
        /\ phase' = "done"
        /\ UNCHANGED <<text, str, cp, table, first, len, width>>

Searching == phase = "search" /\ len > 0

\* find_range: the code point is in front of the row in the middle,
Below == /\ Searching /\ cp < First(Halfway)
         /\ len' = Step
         /\ UNCHANGED <<text, str, cp, table, first, width, phase>>

\* Mutant of Above: the row in the middle is left among the rest
AboveKeepsRow == /\ Searching /\ cp > Last(Halfway) /\ cp >= First(Halfway)
                 /\ first' = first + Step
                 /\ len' = len - Step
                 /\ UNCHANGED <<text, str, cp, table, width, phase>>

\* Mutant of Above: a row too many is left out
AboveSkipsRow == /\ Searching /\ cp > Last(Halfway) /\ cp >= First(Halfway)
                 /\ first' = first + Step + 2
                 /\ len' = IF len > Step + 2 THEN len - (Step + 2) ELSE 0
                 /\ UNCHANGED <<text, str, cp, table, width, phase>>

\* behind it,
Above == /\ Searching /\ cp > Last(Halfway) /\ cp >= First(Halfway)
         /\ first' = first + Step + 1
         /\ len' = len - (Step + 1)
         /\ UNCHANGED <<text, str, cp, table, width, phase>>

\* The width is known: on to the next code point
Add(columns) == /\ width' = width + columns
                /\ str' = Advance(str)
                /\ phase' = "decode"
                /\ UNCHANGED <<text, cp, table, first, len>>

\* in it,
Inside == /\ Searching /\ cp >= First(Halfway) /\ cp <= Last(Halfway)
          /\ Add(IF table = "double" THEN 2 ELSE 0)

\* or in no row.
Missing == /\ phase = "search" /\ len = 0
           /\ \/ table = "zero" /\ Add(1)
              \/ /\ table = "double"
                 /\ Search("zero")
                 /\ UNCHANGED <<text, str, cp, width, phase>>

Next == DecodeNext \/ Done \/ Below \/ Inside \/ Above \/ Missing

Spec == Init /\ [][Next]_vars
-----------------------------------------------------------------------------
\* The types of find_range's and terminal_width's locals; the search stays
\* within its table (utf8.hpp:20-40).
TypeOK ==
  /\ text \in Seq(CodePoints)
  /\ str \in Seq(Byte)
  /\ cp \in -1 .. MaxBits
  /\ table \in {"double", "zero"}
  /\ first \in Nat \ {0} /\ len \in Nat /\ first + len <= Len(RowsOf(table)) + 1
  /\ width \in Nat
  /\ phase \in {"decode", "search", "done"}

\* The binary search never leaves behind the row it looks for: a row that has
\* the code point is among those that are left (utf8.hpp:20-40).
NeverLeftBehind ==
  phase = "search" =>
    \A k \in DOMAIN RowsOf(table) :
      Covers(RowsOf(table)[k], cp) => first <= k /\ k < first + len

\* Each turn at least halves what is left to search (utf8.hpp:25-38).
Halves == [][phase = "search" /\ phase' = "search" /\ table' = table => 2 * len' <= len]_vars

\* The bytes of a text, UTF-8 itself
BytesUpTo(codes) ==
  LET upTo[n \in 0 .. Len(codes)] ==
        IF n = 0 THEN <<>> ELSE upTo[n - 1] \o Encode(codes[n])
  IN  upTo
Bytes(codes) == BytesUpTo(codes)[Len(codes)]

\* What the theorems on the result ask of the strings: each is the encoding of
\* its text, without a code point whose header is misjudged.
WellEncoded ==
  \A input \in Inputs : /\ input.str = Bytes(input.text)
                       /\ \A k \in DOMAIN input.text : ~Misjudged(input.text[k])

\* What is left of the string are the bytes of the last code points of the
\* text: the decoder never loses its place among the bytes
\* (code_point.hpp:148-178, 190-222).
Remaining(n) == SubSeq(text, n + 1, Len(text))
InStep == \E n \in 0 .. Len(text) :
            /\ str = Bytes(Remaining(n))
            /\ Count(str) = Len(text) - n
            /\ phase = "search" => n < Len(text) /\ cp = text[n + 1]

\* What the tables say of a code point (utf8.hpp:316-336)
WidthOf(c) == CASE Known(DoubleRows, c) -> 2
                [] ~Known(DoubleRows, c) /\ Known(ZeroRows, c) -> 0
                [] OTHER -> 1

\* and of the first n of some
WidthUpTo(codes) ==
  LET upTo[n \in 0 .. Len(codes)] == IF n = 0 THEN 0 ELSE upTo[n - 1] + WidthOf(codes[n])
  IN  upTo

\* The result is "the terminal width (i.e. number columns) required by str"
\* (utf8.hpp:307).
WidthIsRight == phase = "done" => width = WidthUpTo(text)[Len(text)]
=============================================================================
