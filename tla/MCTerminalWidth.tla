--------------------------- MODULE MCTerminalWidth ---------------------------
(***************************************************************************)
(* Texts over the code points at which the number of bytes and the rows of *)
(* the tables change, and tables of which some have an odd number of rows. *)
(***************************************************************************)
EXTENDS TerminalWidth

\* One, two, three and four bytes, first and last; not the misjudged ones
Boundaries == {0, 65, 127, 128, 768, 879, 1155, 1160, 1983, 2048, 4352, 4447, 4448,
               12287, 12288, 12289, 40959, 55203, 61439, 65536, 128512, 128591, 1114111}

Encoded(codes) == [text |-> codes, str |-> Bytes(codes)]

ShortTexts == {Encoded(codes) : codes \in UNION {[1 .. n -> Boundaries] : n \in 0 .. 2}}

\* The theorems are about these strings too.
ASSUME StringsAssumption == WellEncoded
=============================================================================
