------------------------------ MODULE RangeTable ------------------------------
(***************************************************************************)
(* Tables of code points: sequences of inclusive ranges, each with a class *)
(* as its metadata.  Find is what utf8::detail::find_range promises;       *)
(* TerminalWidth has the binary search that finds it.                      *)
(***************************************************************************)
EXTENDS Integers, Sequences

Row(first, last, meta) == [first |-> first, last |-> last, meta |-> meta]

Covers(range, cp) == range.first <= cp /\ cp <= range.last

\* The order of the generated tables: no two ranges share a code point.
Ordered(table) ==
  /\ \A k \in DOMAIN table : table[k].first <= table[k].last
  /\ \A j, k \in DOMAIN table : j < k => table[j].last < table[k].first

Known(table, cp) == \E k \in DOMAIN table : Covers(table[k], cp)

\* The metadata of the range that has cp, or other
Meta(table, cp, other) ==
  IF Known(table, cp) THEN table[CHOOSE k \in DOMAIN table : Covers(table[k], cp)].meta
                      ELSE other
-----------------------------------------------------------------------------
\* whitespace_table
Whitespace ==
  <<Row(9, 13, 0), Row(32, 32, 0), Row(133, 133, 0), Row(160, 160, 0),
    Row(5760, 5760, 0), Row(8192, 8202, 0), Row(8232, 8232, 0), Row(8233, 8233, 0),
    Row(8239, 8239, 0), Row(8287, 8287, 0), Row(12288, 12288, 0)>>

\* Rows of double_width_table and of zero_width_table
DoubleWidth == <<Row(4352, 4447, 0), Row(12288, 12288, 0), Row(19968, 40959, 0),
                 Row(44032, 55203, 0), Row(65281, 65283, 0), Row(128512, 128591, 0)>>
ZeroWidth   == <<Row(768, 879, 0), Row(1155, 1159, 0), Row(1160, 1161, 0)>>

\* The Hangul syllables, from U+AC00 to U+D7A3: in each block of 28 the first
\* has no trailing consonant.  Most of the two class tables is this pattern.
HangulFirst == 44032
HangulLast  == 55203
IsHangul(cp)    == cp \in HangulFirst .. HangulLast
HasNoTrail(cp)  == (cp - HangulFirst) % 28 = 0
=============================================================================
