------------------------- MODULE GraphemeClusterBreak -------------------------
(***************************************************************************)
(* The rules that keep two code points in one grapheme cluster.  A rule is *)
(* given the trailing window, the classes of the code points behind the    *)
(* position, the nearest first, and the class of the one in front of it.   *)
(***************************************************************************)
EXTENDS RangeTable

grapheme_cluster_break_class ==
  {"any", "CR", "LF", "control", "extend", "ZWJ", "regional_indicator", "prepend",
   "spacing_mark", "L", "V", "T", "LV", "LVT", "extended_pictographic"}

\* Rows of grapheme_cluster_break_table, one or more of every class
GraphemeClusterTable ==
  <<Row(0, 9, "control"), Row(10, 10, "LF"), Row(11, 12, "control"),
    Row(13, 13, "CR"), Row(14, 31, "control"), Row(127, 159, "control"),
    Row(768, 879, "extend"), Row(1536, 1541, "prepend"), Row(2307, 2307, "spacing_mark"),
    Row(4352, 4447, "L"), Row(4448, 4519, "V"), Row(4520, 4607, "T"),
    Row(8205, 8205, "ZWJ"), Row(127462, 127487, "regional_indicator"),
    Row(128512, 128512, "extended_pictographic")>>

\* The syllables' rows of the table
GraphemeHangul(cp) == IF HasNoTrail(cp) THEN "LV" ELSE "LVT"

\* iterator::extract_class
GraphemeClass(cp) ==
  IF IsHangul(cp) THEN GraphemeHangul(cp) ELSE Meta(GraphemeClusterTable, cp, "any")
-----------------------------------------------------------------------------
\* Not between CR and LF
GB3(window, next) == window[1] = "CR" /\ next = "LF"

\* Not within Hangul syllables
GB6(window, next) == window[1] = "L" /\ next \in {"L", "V", "LV", "LVT"}
GB7(window, next) == window[1] \in {"LV", "V"} /\ next \in {"V", "T"}
GB8(window, next) == window[1] \in {"LVT", "T"} /\ next = "T"

\* Not before extending characters, a joiner or a spacing mark, nor after a
\* prepended character
GB9(window, next)  == next \in {"extend", "ZWJ"}
GB9a(window, next) == next = "spacing_mark"
GB9b(window, next) == window[1] = "prepend"

\* Not between a joiner and a pictograph
GB11(window, next) == window[1] = "ZWJ" /\ next = "extended_pictographic"

\* How many elements at the front of the window have the class
Leading(window, class) ==
  LET others == {k \in DOMAIN window : window[k] # class}
  IN  IF others = {} THEN Len(window)
      ELSE (CHOOSE k \in others : \A j \in others : k <= j) - 1

\* Not within a flag: behind an odd number of regional indicators
GB12_13(window, next) ==
  Leading(window, "regional_indicator") % 2 # 0 /\ next = "regional_indicator"

\* no_break_rules::grapheme_cluster: none of the rules forbids a break
GraphemeShouldBreak(window, next) ==
  ~ \/ GB3(window, next)  \/ GB6(window, next)  \/ GB7(window, next)
    \/ GB8(window, next)  \/ GB9(window, next)  \/ GB9a(window, next)
    \/ GB9b(window, next) \/ GB11(window, next) \/ GB12_13(window, next)
=============================================================================
