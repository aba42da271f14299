------------------------------- MODULE LineBreak -------------------------------
(***************************************************************************)
(* The rules that forbid a line break between two code points.  A rule is  *)
(* given the trailing window, the classes of the code points behind the    *)
(* position, the nearest first, and the class of the one in front of it.   *)
(***************************************************************************)
EXTENDS RangeTable

line_break_class ==
  {"any", "AL", "BA", "BB", "B2", "BK", "CB", "CL", "CM", "CP", "CR", "EB", "EM", "EX",
   "GL", "H2", "H3", "HY", "ID", "HL", "IN", "IS", "JL", "JT", "JV", "LF", "NL", "NS",
   "NU", "OP", "PO", "PR", "QU", "RI", "SP", "SY", "WJ", "ZW", "ZWJ"}

\* Rows of line_break_table
LineTable ==
  <<Row(10, 10, "LF"), Row(13, 13, "CR"), Row(32, 32, "SP"), Row(33, 33, "EX"),
    Row(34, 34, "QU"), Row(36, 36, "PR"), Row(37, 37, "PO"), Row(40, 40, "OP"),
    Row(41, 41, "CP"), Row(45, 45, "HY"), Row(46, 46, "IS"), Row(47, 47, "SY"),
    Row(48, 57, "NU"), Row(65, 90, "AL"), Row(97, 122, "AL"), Row(160, 160, "GL"),
    Row(768, 846, "CM"), Row(1488, 1514, "HL"),
    Row(1536, 1541, "AL"), Row(2307, 2307, "CM"), Row(4352, 4447, "JL"),
    Row(4448, 4519, "JV"), Row(4520, 4607, "JT"), Row(8203, 8203, "ZW"),
    Row(8205, 8205, "ZWJ"), Row(8212, 8212, "B2"), Row(8288, 8288, "WJ"),
    Row(12288, 12288, "BA"), Row(19968, 40959, "ID"), Row(127462, 127487, "RI"),
    Row(128512, 128580, "ID")>>

\* The syllables' rows of the table
LineHangul(cp) == IF HasNoTrail(cp) THEN "H2" ELSE "H3"

\* line_iterator::extract_class
LineClass(cp) == IF IsHangul(cp) THEN LineHangul(cp) ELSE Meta(LineTable, cp, "any")
-----------------------------------------------------------------------------
\* Not before a hard line break, a space or a zero width space
LB6(window, next) == next \in {"BK", "CR", "LF", "NL"}
LB7(window, next) == next \in {"SP", "ZW"}

\* Not after a combining character or a zero width joiner
LB8a_9(window, next) == window[1] \in {"CM", "ZWJ"}

\* Not around a word joiner, nor around what glues
LB11(window, next)  == "WJ" \in {window[1], next}
LB12(window, next)  == window[1] = "GL"
LB12a(window, next) == window[1] \notin {"SP", "BA", "HY"} /\ next = "GL"

\* Not before closing punctuation
LB13(window, next) == next \in {"CL", "CP", "EX", "IS", "SY"}

\* The nearest class that is no space, "none" if the window has only spaces
BehindSpaces(window) ==
  LET others == {k \in DOMAIN window : window[k] # "SP"}
  IN  IF others = {} THEN "none" ELSE window[CHOOSE k \in others : \A j \in others : k <= j]

\* Not behind OP SP*, nor between QU SP* and OP, closing punctuation SP* and
\* NS, or two dashes with spaces between them
LB14(window, next) == BehindSpaces(window) = "OP"
LB15(window, next) == BehindSpaces(window) = "QU" /\ next = "OP"
LB16(window, next) == BehindSpaces(window) \in {"CL", "CP"} /\ next = "NS"
LB17(window, next) == BehindSpaces(window) = "B2" /\ next = "B2"

\* Not around quotation marks
LB19(window, next) == "QU" \in {window[1], next}

\* Not before hyphens and small kana, nor after acute accents; a Hebrew letter
\* keeps its hyphen's successor, and its predecessor /
LB21(window, next)  == next \in {"BA", "HY", "NS"} \/ window[1] = "BB"
LB21a(window, next) == window[2] = "HL" /\ window[1] \in {"HY", "BA"}
LB21b(window, next) == window[1] = "SY" /\ next = "HL"
LB22(window, next)  == next = "IN"

Letters    == {"AL", "HL"}
Ideographs == {"ID", "EB", "EM"}

\* Not between digits and letters, nor between these or ideographs and the
\* signs before or after a number
LB23(window, next) ==
  \/ window[1] \in Letters /\ next = "NU"
  \/ window[1] = "NU" /\ next \in Letters
LB23a(window, next) ==
  \/ window[1] = "PR" /\ next \in Ideographs
  \/ window[1] \in Ideographs /\ next = "PO"
LB24(window, next) ==
  \/ window[1] \in {"PR", "PO"} /\ next \in Letters
  \/ window[1] \in Letters /\ next \in {"PR", "PO"}

\* Not within numbers
LB25(window, next) ==
  <<window[1], next>> \in ({"CL", "CP", "NU"} \X {"PO", "PR"})
                     \cup ({"PO", "PR"} \X {"OP", "NU"})
                     \cup ({"HY", "IS", "NU", "SY"} \X {"NU"})

\* Not within Korean syllables, nor between them and the signs of a number
LB26(window, next) ==
  \/ window[1] = "JL" /\ next \in {"JL", "JV", "H2", "H3"}
  \/ window[1] \in {"JV", "H2"} /\ next \in {"JV", "JT"}
  \/ window[1] \in {"JT", "H3"} /\ next = "JT"

Korean == {"JL", "JV", "JT", "H2", "H3"}

LB27(window, next) ==
  \/ window[1] \in Korean /\ next = "PO"
  \/ window[1] = "PR" /\ next \in Korean

\* Not between letters, nor between them and numeric punctuation or parentheses
LB28(window, next) == window[1] \in Letters /\ next \in Letters
LB29(window, next) == window[1] = "IS" /\ next \in Letters
LB30(window, next) ==
  \/ window[1] \in Letters \cup {"NU"} /\ next = "OP"
  \/ window[1] = "CP" /\ next \in Letters \cup {"NU"}

\* The regional indicators at the front of the window
Indicators(window) ==
  LET others == {k \in DOMAIN window : window[k] # "RI"}
  IN  IF others = {} THEN Len(window)
      ELSE (CHOOSE k \in others : \A j \in others : k <= j) - 1

\* Not within a flag, nor between a pictograph and its modifier
LB30a(window, next) == Indicators(window) % 2 # 0 /\ next = "RI"
LB30b(window, next) == window[1] = "EB" /\ next = "EM"

\* no_break_rules::line_break: none of the rules forbids a break
LineShouldBreak(window, next) ==
  ~ \/ LB6(window, next)   \/ LB7(window, next)   \/ LB8a_9(window, next)
    \/ LB11(window, next)  \/ LB12(window, next)  \/ LB12a(window, next)
    \/ LB13(window, next)  \/ LB14(window, next)  \/ LB15(window, next)
    \/ LB16(window, next)  \/ LB17(window, next)  \/ LB19(window, next)
    \/ LB21(window, next)  \/ LB21a(window, next) \/ LB21b(window, next)
    \/ LB22(window, next)  \/ LB23(window, next)  \/ LB23a(window, next)
    \/ LB24(window, next)  \/ LB25(window, next)  \/ LB26(window, next)
    \/ LB27(window, next)  \/ LB28(window, next)  \/ LB29(window, next)
    \/ LB30(window, next)  \/ LB30a(window, next) \/ LB30b(window, next)
=============================================================================
