------------------------------- MODULE MCUtf8 -------------------------------
(***************************************************************************)
(* Short texts over code points of every class whose rule looks at more    *)
(* than its neighbour, with wide and empty ones, and narrow terminals.     *)
(***************************************************************************)
EXTENDS Utf8Properties

Letter == 97
Space == 32
Open == 40
Hyphen == 45
Hebrew == 1488
Accent == 769
Ideograph == 19968
Glue == 160
Flag == 127462
Joiner == 8205
Smile == 128512
Return == 13
Newline == 10
Lead == 4352
Syllable == 44032
Closed == 44033
Trail == 4520
Dash == 8212
Arabic == 1536
Mark0 == 2307

Texts(alphabet, n) == UNION {[1 .. k -> alphabet] : k \in 0 .. n}

Clusters(texts) == [text : texts, kind : {"clusters"}, columns : {0}]
Lines(texts, widths) == [text : texts, kind : {"lines"}, columns : widths]

MCInputs ==
  Clusters(Texts({Letter, Accent, Joiner, Smile, Flag}, 4))
  \cup Clusters(Texts({Flag, Letter}, 5))
  \cup Clusters(Texts({Return, Newline, Lead, Syllable, Closed, Trail, Arabic, Mark0}, 3))
  \cup Lines(Texts({Letter, Space, Open, Hyphen, Hebrew, Ideograph, Accent}, 4), {2, 3})
  \cup Lines(Texts({Letter, Space, Hyphen, Hebrew}, 5), {2})
  \cup Lines(Texts({Letter, Space, Dash, Glue}, 5), {2, 3, 4})
  \cup Lines(Texts({Letter, Space, Ideograph}, 6), {0, 3})
=============================================================================
