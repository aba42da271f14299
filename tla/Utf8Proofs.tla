----------------------------- MODULE Utf8Proofs -----------------------------
(***************************************************************************)
(* What the iterators of utf8.hpp guarantee for every text, every number   *)
(* of columns and every size of the trailing window: first what holds      *)
(* whatever the break rules say, then where the pieces end.                *)
(***************************************************************************)
EXTENDS Utf8Properties, BasicProofs

-----------------------------------------------------------------------------
\* The sums of a text's widths

LEMMA WidthTyped == \A cp : TerminalWidth(cp) \in Nat
  BY DEF TerminalWidth

Sums(t, n, g) == /\ g \in [0 .. n -> Nat]
                 /\ g[0] = 0
                 /\ \A k \in 1 .. n : g[k] = g[k - 1] + TerminalWidth(t[k])

LEMMA SumsExist ==
  ASSUME NEW t \in Seq(Nat)
  PROVE  \E g : Sums(t, Len(t), g)
<1> DEFINE Bad == {n \in 0 .. Len(t) : ~ \E g : Sums(t, n, g)}
<1>1. SUFFICES ASSUME Bad # {} PROVE FALSE
  <2>1. Len(t) \in 0 .. Len(t)
    OBVIOUS
  <2> QED
    BY <1>1, <2>1
<1>2. PICK m \in Bad : \A k \in Bad : m <= k
  BY <1>1, LeastOfNumbers, Bad \in SUBSET Nat
<1>3. m # 0
  <2>1. Sums(t, 0, [k \in 0 .. 0 |-> 0])
    BY DEF Sums
  <2> QED
    BY <2>1
<1>4. m \in Nat /\ m - 1 \in Nat /\ m - 1 \in 0 .. Len(t)
  BY <1>3
<1>5. m - 1 \notin Bad
  <2>1. ~(m <= m - 1)
    BY <1>4
  <2> HIDE DEF Bad
  <2> QED
    BY <1>2, <2>1
<1>6. PICK g : Sums(t, m - 1, g)
  BY <1>4, <1>5
<1> DEFINE h == [k \in 0 .. m |-> IF k = m THEN g[m - 1] + TerminalWidth(t[m]) ELSE g[k]]
<1>7. Sums(t, m, h)
  <2>1. g \in [0 .. m - 1 -> Nat] /\ g[0] = 0
    BY <1>6 DEF Sums
  <2>2. \A k \in 1 .. m - 1 : g[k] = g[k - 1] + TerminalWidth(t[k])
    BY <1>6 DEF Sums
  <2>3. h \in [0 .. m -> Nat]
    BY <1>4, <2>1, WidthTyped
  <2>4. h[0] = 0
    BY <1>3, <1>4, <2>1
  <2>5. \A k \in 1 .. m : h[k] = h[k - 1] + TerminalWidth(t[k])
    BY <1>4, <2>1, <2>2
  <2> QED
    BY <2>3, <2>4, <2>5 DEF Sums
<1> QED
  BY <1>7

LEMMA ColumnsSum ==
  ASSUME NEW t \in Seq(Nat)
  PROVE  Sums(t, Len(t), ColumnsUpTo(t))
<1>1. PICK g : Sums(t, Len(t), g)
  BY SumsExist
<1>2. Len(t) \in Nat
  OBVIOUS
<1>3. g = [n \in 0 .. Len(t) |-> IF n = 0 THEN 0 ELSE g[n - 1] + TerminalWidth(t[n])]
  BY <1>1, <1>2 DEF Sums
<1> DEFINE f == ColumnsUpTo(t)
<1>4. f = [n \in 0 .. Len(t) |-> IF n = 0 THEN 0 ELSE f[n - 1] + TerminalWidth(t[n])]
  BY <1>3 DEF ColumnsUpTo
<1> HIDE DEF f
<1>5. f[0] = 0 /\ \A k \in 1 .. Len(t) : f[k] = f[k - 1] + TerminalWidth(t[k])
  BY <1>2, <1>4
<1>6. \A n \in 0 .. Len(t) : f[n] \in Nat
  <2> DEFINE Bad == {n \in 0 .. Len(t) : f[n] \notin Nat}
  <2>1. SUFFICES ASSUME Bad # {} PROVE FALSE
    OBVIOUS
  <2>2. PICK m \in Bad : \A k \in Bad : m <= k
    BY <2>1, LeastOfNumbers, Bad \in SUBSET Nat
  <2>3. m \in 1 .. Len(t) /\ m - 1 \in 0 .. Len(t) /\ m - 1 \notin Bad
    BY <1>2, <1>5, <2>2
  <2> QED
    BY <1>5, <2>2, <2>3, WidthTyped
<1>7. f \in [0 .. Len(t) -> Nat]
  BY <1>4, <1>6
<1> QED
  BY <1>5, <1>7 DEF Sums, f

\* The columns of two stretches that meet
LEMMA Meet ==
  ASSUME text \in Seq(Nat), NEW a \in 0 .. Len(text), NEW b \in 0 .. Len(text), a <= b
  PROVE  /\ Columns(a, a) = 0
         /\ Columns(a, b) \in Int
         /\ b < Len(text) => Columns(a, b + 1) = Columns(a, b) + TerminalWidth(text[b + 1])
<1>1. Sums(text, Len(text), ColumnsUpTo(text)) /\ Len(text) \in Nat
  BY ColumnsSum
<1>2. \A n \in 0 .. Len(text) : ColumnsUpTo(text)[n] \in Nat
  BY <1>1 DEF Sums
<1>3. b < Len(text) => ColumnsUpTo(text)[b + 1] = ColumnsUpTo(text)[b] + TerminalWidth(text[b + 1])
  <2>1. SUFFICES ASSUME b < Len(text)
                 PROVE  ColumnsUpTo(text)[b + 1] = ColumnsUpTo(text)[b] + TerminalWidth(text[b + 1])
    OBVIOUS
  <2>2. b + 1 \in 1 .. Len(text) /\ (b + 1) - 1 = b
    BY <1>1, <2>1
  <2> QED
    BY <1>1, <2>2 DEF Sums
<1> QED
  BY <1>2, <1>3, WidthTyped DEF Columns
-----------------------------------------------------------------------------
\* utf8.hpp:491-500: what is removed from the front is whitespace, all of it.
LEMMA RemovedSkips ==
  ASSUME text \in Seq(Nat), NEW n \in 0 .. Len(text)
  PROVE  /\ Removed(n) \in n .. Len(text)
         /\ \A k \in n + 1 .. Removed(n) : kind = "lines" /\ IsWhitespace(text[k])
         /\ kind = "lines" /\ size # 0 /\ Removed(n) < Len(text)
              => ~IsWhitespace(text[Removed(n) + 1])
<1>1. Len(text) \in Nat
  OBVIOUS
<1>2. CASE ~(kind = "lines" /\ size # 0)
  BY <1>1, <1>2 DEF Removed
<1>3. CASE kind = "lines" /\ size # 0
  <2> DEFINE Stops == {m \in n .. Len(text) : m < Len(text) => ~IsWhitespace(text[m + 1])}
  <2>1. Stops # {} /\ Stops \in SUBSET Nat
    <3>1. Len(text) \in Stops
      BY <1>1
    <3> QED
      BY <3>1
  <2>2. PICK m \in Stops : \A k \in Stops : m <= k
    BY <2>1, LeastOfNumbers
  <2>m. m \in n .. Len(text) /\ n \in Nat
    BY <1>1
  <2>3. ASSUME NEW k \in n + 1 .. m
        PROVE  IsWhitespace(text[k])
    <3>1. k - 1 \in n .. Len(text) /\ k - 1 < m /\ (k - 1) + 1 = k
      BY <1>1, <2>3
    <3>2. k - 1 \notin Stops
      <4> HIDE DEF Stops
      <4> QED
        BY <1>1, <2>m, <2>2, <3>1
    <3> QED
      BY <3>1, <3>2 DEF IsWhitespace, Known
  <2>4. Removed(n) = Min(Stops)
    BY <1>3 DEF Removed
  <2>5. Min(Stops) = m
    <3>1. \A k \in Stops : k \in Int
      BY <2>1
    <3> HIDE DEF Stops
    <3> QED
      BY <2>2, <3>1 DEF Min
  <2>6. m < Len(text) => ~IsWhitespace(text[m + 1])
    BY <2>2 DEF IsWhitespace, Known
  <2> QED
    BY <1>3, <2>m, <2>3, <2>4, <2>5, <2>6
<1> QED
  BY <1>2, <1>3
-----------------------------------------------------------------------------
\* What a line_iterator has measured of its line, and will yield, fits.
Measured ==
  kind = "lines" =>
    /\ width = Columns(at, at + scan) /\ width <= columns
    /\ mark.columns = Columns(at, at + mark.size)
    /\ phase = "have" => Columns(at, at + size) <= columns

IInv == TypeOK /\ NothingLost /\ Measured /\ LinesFit

LEMMA InitOK == Init => IInv
<1> SUFFICES ASSUME Init PROVE IInv
  OBVIOUS
<1>1. text \in Seq(Nat) /\ columns \in Nat /\ kind \in {"clusters", "lines"}
  BY InputsAssumption DEF Init
<1>2. TypeOK
  BY <1>1, WindowSizeAssumption DEF Init, TypeOK, Left, Mark, EmptyWindow
<1>3. NothingLost /\ LinesFit
  BY <1>1 DEF Init, NothingLost, LinesFit
<1>4. Measured
  <2>1. Columns(0, 0) = 0
    BY <1>1, Meet
  <2> QED
    BY <1>1, <2>1 DEF Init, Measured, Mark
<1> QED
  BY <1>2, <1>3, <1>4 DEF IInv

\* No step but Increment moves the front of the text or yields a piece.
LEMMA SameFront ==
  ASSUME NothingLost, LinesFit, UNCHANGED <<text, kind, columns, at, pieces>>
  PROVE  NothingLost' /\ LinesFit'
<1>1. NothingLost'
  BY DEF NothingLost, End
<1>2. LinesFit'
  BY DEF LinesFit, Columns, ColumnsUpTo, End, TerminalWidth
<1> QED
  BY <1>1, <1>2

LEMMA ScanClusterOK == IInv /\ ScanCluster => IInv'
<1> SUFFICES ASSUME IInv, ScanCluster PROVE IInv'
  OBVIOUS
<1>1. NothingLost' /\ LinesFit'
  BY SameFront DEF IInv, ScanCluster
<1>2. TypeOK'
  <2>1. scan' \in 0 .. Left /\ size' \in 0 .. Left /\ mark \in [size : 0 .. scan', columns : 0 .. width]
    BY DEF IInv, TypeOK, ScanCluster, Left
  <2>2. DOMAIN window' = 1 .. WindowSize
    BY DEF ScanCluster, Rotated
  <2>3. phase' \in {"scan", "have", "end"}
    BY DEF IInv, TypeOK, ScanCluster
  <2> QED
    BY <2>1, <2>2, <2>3 DEF IInv, TypeOK, ScanCluster, Left
<1>3. Measured'
  BY DEF ScanCluster, Measured
<1> QED
  BY <1>1, <1>2, <1>3 DEF IInv

LEMMA ScanLineOK == IInv /\ ScanLine => IInv'
<1> SUFFICES ASSUME IInv, ScanLine PROVE IInv'
  OBVIOUS
<1>1. NothingLost' /\ LinesFit'
  BY SameFront DEF IInv, ScanLine
<1>2. TypeOK'
  <2>0. TerminalWidth(Current) \in Nat
    BY WidthTyped
  <2>1. scan' \in 0 .. Left /\ size \in 0 .. Left /\ width' \in Nat /\ width <= width'
    <3>1. scan \in 0 .. Left /\ Left \in Int /\ scan < Left /\ scan' = scan + 1 /\ size \in 0 .. Left
      BY DEF IInv, TypeOK, ScanLine, Left
    <3>2. width \in Nat /\ width' = width + TerminalWidth(Current)
      BY DEF IInv, TypeOK, ScanLine
    <3> QED
      BY ONLY <2>0, <3>1, <3>2
  <2>2. mark' \in [size : 0 .. scan', columns : 0 .. width']
    BY <2>1 DEF IInv, TypeOK, ScanLine, Mark
  <2>3. DOMAIN window' = 1 .. WindowSize
    BY DEF ScanLine, Rotated
  <2> QED
    BY <2>1, <2>2, <2>3 DEF IInv, TypeOK, ScanLine, Left
<1>3. Measured'
  <2>1. /\ at \in 0 .. Len(text) /\ at + scan \in 0 .. Len(text) /\ at <= at + scan
        /\ at + scan < Len(text)
    BY DEF IInv, TypeOK, ScanLine, Left
  <2>2. Columns(at, at + scan + 1) = Columns(at, at + scan) + TerminalWidth(Current)
    BY <2>1, Meet DEF IInv, TypeOK, Current
  <2>3. width' = Columns(at, at + scan') /\ width' <= columns
    BY <2>1, <2>2 DEF IInv, TypeOK, Measured, ScanLine
  <2>4. mark'.columns = Columns(at, at + mark'.size)
    BY <2>3 DEF IInv, Measured, ScanLine, Mark
  <2> QED
    BY <2>3, <2>4 DEF ScanLine, Measured, Columns, ColumnsUpTo, TerminalWidth
<1> QED
  BY <1>1, <1>2, <1>3 DEF IInv

LEMMA LineFullOK == IInv /\ LineFull => IInv'
<1> SUFFICES ASSUME IInv, LineFull PROVE IInv'
  OBVIOUS
<1>1. NothingLost' /\ LinesFit'
  BY SameFront DEF IInv, LineFull
<1>2. TypeOK'
  BY DEF IInv, TypeOK, LineFull, Left
<1>3. Measured'
  <2>1. Columns(at, at + size') <= columns
    BY DEF IInv, TypeOK, Measured, LineFull
  <2> QED
    BY <2>1 DEF IInv, LineFull, Measured, Columns, ColumnsUpTo, TerminalWidth
<1> QED
  BY <1>1, <1>2, <1>3 DEF IInv

LEMMA LastLineOK == IInv /\ LastLine => IInv'
<1> SUFFICES ASSUME IInv, LastLine PROVE IInv'
  OBVIOUS
<1>1. NothingLost' /\ LinesFit'
  BY SameFront DEF IInv, LastLine
<1>2. TypeOK'
  BY DEF IInv, TypeOK, LastLine, Left
<1>3. Measured'
  <2>1. Columns(at, at + size') <= columns
    BY DEF IInv, TypeOK, Measured, LastLine
  <2> QED
    BY <2>1 DEF IInv, LastLine, Measured, Columns, ColumnsUpTo, TerminalWidth
<1> QED
  BY <1>1, <1>2, <1>3 DEF IInv

LEMMA IncrementOK == IInv /\ Increment => IInv'
<1> SUFFICES ASSUME IInv, Increment PROVE IInv'
  OBVIOUS
<1> DEFINE to == at + size
           n  == Len(pieces)
<1>1. /\ text \in Seq(Nat) /\ to \in 0 .. Len(text) /\ at \in Nat /\ size \in Nat
      /\ pieces \in Seq([from : Nat, size : Nat])
  BY DEF IInv, TypeOK, Left
<1>2. /\ at' \in to .. Len(text)
      /\ \A k \in to + 1 .. at' : kind = "lines" /\ IsWhitespace(text[k])
  BY <1>1, RemovedSkips DEF Increment
<1>n. n \in Nat
  BY <1>1
<1>3. text' = text /\ kind' = kind /\ columns' = columns
  BY DEF Increment
<1>4. NothingLost' /\ LinesFit'
  <2>1. CASE size = 0
    <3>1. at' = at /\ pieces' = pieces
      BY <1>1, <2>1 DEF Increment, Removed
    <3> QED
      BY <1>3, <3>1, SameFront DEF IInv
  <2>2. CASE size # 0
    <3>1. /\ n \in Nat
          /\ Piece(at, size) \in [from : Nat, size : Nat]
          /\ pieces' = Append(pieces, Piece(at, size))
      BY <1>1, <2>2 DEF Increment, Piece
    <3>2. /\ Len(pieces') = n + 1 /\ pieces'[n + 1] = Piece(at, size)
          /\ DOMAIN pieces' = 1 .. n + 1 /\ DOMAIN pieces = 1 .. n
          /\ \A k \in 1 .. n : pieces'[k] = pieces[k]
      BY <1>1, <3>1
    <3>3. pieces'[1].from = 0
      BY <1>1, <3>1, <3>2 DEF IInv, NothingLost, Piece
    <3>4. ASSUME NEW k \in 1 .. n + 1
          PROVE  LET next == IF k = n + 1 THEN at' ELSE pieces'[k + 1].from
                 IN  /\ End(pieces'[k]) <= next
                     /\ \A j \in End(pieces'[k]) + 1 .. next :
                          kind = "lines" /\ IsWhitespace(text[j])
      <4>1. CASE k = n + 1
        BY <1>1, <1>2, <3>1, <3>2, <4>1 DEF Piece, End
      <4>a. ASSUME NEW i \in 1 .. n
            PROVE  LET next == IF i = n THEN at ELSE pieces[i + 1].from
                   IN  /\ End(pieces[i]) <= next
                       /\ \A j \in End(pieces[i]) + 1 .. next :
                            kind = "lines" /\ IsWhitespace(text[j])
        BY <3>2 DEF IInv, NothingLost
      <4>2. CASE k = n
        <5>0. k \in 1 .. n /\ k # n + 1
          BY <1>n, <4>2
        <5>1. pieces'[k] = pieces[k] /\ pieces'[k + 1] = Piece(at, size)
          BY <3>2, <4>2, <5>0
        <5>2. Piece(at, size).from = at
          BY DEF Piece
        <5> QED
          BY <4>a, <4>2, <5>0, <5>1, <5>2
      <4>3. CASE k < n
        <5>0. k \in 1 .. n /\ k + 1 \in 1 .. n /\ k # n + 1 /\ k # n
          BY <1>n, <4>3
        <5>1. pieces'[k] = pieces[k] /\ pieces'[k + 1] = pieces[k + 1]
          BY <3>2, <5>0
        <5> QED
          BY <4>a, <5>0, <5>1
      <4> QED
        BY <3>1, <4>1, <4>2, <4>3
    <3>5. NothingLost'
      BY <1>3, <3>1, <3>2, <3>3, <3>4 DEF NothingLost, IsWhitespace, End
    <3>6. ASSUME kind = "lines", NEW k \in 1 .. n + 1
          PROVE  Columns(pieces'[k].from, End(pieces'[k])) <= columns
      <4>1. CASE k = n + 1
        BY <3>2, <3>6, <4>1 DEF IInv, Measured, Increment, Piece, End
      <4>2. CASE k # n + 1
        BY <3>1, <3>2, <3>6, <4>2 DEF IInv, LinesFit
      <4> QED
        BY <4>1, <4>2
    <3>7. LinesFit'
      BY <1>3, <3>2, <3>6 DEF LinesFit, Columns, ColumnsUpTo, End, TerminalWidth
    <3> QED
      BY <3>5, <3>7
  <2> QED
    BY <1>1, <2>1, <2>2
<1>5. TypeOK'
  <2>1. at' \in 0 .. Len(text) /\ Len(text) - at' \in Nat
    BY <1>1, <1>2
  <2>2. Piece(at, size) \in [from : Nat, size : Nat]
    BY <1>1 DEF Piece
  <2>3. Append(pieces, Piece(at, size)) \in Seq([from : Nat, size : Nat])
    BY <1>1, <2>2
  <2>4. pieces' \in Seq([from : Nat, size : Nat])
    BY <1>1, <2>3 DEF Increment
  <2> QED
    BY <2>1, <2>4 DEF IInv, TypeOK, Increment, Left, Mark
<1>6. Measured'
  <2>1. \A a \in 0 .. Len(text) : Columns(a, a) = 0 /\ a + 0 = a
    BY <1>1, Meet
  <2>2. at' \in 0 .. Len(text)
    BY <1>1, <1>2
  <2>3. Columns(at', at' + 0) = 0
    BY <2>1, <2>2
  <2>4. /\ scan' = 0 /\ width' = 0 /\ mark' = Mark(0, 0) /\ phase' # "have"
        /\ columns' \in Nat
    BY <1>3 DEF IInv, TypeOK, Increment
  <2>5. Columns(at, at + 0)' = 0
    BY <1>3, <2>3 DEF Columns, ColumnsUpTo, TerminalWidth
  <2> QED
    BY <2>4, <2>5 DEF Measured, Mark
<1> QED
  BY <1>4, <1>5, <1>6 DEF IInv
-----------------------------------------------------------------------------
LEMMA StepOK == IInv /\ [Next]_vars => IInv'
<1>1. IInv /\ UNCHANGED vars => IInv'
  BY SameFront DEF IInv, vars, TypeOK, Measured, Left, Columns, ColumnsUpTo, TerminalWidth
<1> QED
  BY <1>1, ScanClusterOK, ScanLineOK, LineFullOK, LastLineOK, IncrementOK DEF Next

LEMMA Invariant == Spec => []IInv
  BY InitOK, StepOK, PTL DEF Spec

-----------------------------------------------------------------------------
\* What the classes of code points and the rules look at

LEMMA RowOf ==
  ASSUME NEW table, NEW cp, NEW c, c # "any", Meta(table, cp, "any") = c
  PROVE  \E k \in DOMAIN table : Covers(table[k], cp) /\ table[k].meta = c
BY DEF Meta, Known

LEMMA FlagClusters ==
  ASSUME NEW cp \in Nat, GraphemeClass(cp) = "regional_indicator"
  PROVE  IsIndicator(cp)
<1> DEFINE T == GraphemeClusterTable
<1>1. Meta(T, cp, "any") = "regional_indicator"
  BY DEF GraphemeClass, GraphemeHangul
<1>2. PICK k \in DOMAIN T : Covers(T[k], cp) /\ T[k].meta = "regional_indicator"
  <2> HIDE DEF T
  <2> QED BY <1>1, RowOf
<1>3. DOMAIN T = 1 .. 15
  BY DEF GraphemeClusterTable
<1>4. k = 14
  BY <1>2, <1>3 DEF GraphemeClusterTable, Row
<1> QED
  BY <1>2, <1>4 DEF GraphemeClusterTable, Row, Covers, IsIndicator

LEMMA LineClasses ==
  ASSUME NEW cp \in Nat
  PROVE  /\ LineClass(cp) = "RI" => IsIndicator(cp)
         /\ LineClass(cp) = "SP" => cp = 32
         /\ LineClass(cp) = "HL" => cp \in 1488 .. 1514
<1> DEFINE T == LineTable
<1>1. ASSUME NEW c \in {"RI", "SP", "HL"}, LineClass(cp) = c
      PROVE  \E k \in DOMAIN T : Covers(T[k], cp) /\ T[k].meta = c
  <2>1. Meta(T, cp, "any") = c
    BY <1>1 DEF LineClass, LineHangul
  <2> HIDE DEF T
  <2> QED BY <2>1, RowOf
<1>2. DOMAIN T = 1 .. 31
  BY DEF LineTable
<1>3. \A k \in 1 .. 31 : /\ T[k].meta = "RI" => k = 30
                         /\ T[k].meta = "SP" => k = 3
                         /\ T[k].meta = "HL" => k = 18
  BY DEF LineTable, Row
<1>4. T[30] = Row(127462, 127487, "RI") /\ T[3] = Row(32, 32, "SP") /\ T[18] = Row(1488, 1514, "HL")
  BY DEF LineTable
<1> HIDE DEF T
<1>5. LineClass(cp) = "RI" => IsIndicator(cp)
  BY <1>1, <1>2, <1>3, <1>4 DEF Row, Covers, IsIndicator
<1>6. LineClass(cp) = "SP" => cp = 32
  BY <1>1, <1>2, <1>3, <1>4 DEF Row, Covers
<1>7. LineClass(cp) = "HL" => cp \in 1488 .. 1514
  BY <1>1, <1>2, <1>3, <1>4 DEF Row, Covers
<1> QED
  BY <1>5, <1>6, <1>7

LEMMA Blanks == /\ IsWhitespace(32)
                /\ \A cp \in 1488 .. 1514 : ~IsWhitespace(cp)
                /\ \A cp : ~IsWhitespace(cp) /\ ~IsIndicator(cp) => ~LooksBack(cp)
<1> DEFINE T == Whitespace
<1>1. DOMAIN T = 1 .. 11
  BY DEF Whitespace
<1>2. T[2] = Row(32, 32, 0)
  BY DEF Whitespace
<1>3. \A k \in 1 .. 11 : T[k].last < 1488 \/ T[k].first > 1514
  BY DEF Whitespace, Row
<1>4. IsWhitespace(32)
  <2>1. Covers(T[2], 32)
    BY <1>2 DEF Covers, Row
  <2> HIDE DEF T
  <2> QED BY <1>1, <2>1 DEF IsWhitespace, Known, T
<1>5. \A k \in 1 .. 11 : T[k].first \in Int /\ T[k].last \in Int
  BY DEF Whitespace, Row
<1>6. ASSUME NEW cp \in 1488 .. 1514, NEW k \in DOMAIN T, Covers(T[k], cp) PROVE FALSE
  <2> HIDE DEF T
  <2> QED BY <1>1, <1>3, <1>5, <1>6 DEF Covers
<1>7. \A cp \in 1488 .. 1514 : ~IsWhitespace(cp)
  BY <1>6 DEF IsWhitespace, Known
<1>8. \A cp : ~IsWhitespace(cp) /\ ~IsIndicator(cp) => ~LooksBack(cp)
  BY <1>4 DEF LooksBack
<1> QED
  BY <1>4, <1>7, <1>8

\* n is where a window first has another class than c.
OtherAt(w, c) == {k \in DOMAIN w : w[k] # c}
NearestAt(w, c, n) ==
  /\ OtherAt(w, c) # {}
  /\ n = CHOOSE k \in OtherAt(w, c) : \A j \in OtherAt(w, c) : k <= j

\* Two windows that agree up to an element of another class agree on the first.
LEMMA FirstOther ==
  ASSUME NEW v, NEW w, NEW c, NEW m \in Nat,
         1 .. m \subseteq DOMAIN v, 1 .. m \subseteq DOMAIN w,
         DOMAIN v \subseteq Nat \ {0}, DOMAIN w \subseteq Nat \ {0}, m # 0,
         \A k \in 1 .. m : v[k] = w[k], v[m] # c
  PROVE  \E i \in 1 .. m : NearestAt(v, c, i) /\ NearestAt(w, c, i)
<1> DEFINE vs == {k \in DOMAIN v : v[k] # c}
           ws == {k \in DOMAIN w : w[k] # c}
<1>1. m \in vs /\ vs \in SUBSET Nat
  OBVIOUS
<1>2. PICK i \in vs : \A j \in vs : i <= j
  BY <1>1, LeastOfNumbers
<1>3. i \in 1 .. m
  BY <1>1, <1>2
<1>4. i \in ws
  BY <1>2, <1>3
<1>5. \A j \in ws : i <= j
  <2> SUFFICES ASSUME NEW j \in ws, j < i PROVE FALSE
    BY <1>3
  <2>1. j \in 1 .. m
    <3>1. j \in Nat \ {0}
      OBVIOUS
    <3> HIDE DEF ws
    <3> QED
      BY <1>3, <3>1
  <2>2. j \in vs
    BY <2>1
  <2> QED
    BY <1>2, <1>3, <2>1, <2>2
<1>6. \A k \in vs : (\A j \in vs : k <= j) => k = i
  BY <1>1, <1>2
<1>7. ws \in SUBSET Nat
  OBVIOUS
<1> HIDE DEF vs, ws
<1>8. \A k \in ws : (\A j \in ws : k <= j) => k = i
  BY <1>3, <1>4, <1>5, <1>7
<1>9. (CHOOSE k \in vs : \A j \in vs : k <= j) = i
  BY <1>2, <1>6
<1>10. (CHOOSE k \in ws : \A j \in ws : k <= j) = i
  BY <1>4, <1>5, <1>8
<1> QED
  BY <1>1, <1>3, <1>4, <1>9, <1>10 DEF vs, ws, NearestAt, OtherAt

\* How far two windows agree
Agree(v, w, m) == \A k \in 1 .. m : v[k] = w[k]

Window(w) == DOMAIN w \subseteq Nat \ {0}

\* The cluster rules look at the nearest class and at the indicators in front.
LEMMA ClusterRules ==
  ASSUME NEW v, NEW w, NEW m \in Nat \ {0}, Agree(v, w, m),
         1 .. m \subseteq DOMAIN v, 1 .. m \subseteq DOMAIN w, Window(v), Window(w),
         v[m] # "regional_indicator"
  PROVE  \A next : GraphemeShouldBreak(v, next) <=> GraphemeShouldBreak(w, next)
<1>1. v[1] = w[1]
  BY DEF Agree
<1>2. Leading(v, "regional_indicator") = Leading(w, "regional_indicator")
  <2>1. PICK i \in 1 .. m :
           NearestAt(v, "regional_indicator", i) /\ NearestAt(w, "regional_indicator", i)
    BY FirstOther DEF Agree, Window
  <2> QED
    <3>1. Leading(v, "regional_indicator") = i - 1
      BY <2>1 DEF Leading, NearestAt, OtherAt
    <3>2. Leading(w, "regional_indicator") = i - 1
      BY <2>1 DEF Leading, NearestAt, OtherAt
    <3> QED
      BY <3>1, <3>2
<1> QED
  BY <1>1, <1>2 DEF GraphemeShouldBreak, GB3, GB6, GB7, GB8, GB9, GB9a, GB9b, GB11, GB12_13

\* The line rules look at the nearest class, at the one behind spaces, at the
\* indicators in front, and behind a hyphen for a Hebrew letter.
LEMMA LineRules ==
  ASSUME NEW v, NEW w, NEW m \in Nat \ {0}, Agree(v, w, m),
         1 .. m \subseteq DOMAIN v, 1 .. m \subseteq DOMAIN w, Window(v), Window(w),
         v[m] \notin {"RI", "SP"},
         v[1] \in {"HY", "BA"} => (v[2] = "HL" <=> w[2] = "HL")
  PROVE  \A next : LineShouldBreak(v, next) <=> LineShouldBreak(w, next)
<1>1. v[1] = w[1]
  BY DEF Agree
<1>2. Indicators(v) = Indicators(w)
  <2>1. PICK i \in 1 .. m : NearestAt(v, "RI", i) /\ NearestAt(w, "RI", i)
    BY FirstOther DEF Agree, Window
  <2> QED
    <3>1. Indicators(v) = i - 1
      BY <2>1 DEF Indicators, NearestAt, OtherAt
    <3>2. Indicators(w) = i - 1
      BY <2>1 DEF Indicators, NearestAt, OtherAt
    <3> QED
      BY <3>1, <3>2
<1>3. BehindSpaces(v) = BehindSpaces(w)
  <2>1. PICK i \in 1 .. m : NearestAt(v, "SP", i) /\ NearestAt(w, "SP", i)
    BY FirstOther DEF Agree, Window
  <2> QED
    BY <2>1 DEF BehindSpaces, NearestAt, OtherAt, Agree
<1> TAKE next
<1>4. /\ LB6(v, next) <=> LB6(w, next)
      /\ LB7(v, next) <=> LB7(w, next)
      /\ LB13(v, next) <=> LB13(w, next)
      /\ LB22(v, next) <=> LB22(w, next)
  BY DEF LB6, LB7, LB13, LB22
<1>5. /\ LB8a_9(v, next) <=> LB8a_9(w, next)
      /\ LB11(v, next) <=> LB11(w, next)
      /\ LB12(v, next) <=> LB12(w, next)
      /\ LB12a(v, next) <=> LB12a(w, next)
      /\ LB19(v, next) <=> LB19(w, next)
      /\ LB21(v, next) <=> LB21(w, next)
      /\ LB21b(v, next) <=> LB21b(w, next)
  BY <1>1 DEF LB8a_9, LB11, LB12, LB12a, LB19, LB21, LB21b
<1>6. /\ LB23(v, next) <=> LB23(w, next)
      /\ LB23a(v, next) <=> LB23a(w, next)
      /\ LB24(v, next) <=> LB24(w, next)
      /\ LB25(v, next) <=> LB25(w, next)
      /\ LB26(v, next) <=> LB26(w, next)
      /\ LB27(v, next) <=> LB27(w, next)
      /\ LB28(v, next) <=> LB28(w, next)
      /\ LB29(v, next) <=> LB29(w, next)
      /\ LB30(v, next) <=> LB30(w, next)
      /\ LB30b(v, next) <=> LB30b(w, next)
  BY <1>1, Zenon DEF LB23, LB23a, LB24, LB25, LB26, LB27, LB28, LB29, LB30, LB30b
<1>7. /\ LB14(v, next) <=> LB14(w, next)
      /\ LB15(v, next) <=> LB15(w, next)
      /\ LB16(v, next) <=> LB16(w, next)
      /\ LB17(v, next) <=> LB17(w, next)
      /\ LB30a(v, next) <=> LB30a(w, next)
  BY <1>2, <1>3, Zenon DEF LB14, LB15, LB16, LB17, LB30a
<1>8. LB21a(v, next) <=> LB21a(w, next)
  BY <1>1 DEF LB21a
<1> QED
  BY <1>4, <1>5, <1>6, <1>7, <1>8, Zenon DEF LineShouldBreak

\* A class that no rule looks back over
Plain(class) == IF kind = "clusters" THEN class # "regional_indicator"
                                     ELSE class \notin {"RI", "SP"}

LEMMA PlainClass ==
  ASSUME NEW cp \in Nat, ~LooksBack(cp)
  PROVE  Plain(Class(cp))
BY FlagClusters, LineClasses DEF LooksBack, Plain, Class

\* The first s elements of a window are the code points in front of n.
Shows(w, n, s) == /\ DOMAIN w = 1 .. WindowSize
                  /\ \A k \in 1 .. WindowSize : k <= s => w[k] = Class(text[n + 1 - k])
                  /\ s = n => \A k \in 1 .. WindowSize : k > n => w[k] = "any"

\* Which is enough if no rule looks back over the last of them
LEMMA InSight ==
  ASSUME text \in Seq(Nat), WindowSuffices,
         NEW n \in 1 .. Len(text), NEW s \in 1 .. n, NEW w, Shows(w, n, s),
         s < n => ~LooksBack(text[n + 1 - s])
  PROVE  \E m \in 1 .. WindowSize : /\ Agree(w, Behind(n), m) /\ m <= n + 1
                                    /\ Plain(w[m])
<1>1. WindowSize \in Nat /\ WindowSize >= 2 /\ Len(text) \in Nat
  BY WindowSizeAssumption
<1>2. \A k \in 1 .. n + 2 : Behind(n)[k] = IF k <= n THEN Class(text[n + 1 - k]) ELSE "any"
  BY DEF Behind
<1>3. \A j \in 1 .. Len(text) : text[j] \in Nat
  BY ONLY text \in Seq(Nat)
<1>4. CASE s >= WindowSize
  <2>1. n - WindowSize + 1 \in 1 .. Len(text) - WindowSize + 1
    BY <1>1, <1>4
  <2>2. PICK j \in n - WindowSize + 1 .. (n - WindowSize + 1) + WindowSize - 1 : ~LooksBack(text[j])
    BY <2>1 DEF WindowSuffices
  <2> DEFINE m == n + 1 - j
  <2>3. m \in 1 .. WindowSize /\ m <= n /\ n + 1 - m = j /\ j \in 1 .. Len(text)
    BY <1>1, <1>4, <2>2
  <2>4. Plain(w[m])
    <3>1. w[m] = Class(text[j])
      <4>1. m <= s
        BY <1>1, <1>4, <2>3
      <4> HIDE DEF m
      <4> QED
        BY <2>3, <4>1 DEF Shows
    <3> QED
      BY <1>3, <2>2, <2>3, <3>1, PlainClass
  <2>5. Agree(w, Behind(n), m)
    <3> SUFFICES ASSUME NEW k \in 1 .. m PROVE w[k] = Behind(n)[k]
      BY DEF Agree
    <3>1. k \in 1 .. WindowSize /\ k <= s /\ k <= n /\ k \in 1 .. n + 2
      BY <1>1, <1>4, <2>3
    <3> QED
      BY <1>2, <3>1 DEF Shows
  <2> QED
    BY <2>3, <2>4, <2>5
<1>5. CASE s < WindowSize /\ s = n
  <2>1. n + 1 \in 1 .. WindowSize
    BY <1>1, <1>5
  <2>2. w[n + 1] = "any"
    BY <1>5, <2>1 DEF Shows
  <2>3. Plain(w[n + 1])
    BY <2>2 DEF Plain
  <2>4. Agree(w, Behind(n), n + 1)
    <3> SUFFICES ASSUME NEW k \in 1 .. n + 1 PROVE w[k] = Behind(n)[k]
      BY DEF Agree
    <3>1. k \in 1 .. WindowSize /\ k \in 1 .. n + 2 /\ (k <= s \/ k = n + 1) /\ ~(n + 1 <= n)
      BY <1>1, <1>5
    <3> QED
      BY <1>2, <1>5, <2>2, <3>1 DEF Shows
  <2> QED
    BY <2>1, <2>3, <2>4
<1>6. CASE s < WindowSize /\ s < n
  <2>1. s \in 1 .. WindowSize /\ n + 1 - s \in 1 .. Len(text)
    BY <1>1, <1>6
  <2>2. Plain(w[s])
    <3>1. w[s] = Class(text[n + 1 - s])
      BY <2>1 DEF Shows
    <3> QED
      BY <1>3, <1>6, <2>1, <3>1, PlainClass
  <2>3. Agree(w, Behind(n), s)
    <3> SUFFICES ASSUME NEW k \in 1 .. s PROVE w[k] = Behind(n)[k]
      BY DEF Agree
    <3>1. k \in 1 .. WindowSize /\ k <= s /\ k <= n /\ k \in 1 .. n + 2
      BY <1>1, <1>6
    <3> QED
      BY <1>2, <3>1 DEF Shows
  <2> QED
    BY <2>1, <2>2, <2>3
<1> QED
  BY <1>1, <1>4, <1>5, <1>6

\* Then the rules say the same of the window and of the text.
LEMMA RulesAgree ==
  ASSUME text \in Seq(Nat), WindowSuffices, kind \in {"clusters", "lines"},
         NEW n \in 1 .. Len(text), NEW s \in 1 .. n, NEW w, Shows(w, n, s),
         s < n => ~LooksBack(text[n + 1 - s]),
         kind = "lines" /\ w[1] \in {"HY", "BA"} => (w[2] = "HL" <=> Behind(n)[2] = "HL")
  PROVE  \A next : ShouldBreak(w, next) <=> ShouldBreak(Behind(n), next)
<1>1. PICK m \in 1 .. WindowSize : Agree(w, Behind(n), m) /\ m <= n + 1 /\ Plain(w[m])
  BY InSight
<1>2. WindowSize \in Nat /\ n \in Nat
  BY WindowSizeAssumption
<1>3. /\ m \in Nat \ {0} /\ 1 .. m \subseteq DOMAIN w /\ 1 .. m \subseteq DOMAIN Behind(n)
      /\ Window(w) /\ Window(Behind(n))
  <2>1. DOMAIN w = 1 .. WindowSize /\ DOMAIN Behind(n) = 1 .. n + 2
    BY DEF Shows, Behind
  <2>2. /\ m \in Nat \ {0} /\ 1 .. m \subseteq 1 .. WindowSize /\ 1 .. m \subseteq 1 .. n + 2
        /\ 1 .. WindowSize \subseteq Nat \ {0} /\ 1 .. n + 2 \subseteq Nat \ {0}
    BY ONLY <1>1, <1>2, m \in 1 .. WindowSize
  <2> QED
    BY <2>1, <2>2 DEF Window
<1>4. CASE kind = "clusters"
  BY <1>1, <1>3, <1>4, ClusterRules DEF Plain, ShouldBreak
<1>5. CASE kind = "lines"
  <2>1. w[m] \notin {"RI", "SP"} /\ kind # "clusters"
    BY <1>1, <1>5 DEF Plain
  <2>2. w[1] \in {"HY", "BA"} => (w[2] = "HL" <=> Behind(n)[2] = "HL")
    BY <1>5
  <2>3. \A next : LineShouldBreak(w, next) <=> LineShouldBreak(Behind(n), next)
    BY ONLY <1>1, <1>3, <2>1, <2>2, LineRules
  <2> QED
    BY <2>1, <2>3 DEF ShouldBreak
<1> QED
  BY <1>4, <1>5

-----------------------------------------------------------------------------
\* Clusters

\* The rules are those of the text, which never changes.
LEMMA SameRules ==
  ASSUME UNCHANGED <<text, kind, columns>>
  PROVE  /\ WindowSuffices' <=> WindowSuffices
         /\ NothingCarried' <=> NothingCarried
         /\ \A n : Allowed(n)' <=> Allowed(n)
         /\ \A cp : Class(cp)' = Class(cp)
         /\ \A a, b : EndsAsRuled(a, b)' <=> EndsAsRuled(a, b)
         /\ \A w, n, s : Shows(w, n, s)' <=> Shows(w, n, s)
<1>1. \A cp : Class(cp)' = Class(cp)
  BY DEF Class
<1>2. \A n : Allowed(n)' <=> Allowed(n)
  BY DEF Allowed, Behind, Class, ShouldBreak
<1>3. WindowSuffices' <=> WindowSuffices
  BY DEF WindowSuffices
<1>4. NothingCarried' <=> NothingCarried
  BY DEF NothingCarried
<1>5. \A a, b : EndsAsRuled(a, b)' <=> EndsAsRuled(a, b)
  BY DEF EndsAsRuled, Opportunities, Columns, ColumnsUpTo, Allowed, Behind, Class, ShouldBreak
<1>6. \A w, n, s : Shows(w, n, s)' <=> Shows(w, n, s)
  BY DEF Shows, Class
<1> QED
  BY <1>1, <1>2, <1>3, <1>4, <1>5, <1>6

\* What of its text the window shows
Seen == Shows(window, at + scan, IF kind = "clusters" THEN at + scan ELSE scan)

LEMMA RotatedShows ==
  ASSUME at \in Nat, scan \in Nat, NEW s \in Nat, s <= at + scan, Shows(window, at + scan, s)
  PROVE  Shows(Rotated(Class(Current)), at + scan + 1, s + 1)
<1> DEFINE w == Rotated(Class(Current))
           n == at + scan
<1>1. WindowSize \in Nat /\ n \in Nat
  BY WindowSizeAssumption
<1>2. /\ DOMAIN w = 1 .. WindowSize
      /\ \A k \in 1 .. WindowSize : w[k] = IF k = 1 THEN Class(text[n + 1]) ELSE window[k - 1]
  BY DEF Rotated, Current
<1>3. /\ \A k \in 1 .. WindowSize : k <= s => window[k] = Class(text[n + 1 - k])
      /\ s = n => \A k \in 1 .. WindowSize : k > n => window[k] = "any"
  BY DEF Shows
<1> HIDE DEF w, n
<1>4. ASSUME NEW k \in 1 .. WindowSize, k <= s + 1
      PROVE  w[k] = Class(text[(n + 1) + 1 - k])
  <2>1. CASE k = 1
    <3>1. (n + 1) + 1 - k = n + 1
      BY <1>1, <2>1
    <3> QED
      BY <1>2, <2>1, <3>1
  <2>2. CASE k # 1
    <3>1. k - 1 \in 1 .. WindowSize /\ k - 1 <= s /\ (n + 1) + 1 - k = n + 1 - (k - 1)
      BY <1>1, <1>4, <2>2
    <3> QED
      BY <1>2, <1>3, <2>2, <3>1
  <2> QED
    BY <2>1, <2>2
<1>5. ASSUME s + 1 = n + 1, NEW k \in 1 .. WindowSize, k > n + 1
      PROVE  w[k] = "any"
  <2>1. k - 1 \in 1 .. WindowSize /\ k - 1 > n /\ k # 1 /\ s = n
    BY <1>1, <1>5
  <2> QED
    BY <1>2, <1>3, <2>1
<1> QED
  BY <1>2, <1>4, <1>5 DEF Shows, w, n

\* What a cluster's iterator has looked at
ClusterSoFar ==
  kind = "clusters" =>
    /\ phase = "have" => size = scan
    /\ WindowSuffices =>
       /\ \A n \in at + 1 .. at + scan - 1 : ~Allowed(n)
       /\ phase = "scan" /\ scan # 0 => scan < Left /\ ~Allowed(at + scan)
       /\ phase = "have" => (at + scan < Len(text) => Allowed(at + scan))

CInv == Seen /\ ClusterSoFar /\ ClustersAsRuled

LEMMA ScanClusterRuled == TypeOK /\ CInv /\ ScanCluster => CInv'
<1> SUFFICES ASSUME TypeOK, CInv, ScanCluster PROVE CInv'
  OBVIOUS
<1> DEFINE n == at + scan + 1
<1>t. /\ text \in Seq(Nat) /\ Len(text) \in Nat /\ at \in Nat /\ scan \in Nat
      /\ kind = "clusters" /\ phase = "scan" /\ scan < Len(text) - at
  BY DEF TypeOK, ScanCluster, Left
<1>1. /\ text \in Seq(Nat) /\ Len(text) \in Nat /\ at \in Nat /\ scan \in Nat
      /\ n \in 1 .. Len(text) /\ kind = "clusters" /\ phase = "scan"
      /\ (scan + 1 < Left <=> n < Len(text)) /\ (scan + 1 = Left <=> n = Len(text))
  BY <1>t DEF Left
<1>2. /\ UNCHANGED <<text, kind, columns>> /\ at' = at /\ scan' = scan + 1 /\ pieces' = pieces
      /\ window' = Rotated(Class(Current))
  BY DEF ScanCluster
<1>3. Shows(window', n, n)
  BY <1>1, <1>2, RotatedShows DEF CInv, Seen
<1>4. Seen'
  <2>1. at' + scan' = n /\ kind' = "clusters"
    BY <1>1, <1>2
  <2> QED
    BY <1>2, <1>3, <2>1, SameRules DEF Seen
<1>5. ASSUME WindowSuffices, n < Len(text)
      PROVE  ShouldBreak(window', NextClass) <=> Allowed(n)
  <2>1. ShouldBreak(window', NextClass) <=> ShouldBreak(Behind(n), NextClass)
    <3>1. ~(n < n) /\ ~(kind = "lines") /\ kind \in {"clusters", "lines"}
      BY <1>1
    <3> HIDE DEF n
    <3> QED
      BY <1>1, <1>3, <1>5, <3>1, RulesAgree
  <2>2. NextClass = Class(text[n + 1])
    <3>1. at + scan + 2 = n + 1 /\ at + scan + 2 <= Len(text)
      BY <1>1, <1>5
    <3> QED
      BY <3>1 DEF NextClass
  <2> QED
    BY <2>1, <2>2 DEF Allowed
<1>6. ClusterSoFar'
  <2>1. phase' = "have" => size' = scan'
    BY <1>1 DEF ScanCluster
  <2>2. ASSUME WindowSuffices
        PROVE  /\ \A j \in at + 1 .. at + scan : ~Allowed(j)
               /\ phase' = "scan" => scan + 1 < Left /\ ~Allowed(n)
               /\ phase' = "have" => (n < Len(text) => Allowed(n))
    <3>1. \A j \in at + 1 .. at + scan : ~Allowed(j)
      BY <1>1, <2>2 DEF CInv, ClusterSoFar
    <3>2. phase' = "scan" => scan + 1 < Left /\ ~ShouldBreak(window', NextClass)
      BY <1>1, <1>2 DEF ScanCluster
    <3>3. phase' = "have" => ShouldBreak(window', NextClass) \/ scan + 1 = Left
      BY <1>1, <1>2 DEF ScanCluster
    <3> QED
      BY <1>1, <1>5, <2>2, <3>1, <3>2, <3>3
  <2>3. at' + scan' = n /\ at' + scan' - 1 = at + scan /\ Left' = Left
    BY <1>1, <1>2 DEF Left
  <2> QED
    BY <1>2, <2>1, <2>2, <2>3, SameRules DEF ClusterSoFar
<1>7. ClustersAsRuled'
  BY <1>2, SameRules DEF CInv, ClustersAsRuled, End
<1> QED
  BY <1>4, <1>6, <1>7 DEF CInv

-----------------------------------------------------------------------------
\* Lines

\* The columns of a stretch are at least those of its front.
LEMMA Wider ==
  ASSUME text \in Seq(Nat), NEW a \in 0 .. Len(text), NEW b \in a .. Len(text),
         NEW c \in b .. Len(text)
  PROVE  Columns(a, b) <= Columns(a, c)
<1>1. Len(text) \in Nat
  OBVIOUS
<1> DEFINE Bad == {j \in b .. Len(text) : ~(Columns(a, b) <= Columns(a, j))}
<1>2. SUFFICES ASSUME Bad # {} PROVE FALSE
  OBVIOUS
<1>3. PICK j \in Bad : \A k \in Bad : j <= k
  <2>1. Bad \in SUBSET Nat
    BY <1>1
  <2> HIDE DEF Bad
  <2> QED
    BY <1>2, <2>1, LeastOfNumbers
<1>4. \A k \in a .. Len(text) : Columns(a, k) \in Int
  BY <1>1, Meet
<1>5. j # b
  BY <1>1, <1>3, <1>4
<1>6. /\ j - 1 \in b .. Len(text) /\ j - 1 \in a .. Len(text) /\ j - 1 < Len(text)
      /\ (j - 1) + 1 = j /\ j - 1 \in 0 .. Len(text) /\ a <= j - 1 /\ j \in a .. Len(text)
  BY <1>1, <1>3, <1>5
<1>7. Columns(a, b) <= Columns(a, j - 1)
  <2>1. j - 1 \notin Bad
    <3>1. j \in Nat /\ ~(j <= j - 1)
      BY <1>1, <1>3
    <3> HIDE DEF Bad
    <3> QED
      BY <1>3, <3>1
  <2> QED
    BY <1>6, <2>1
<1>8. Columns(a, j) = Columns(a, j - 1) + TerminalWidth(text[j])
  <2>1. Columns(a, (j - 1) + 1) = Columns(a, j - 1) + TerminalWidth(text[(j - 1) + 1])
    BY ONLY text \in Seq(Nat), a \in 0 .. Len(text), <1>6, Meet
  <2> QED
    BY <1>6, <2>1
<1>9. TerminalWidth(text[j]) \in Nat
  BY WidthTyped
<1>10. Columns(a, b) \in Int /\ Columns(a, j - 1) \in Int /\ Columns(a, j) \in Int
  BY <1>1, <1>4, <1>6
<1>11. Columns(a, b) <= Columns(a, j)
  BY ONLY <1>7, <1>8, <1>9, <1>10
<1> QED
  BY <1>3, <1>11

\* What a line_iterator has begun: behind the text's start, never with a space
LineBegun ==
  kind = "lines" =>
    /\ \A k \in 1 .. WindowSize :
         window[k] = "any" \/ \E j \in DOMAIN text : window[k] = Class(text[j])
    /\ at \in 1 .. Len(text) - 1 => ~IsWhitespace(text[at + 1])
    /\ phase = "scan" => at < Len(text)
    /\ phase = "have" => size <= scan /\ (size = 0 => scan = 0)

Hyphens == {"HY", "BA"}
Simple  == WindowSuffices /\ NothingCarried

\* A line that begins with a hyphen: a Hebrew letter is in front of it if the
\* window says so.
HebrewSeen ==
  kind = "lines" /\ Simple /\ scan = 0 /\ at \in 1 .. Len(text) - 1
      /\ Class(text[at + 1]) \in Hyphens
    => (window[1] = "HL" <=> Class(text[at]) = "HL")

\* What a line_iterator has looked at: the mark is the last break allowed.
LineSoFar ==
  kind = "lines" /\ Simple =>
    /\ phase = "scan" =>
       /\ mark.size # 0 /\ at + mark.size < Len(text) => Allowed(at + mark.size)
       /\ \A n \in at + mark.size + 1 .. at + scan : n < Len(text) => ~Allowed(n)
    /\ phase = "have" /\ size # 0 =>
       /\ EndsAsRuled(at, at + size)
       /\ size = scan \/ Class(text[at + size + 1]) \notin Hyphens

LInv == Seen /\ LineBegun /\ HebrewSeen /\ LineSoFar /\ LinesAsRuled

\* utf8.hpp:530-556: in simple texts the window says what the text does.
LEMMA LineWindow ==
  ASSUME IInv, LInv, Simple, ScanLine, at + scan + 1 < Len(text)
  PROVE  ShouldBreak(window', NextClass) <=> Allowed(at + scan + 1)
<1> DEFINE n == at + scan + 1
           s == scan + 1
<1>t. /\ text \in Seq(Nat) /\ Len(text) \in Nat /\ at \in Nat /\ scan \in Nat
      /\ kind = "lines" /\ scan < Len(text) - at
  BY DEF IInv, TypeOK, ScanLine, Left
<1>1. /\ text \in Seq(Nat) /\ Len(text) \in Nat /\ at \in Nat /\ scan \in Nat
      /\ n \in 1 .. Len(text) /\ s \in 1 .. n /\ kind = "lines"
      /\ n \in Nat /\ s \in Nat
  BY <1>t
<1>w. WindowSize \in Nat /\ WindowSize >= 2 /\ 1 \in 1 .. WindowSize /\ 2 \in 1 .. WindowSize
  BY WindowSizeAssumption
<1>2. window' = Rotated(Class(Current))
  BY DEF ScanLine
<1>0. Shows(window, at + scan, scan)
  BY <1>1 DEF LInv, Seen
<1>3. Shows(window', n, s)
  BY <1>0, <1>1, <1>2, RotatedShows
<1>4. s < n => ~LooksBack(text[n + 1 - s])
  <2> SUFFICES ASSUME s < n PROVE ~LooksBack(text[n + 1 - s])
    OBVIOUS
  <2>1. n + 1 - s = at + 1 /\ at \in 1 .. Len(text) - 1 /\ at + 1 \in DOMAIN text
    BY <1>1
  <2>2. ~IsWhitespace(text[at + 1])
    BY <1>1, <2>1 DEF LInv, LineBegun
  <2>3. ~IsIndicator(text[at + 1])
    BY <2>1 DEF Simple, NothingCarried
  <2>4. ~LooksBack(text[at + 1])
    BY ONLY <2>2, <2>3, Blanks
  <2> QED
    BY ONLY <2>1, <2>4
<1>5. window'[1] = Class(text[n]) /\ window'[2] = window[1]
  BY <1>w, <1>2 DEF Rotated, Current
<1>6. window'[1] \in Hyphens => (window'[2] = "HL" <=> Behind(n)[2] = "HL")
  <2> SUFFICES ASSUME Class(text[n]) \in Hyphens
               PROVE  window[1] = "HL" <=> Behind(n)[2] = "HL"
    BY <1>5
  <2>1. Behind(n)[2] = IF 2 <= n THEN Class(text[n + 1 - 2]) ELSE "any"
    BY <1>1 DEF Behind
  <2>2. CASE scan # 0
    <3>1. 1 <= scan /\ 2 <= n /\ at + scan + 1 - 1 = n + 1 - 2
      BY <1>1, <2>2
    <3>2. window[1] = Class(text[at + scan + 1 - 1])
      BY <1>0, <1>w, <3>1 DEF Shows
    <3> QED
      BY <2>1, <3>1, <3>2
  <2>3. CASE scan = 0 /\ at # 0
    <3>1. n = at + 1 /\ 2 <= n /\ n + 1 - 2 = at /\ at \in 1 .. Len(text) - 1
      BY <1>1, <2>3
    <3>2. window[1] = "HL" <=> Class(text[at]) = "HL"
      BY <1>1, <2>3, <3>1 DEF LInv, HebrewSeen
    <3> QED
      BY <2>1, <3>1, <3>2
  <2>4. CASE scan = 0 /\ at = 0
    <3>1. n = 1 /\ ~(2 <= n) /\ at + scan = 0 /\ 1 > 0
      BY <2>4
    <3>2. window[1] = "any"
      BY <1>0, <1>w, <2>4, <3>1 DEF Shows
    <3> QED
      BY <2>1, <3>1, <3>2
  <2> QED
    BY <2>2, <2>3, <2>4
<1>7. ShouldBreak(window', NextClass) <=> ShouldBreak(Behind(n), NextClass)
  <2>1. kind \in {"clusters", "lines"} /\ WindowSuffices
    BY <1>1 DEF Simple
  <2>2. kind = "lines" /\ window'[1] \in {"HY", "BA"}
          => (window'[2] = "HL" <=> Behind(n)[2] = "HL")
    BY <1>6 DEF Hyphens
  <2> HIDE DEF n, s
  <2>3. \A next : ShouldBreak(window', next) <=> ShouldBreak(Behind(n), next)
    BY ONLY <1>1, <1>3, <1>4, <2>1, <2>2, RulesAgree
  <2> QED
    BY <2>3
<1>8. NextClass = Class(text[n + 1])
  <2>1. at + scan + 2 = n + 1 /\ at + scan + 2 <= Len(text)
    BY <1>1
  <2> QED
    BY <2>1 DEF NextClass
<1> QED
  BY <1>7, <1>8 DEF Allowed

LEMMA ScanLineRuled == IInv /\ LInv /\ ScanLine => LInv'
<1> SUFFICES ASSUME IInv, LInv, ScanLine PROVE LInv'
  OBVIOUS
<1> DEFINE n == at + scan + 1
<1>t. /\ text \in Seq(Nat) /\ Len(text) \in Nat /\ at \in Nat /\ scan \in Nat
      /\ kind = "lines" /\ phase = "scan" /\ mark.size \in 0 .. scan /\ scan < Len(text) - at
  BY DEF IInv, TypeOK, ScanLine, Left
<1>1. /\ text \in Seq(Nat) /\ Len(text) \in Nat /\ at \in Nat /\ scan \in Nat /\ n \in Nat
      /\ n \in 1 .. Len(text) /\ kind = "lines" /\ phase = "scan" /\ mark.size \in 0 .. scan
  BY <1>t
<1>2. /\ UNCHANGED <<text, kind, columns>> /\ at' = at /\ scan' = scan + 1 /\ pieces' = pieces
      /\ phase' = "scan" /\ window' = Rotated(Class(Current))
      /\ mark' = IF ShouldBreak(window', NextClass) THEN Mark(scan', width') ELSE mark
  BY <1>1 DEF ScanLine
<1>3. Simple' <=> Simple
  BY <1>2, SameRules DEF Simple
<1>4. Seen'
  <2>1. Shows(window, at + scan, scan) /\ scan <= at + scan
    BY <1>1 DEF LInv, Seen
  <2>2. Shows(window', at + scan + 1, scan + 1)
    BY <1>1, <1>2, <2>1, RotatedShows
  <2>3. at' + scan' = at + scan + 1 /\ kind' = "lines"
    BY <1>1, <1>2
  <2> QED
    BY <1>2, <2>2, <2>3, SameRules DEF Seen
<1>5. LineBegun'
  <2>1. ASSUME NEW k \in 1 .. WindowSize
        PROVE  window'[k] = "any" \/ \E j \in DOMAIN text : window'[k] = Class(text[j])
    <3>1. CASE k = 1
      <4>1. window'[k] = Class(text[n])
        BY <1>2, <3>1 DEF Rotated, Current
      <4>2. n \in DOMAIN text
        BY <1>1
      <4> QED
        BY <4>1, <4>2
    <3>2. CASE k # 1
      <4>1. k - 1 \in 1 .. WindowSize /\ window'[k] = window[k - 1]
        BY <1>2, <3>2, WindowSizeAssumption DEF Rotated
      <4> QED
        BY <1>1, <4>1 DEF LInv, LineBegun
    <3> QED
      BY <3>1, <3>2
  <2>2. at' \in 1 .. Len(text) - 1 => ~IsWhitespace(text[at' + 1])
    BY <1>1, <1>2 DEF LInv, LineBegun
  <2>3. at' < Len(text)
    BY <1>1, <1>2
  <2> QED
    BY <1>2, <2>1, <2>2, <2>3 DEF LineBegun, IsWhitespace, Class
<1>6. HebrewSeen'
  <2>1. scan' # 0
    BY <1>1, <1>2
  <2> QED
    BY <2>1 DEF HebrewSeen
<1>7. ASSUME Simple
      PROVE  /\ mark'.size # 0 /\ at + mark'.size < Len(text) => Allowed(at + mark'.size)
             /\ \A j \in at + mark'.size + 1 .. n : j < Len(text) => ~Allowed(j)
  <2>1. n < Len(text) => (ShouldBreak(window', NextClass) <=> Allowed(n))
    BY <1>7, LineWindow
  <2>2. CASE ShouldBreak(window', NextClass)
    <3>1. mark'.size = scan + 1 /\ at + mark'.size = n /\ at + mark'.size + 1 = n + 1
      BY <1>1, <1>2, <2>2 DEF Mark
    <3>2. n + 1 .. n = {}
      BY <1>1
    <3> HIDE DEF n
    <3> QED
      BY <2>1, <2>2, <3>1, <3>2
  <2>3. CASE ~ShouldBreak(window', NextClass)
    <3>1. mark' = mark
      BY <1>2, <2>3
    <3>2. mark.size # 0 /\ at + mark.size < Len(text) => Allowed(at + mark.size)
      BY <1>1, <1>7 DEF LInv, LineSoFar
    <3>3. \A j \in at + mark.size + 1 .. at + scan : j < Len(text) => ~Allowed(j)
      BY <1>1, <1>7 DEF LInv, LineSoFar
    <3>4. \A j \in at + mark.size + 1 .. n : j \in at + mark.size + 1 .. at + scan \/ j = n
      BY <1>1
    <3> QED
      BY <2>1, <2>3, <3>1, <3>2, <3>3, <3>4
  <2> QED
    BY <2>2, <2>3
<1>8. LineSoFar'
  <2>1. at' + scan' = n /\ phase' # "have"
    BY <1>1, <1>2
  <2> HIDE DEF n
  <2> QED
    BY <1>2, <1>3, <1>7, <2>1, SameRules DEF LineSoFar
<1>9. LinesAsRuled'
  BY <1>2, SameRules DEF LInv, LinesAsRuled, End
<1> QED
  BY <1>4, <1>5, <1>6, <1>8, <1>9 DEF LInv

\* utf8.hpp:512-524: where a line that is full ends
LEMMA FullAsRuled ==
  ASSUME IInv, LInv, Simple, LineFull, size' # 0
  PROVE  /\ EndsAsRuled(at, at + size')
         /\ size' = scan \/ Class(text[at + size' + 1]) \notin Hyphens
<1> DEFINE stop == at + scan
           O    == Opportunities(at)
           best == at + mark.size
<1>1. /\ text \in Seq(Nat) /\ Len(text) \in Nat /\ at \in Nat /\ scan \in Nat /\ columns \in Nat
      /\ mark.size \in 0 .. scan /\ mark.columns \in 0 .. width /\ width \in Nat
      /\ kind = "lines" /\ phase = "scan" /\ scan < Left
      /\ width + TerminalWidth(Current) > columns
      /\ size' = IF mark.columns = 0 THEN scan ELSE mark.size
  BY DEF IInv, TypeOK, LineFull
<1>2. /\ stop \in Nat /\ stop < Len(text) /\ at \in 0 .. Len(text) /\ stop \in at .. Len(text)
      /\ stop + 1 \in at .. Len(text) /\ stop \in 0 .. Len(text) /\ at <= stop
      /\ stop + 1 \in 0 .. Len(text) /\ best \in at .. stop /\ best \in Nat
      /\ best \in at .. Len(text) /\ best \in 0 .. Len(text)
  <2>1. scan < Len(text) - at
    BY <1>1 DEF Left
  <2>0. at \in Nat /\ scan \in Nat /\ Len(text) \in Nat /\ mark.size \in 0 .. scan
    BY <1>1
  <2>2. stop \in Nat /\ best \in Nat /\ at <= stop /\ stop < Len(text) /\ best \in at .. stop
    BY ONLY <2>0, <2>1
  <2> HIDE DEF stop, best
  <2>3. stop + 1 \in at .. Len(text) /\ stop + 1 \in 0 .. Len(text) /\ stop \in 0 .. Len(text)
    BY <1>1, <2>2
  <2>4. best \in at .. Len(text) /\ best \in 0 .. Len(text)
    BY <1>1, <2>2
  <2> QED
    BY <1>1, <2>2, <2>3, <2>4
<1>3. /\ width = Columns(at, stop) /\ width <= columns /\ mark.columns = Columns(at, best)
      /\ Columns(at, at) = 0
  <2>1. width = Columns(at, stop) /\ width <= columns /\ mark.columns = Columns(at, best)
    BY <1>1 DEF IInv, Measured
  <2> QED
    BY <1>1, <1>2, <2>1, Meet
<1>4. Columns(at, stop + 1) > columns
  <2>1. Columns(at, stop + 1) = Columns(at, stop) + TerminalWidth(text[stop + 1])
    BY <1>1, <1>2, Meet
  <2>2. Current = text[stop + 1]
    BY DEF Current
  <2> HIDE DEF stop
  <2> QED
    BY <1>1, <1>3, <2>1, <2>2
<1>5. /\ mark.size # 0 => Allowed(best)
      /\ \A j \in best + 1 .. stop : ~Allowed(j)
  <2>1. mark.size # 0 /\ best < Len(text) => Allowed(best)
    BY <1>1 DEF LInv, LineSoFar
  <2>2. \A j \in best + 1 .. stop : j < Len(text) => ~Allowed(j)
    BY <1>1 DEF LInv, LineSoFar
  <2>3. best < Len(text) /\ \A j \in best + 1 .. stop : j < Len(text)
    BY <1>2
  <2> QED
    BY <2>1, <2>2, <2>3
<1> HIDE DEF stop, best
<1>6. ASSUME NEW j \in O
      PROVE  j \in at + 1 .. best /\ Columns(at, j) \in 1 .. columns
  <2>1. j \in at + 1 .. Len(text) - 1 /\ Allowed(j) /\ Columns(at, j) \in 1 .. columns
    BY DEF Opportunities
  <2>2. ~(j > stop)
    <3> SUFFICES ASSUME j > stop PROVE FALSE
      OBVIOUS
    <3>1. j \in stop + 1 .. Len(text)
      BY <1>1, <1>2, <2>1
    <3>2. Columns(at, stop + 1) <= Columns(at, j)
      BY ONLY <1>1, <1>2, <3>1, Wider
    <3>3. Columns(at, stop + 1) \in Int
      BY <1>1, <1>2, Meet
    <3> QED
      BY <1>1, <1>4, <2>1, <3>2, <3>3
  <2>3. ~(j \in best + 1 .. stop)
    BY <1>5, <2>1
  <2> QED
    BY <1>1, <1>2, <2>1, <2>2, <2>3
<1>7. CASE mark.columns = 0
  <2>1. O = {}
    <3> SUFFICES ASSUME NEW j \in O PROVE FALSE
      OBVIOUS
    <3>1. j \in at .. Len(text) /\ best \in j .. Len(text) /\ Columns(at, j) \in 1 .. columns
      <4>1. j \in at + 1 .. best /\ Columns(at, j) \in 1 .. columns
        BY <1>6
      <4> QED
        BY ONLY <1>1, <1>2, <4>1
    <3>2. Columns(at, j) <= Columns(at, best)
      BY ONLY <1>1, <1>2, <3>1, Wider
    <3> QED
      BY <1>1, <1>3, <1>7, <3>1, <3>2
  <2>2. at + size' = stop /\ size' = scan
    BY <1>1, <1>7 DEF stop
  <2> QED
    BY <1>4, <2>1, <2>2 DEF EndsAsRuled
<1>8. CASE mark.columns # 0
  <2>1. mark.size # 0 /\ at + size' = best
    <3>1. mark.size # 0
      BY <1>1, <1>3, <1>8 DEF best
    <3> QED
      BY <1>1, <1>8, <3>1 DEF best
  <2>2. best \in O
    <3>1. best \in at + 1 .. Len(text) - 1
      <4>1. best # at
        BY <1>1, <2>1 DEF best
      <4> QED
        BY ONLY <1>1, <1>2, <4>1
    <3>2. Columns(at, best) \in 1 .. columns
      BY <1>1, <1>3, <1>8
    <3> QED
      BY <1>5, <2>1, <3>1, <3>2 DEF Opportunities
  <2>3. Max(O) = best
    <3>1. \A j \in O : j <= best /\ j \in Int
      BY <1>1, <1>2, <1>6
    <3> HIDE DEF O
    <3>2. \A x \in O : (\A y \in O : x >= y) => x = best
      BY <1>2, <2>2, <3>1
    <3>3. \A y \in O : best >= y
      BY <1>2, <3>1
    <3> QED
      BY <2>2, <3>2, <3>3 DEF Max
  <2>4. Class(text[best + 1]) \notin Hyphens
    <3>1. ShouldBreak(Behind(best), Class(text[best + 1]))
      BY <1>5, <2>1 DEF Allowed
    <3>2. LineShouldBreak(Behind(best), Class(text[best + 1]))
      BY <1>1, <3>1 DEF ShouldBreak
    <3> QED
      BY <3>2 DEF LineShouldBreak, LB21, Hyphens
  <2> QED
    BY <2>1, <2>2, <2>3, <2>4 DEF EndsAsRuled
<1> QED
  BY <1>7, <1>8

\* No step but Increment moves the front, and no scan changes what was begun.
LEMMA SameLine ==
  ASSUME LInv, UNCHANGED <<text, kind, columns, at, scan, window, pieces>>
  PROVE  Seen' /\ HebrewSeen' /\ LinesAsRuled'
<1>1. Seen'
  BY SameRules DEF LInv, Seen
<1>2. HebrewSeen'
  BY SameRules DEF LInv, HebrewSeen, Simple
<1>3. LinesAsRuled'
  BY SameRules DEF LInv, LinesAsRuled, End
<1> QED
  BY <1>1, <1>2, <1>3

LEMMA LineFullRuled == IInv /\ LInv /\ LineFull => LInv'
<1> SUFFICES ASSUME IInv, LInv, LineFull PROVE LInv'
  OBVIOUS
<1>1. /\ UNCHANGED <<text, kind, columns, at, scan, window, pieces>>
      /\ kind = "lines" /\ phase = "scan" /\ phase' = "have"
      /\ size' = IF mark.columns = 0 THEN scan ELSE mark.size
  BY DEF LineFull
<1>2. Seen' /\ HebrewSeen' /\ LinesAsRuled'
  BY <1>1, SameLine
<1>3. LineBegun'
  <2>1. at \in 0 .. Len(text) /\ mark.size \in 0 .. scan /\ scan \in Nat /\ text \in Seq(Nat)
    BY DEF IInv, TypeOK, Left
  <2>2. ASSUME mark.size = 0
        PROVE  mark.columns = 0
    <3>1. mark.columns = Columns(at, at + mark.size)
      BY <1>1 DEF IInv, Measured
    <3>2. at + mark.size = at
      BY <2>1, <2>2
    <3>3. Columns(at, at) = 0
      BY <2>1, Meet
    <3> QED
      BY <3>1, <3>2, <3>3
  <2>3. size' <= scan' /\ (size' = 0 => scan' = 0)
    BY <1>1, <2>1, <2>2
  <2> QED
    BY <1>1, <2>3 DEF LInv, LineBegun, IsWhitespace, Class
<1>4. LineSoFar'
  <2>1. Simple' <=> Simple
    BY <1>1, SameRules DEF Simple
  <2>2. Simple /\ size' # 0 => /\ EndsAsRuled(at, at + size')
                               /\ size' = scan \/ Class(text[at + size' + 1]) \notin Hyphens
    BY FullAsRuled
  <2> QED
    BY <1>1, <2>1, <2>2, SameRules DEF LineSoFar
<1> QED
  BY <1>2, <1>3, <1>4 DEF LInv

LEMMA LastLineRuled == IInv /\ LInv /\ LastLine => LInv'
<1> SUFFICES ASSUME IInv, LInv, LastLine PROVE LInv'
  OBVIOUS
<1>1. /\ UNCHANGED <<text, kind, columns, at, scan, window, pieces>>
      /\ kind = "lines" /\ phase = "scan" /\ phase' = "have" /\ scan = Left /\ size' = Left
  BY DEF LastLine
<1>2. Seen' /\ HebrewSeen' /\ LinesAsRuled'
  BY <1>1, SameLine
<1>3. size' = scan' /\ size' \in Nat /\ at + size' = Len(text)
  BY <1>1 DEF IInv, TypeOK, Left
<1>4. LineBegun'
  BY <1>1, <1>3 DEF LInv, LineBegun, IsWhitespace, Class
<1>5. LineSoFar'
  <2>1. EndsAsRuled(at, at + size')
    BY <1>3 DEF EndsAsRuled
  <2> QED
    BY <1>1, <1>3, <2>1, SameRules DEF LineSoFar
<1> QED
  BY <1>2, <1>4, <1>5 DEF LInv

-----------------------------------------------------------------------------
\* To the next piece

\* What Increment does to the pieces and to the position
LEMMA Yielded ==
  ASSUME IInv, Increment
  PROVE  /\ text \in Seq(Nat) /\ Len(text) \in Nat /\ at \in Nat /\ size \in Nat /\ scan \in Nat
         /\ UNCHANGED <<text, kind, columns, window>> /\ scan' = 0
         /\ at + size \in 0 .. Len(text) /\ at' \in at + size .. Len(text)
         /\ kind # "lines" \/ size = 0 => at' = at + size
         /\ at' \in Nat /\ phase' # "have" /\ (phase' = "scan" => at' < Len(text))
         /\ \A k \in DOMAIN pieces' :
              \/ k \in DOMAIN pieces /\ pieces'[k] = pieces[k]
              \/ size # 0 /\ pieces'[k].from = at /\ End(pieces'[k]) = at + size
<1>1. /\ text \in Seq(Nat) /\ Len(text) \in Nat /\ at \in Nat /\ size \in Nat /\ scan \in Nat
      /\ at + size \in 0 .. Len(text) /\ pieces \in Seq([from : Nat, size : Nat])
  BY DEF IInv, TypeOK, Left
<1>2. at' \in at + size .. Len(text)
  BY <1>1, RemovedSkips DEF Increment
<1>n. at' \in Nat
  BY <1>1, <1>2
<1>3. kind # "lines" \/ size = 0 => at' = at + size
  BY DEF Increment, Removed
<1>4. phase' # "have" /\ (phase' = "scan" => at' < Len(text))
  BY <1>1, <1>2 DEF Increment
<1>5. ASSUME NEW k \in DOMAIN pieces'
      PROVE  \/ k \in DOMAIN pieces /\ pieces'[k] = pieces[k]
             \/ size # 0 /\ pieces'[k].from = at /\ End(pieces'[k]) = at + size
  <2>1. CASE size = 0
    BY <1>5, <2>1 DEF Increment
  <2>2. CASE size # 0
    <3>1. pieces' = Append(pieces, Piece(at, size)) /\ Piece(at, size) \in [from : Nat, size : Nat]
      BY <1>1, <2>2 DEF Increment, Piece
    <3>2. k \in 1 .. Len(pieces) + 1 /\ Len(pieces) \in Nat /\ DOMAIN pieces = 1 .. Len(pieces)
      BY <1>1, <1>5, <3>1
    <3>3. CASE k = Len(pieces) + 1
      <4>1. pieces'[k] = Piece(at, size)
        BY <1>1, <3>1, <3>3
      <4> QED
        BY <2>2, <4>1 DEF Piece, End
    <3>4. CASE k # Len(pieces) + 1
      BY <1>1, <3>1, <3>2, <3>4
    <3> QED
      BY <3>3, <3>4
  <2> QED
    BY <2>1, <2>2
<1> QED
  BY <1>1, <1>2, <1>n, <1>3, <1>4, <1>5 DEF Increment

LEMMA IncrementClusters == IInv /\ CInv /\ kind = "clusters" /\ Increment => CInv'
<1> SUFFICES ASSUME IInv, CInv, kind = "clusters", Increment PROVE CInv'
  OBVIOUS
<1>1. size = scan /\ phase = "have"
  BY DEF Increment, CInv, ClusterSoFar
<1>2. /\ UNCHANGED <<text, kind, columns, window>> /\ scan' = 0 /\ at' = at + scan
      /\ at' + scan' = at + scan /\ at \in Nat /\ scan \in Nat /\ at' \in Nat
      /\ phase' # "have" /\ kind' = "clusters"
  BY <1>1, Yielded
<1>3. Seen'
  <2>1. Shows(window, at + scan, at + scan)
    BY DEF CInv, Seen
  <2>2. Shows(window, at' + scan', at' + scan')
    BY <1>2, <2>1
  <2> QED
    BY <1>2, <2>2, SameRules DEF Seen
<1>4. ClusterSoFar'
  <2>1. at' + 1 .. at' + scan' - 1 = {}
    BY <1>2
  <2> QED
    BY <1>2, <2>1 DEF ClusterSoFar
<1>5. ClustersAsRuled'
  <2> SUFFICES ASSUME WindowSuffices', NEW k \in DOMAIN pieces'
               PROVE  /\ \A n \in pieces'[k].from + 1 .. End(pieces'[k]) - 1 : ~Allowed(n)
                      /\ End(pieces'[k]) < Len(text) => Allowed(End(pieces'[k]))
    BY <1>2, SameRules DEF ClustersAsRuled, End
  <2>1. WindowSuffices
    BY <1>2, SameRules
  <2>2. CASE k \in DOMAIN pieces /\ pieces'[k] = pieces[k]
    BY <2>1, <2>2 DEF CInv, ClustersAsRuled
  <2>3. CASE pieces'[k].from = at /\ End(pieces'[k]) = at + size
    <3>1. /\ \A n \in at + 1 .. at + scan - 1 : ~Allowed(n)
          /\ at + scan < Len(text) => Allowed(at + scan)
      BY <1>1, <2>1 DEF CInv, ClusterSoFar
    <3>2. \A p : p.from = at /\ End(p) = at + scan
                  => /\ \A n \in p.from + 1 .. End(p) - 1 : ~Allowed(n)
                     /\ End(p) < Len(text) => Allowed(End(p))
      BY <1>2, <3>1
    <3> QED
      BY <1>1, <2>3, <3>2
  <2> QED
    BY <2>2, <2>3, Yielded
<1> QED
  BY <1>3, <1>4, <1>5 DEF CInv

LEMMA IncrementLines == IInv /\ LInv /\ kind = "lines" /\ Increment => LInv'
<1> SUFFICES ASSUME IInv, LInv, kind = "lines", Increment PROVE LInv'
  OBVIOUS
<1>1. /\ UNCHANGED <<text, kind, columns, window>> /\ scan' = 0 /\ kind' = "lines"
      /\ text \in Seq(Nat) /\ Len(text) \in Nat /\ at \in Nat /\ scan \in Nat /\ size \in Nat
      /\ at + size \in 0 .. Len(text) /\ at' \in at + size .. Len(text)
      /\ at' \in Nat /\ (size = 0 => at' = at + size)
      /\ phase' # "have" /\ (phase' = "scan" => at' < Len(text)) /\ phase = "have"
  BY Yielded DEF Increment
<1>2. size <= scan /\ (size = 0 => scan = 0 /\ at' = at)
  BY <1>1 DEF LInv, LineBegun
<1>s. Shows(window, at + scan, scan)
  BY DEF LInv, Seen
<1>w. WindowSize \in Nat /\ 1 \in 1 .. WindowSize
  BY WindowSizeAssumption
<1>a. PICK a \in Nat : a = at'
  BY <1>1
<1>b. a \in at + size .. Len(text) /\ (size = 0 => a = at + size)
  BY <1>1, <1>a
<1>3. Seen'
  <2>1. Shows(window, a, 0)
    <3>1. CASE size = 0
      <4>1. at + scan = a /\ scan = 0
        BY <1>1, <1>2, <1>b, <3>1
      <4> QED
        BY <1>s, <4>1
    <3>2. CASE size # 0
      <4>1. a # 0
        BY <1>1, <1>b, <3>2
      <4> QED
        BY <1>s, <1>w, <4>1 DEF Shows
    <3> QED
      BY <3>1, <3>2
  <2>2. a + 0 = a
    OBVIOUS
  <2>3. Shows(window, a + 0, 0)'
    BY <1>1, <2>1, <2>2, SameRules
  <2> QED
    BY <1>1, <1>a, <2>3 DEF Seen
<1>4. at' \in 1 .. Len(text) - 1 => ~IsWhitespace(text[at' + 1])
  <2>1. CASE size = 0
    BY <1>2, <2>1 DEF LInv, LineBegun
  <2>2. CASE size # 0
    <3>1. at' = Removed(at + size)
      BY DEF Increment
    <3>2. Removed(at + size) < Len(text) => ~IsWhitespace(text[Removed(at + size) + 1])
      BY <1>1, <2>2, RemovedSkips
    <3> QED
      BY <1>1, <3>1, <3>2
  <2> QED
    BY <2>1, <2>2
<1>5. LineBegun'
  BY <1>1, <1>4 DEF LInv, LineBegun, IsWhitespace, Class
<1>6. ASSUME Simple, at' \in 1 .. Len(text) - 1, Class(text[at' + 1]) \in Hyphens
      PROVE  window[1] = "HL" <=> Class(text[at']) = "HL"
  <2>1. CASE size = 0
    BY <1>2, <1>6, <2>1 DEF LInv, HebrewSeen
  <2>2. CASE size # 0 /\ at' = at + size
    <3>1. size = scan
      BY <1>1, <1>6, <2>2 DEF LInv, LineSoFar
    <3>2. 1 <= scan /\ at + scan + 1 - 1 = at'
      BY <1>1, <2>2, <3>1
    <3>3. window[1] = Class(text[at + scan + 1 - 1])
      BY <1>s, <1>w, <3>2 DEF Shows
    <3> QED
      BY <3>2, <3>3
  <2>3. CASE size # 0 /\ at' # at + size
    <3>1. at' \in at + size + 1 .. Removed(at + size) /\ at' = Removed(at + size)
      BY <1>1, <2>3 DEF Increment
    <3>2. IsWhitespace(text[at'])
      BY <1>1, <3>1, RemovedSkips
    <3>3. at' + 1 \in 2 .. Len(text) /\ (at' + 1) - 1 = at' /\ at' \in DOMAIN text
      <4>1. a + 1 \in 2 .. Len(text) /\ (a + 1) - 1 = a /\ a \in DOMAIN text
        <5>1. a \in 1 .. Len(text) - 1
          BY <1>6, <1>a
        <5> QED
          BY <1>1, <5>1
      <4> QED
        BY <1>a, <4>1
    <3>c. \A cp : Class(cp) = LineClass(cp)
      BY DEF Class
    <3>4. Class(text[at']) # "HL"
      <4>1. text[at'] \in Nat
        BY <1>1, <3>3
      <4>2. LineClass(text[at']) = "HL" => text[at'] \in 1488 .. 1514
        BY <4>1, LineClasses
      <4> QED
        BY <3>2, <3>c, <4>2, Blanks
    <3>5. LineClass(text[at' + 1]) \in {"HY", "BA"}
      BY <1>1, <1>6 DEF Class, Hyphens
    <3>6. \A j \in DOMAIN text : LineClass(text[j]) # "HL"
      BY <1>6, <3>2, <3>3, <3>5 DEF Simple, NothingCarried
    <3>7. window[1] # "HL"
      BY <1>1, <1>w, <3>6 DEF LInv, LineBegun, Class
    <3> QED
      BY <3>4, <3>7
  <2> QED
    BY <2>1, <2>2, <2>3
<1>7. HebrewSeen'
  BY <1>1, <1>6, SameRules DEF HebrewSeen, Simple, Class
<1>8. LineSoFar'
  <2>1. at' + scan' = at' /\ mark'.size = 0 /\ at' + mark'.size + 1 .. at' + scan' = {}
    BY <1>1 DEF Increment, Mark
  <2> QED
    BY <1>1, <2>1 DEF LineSoFar
<1>9. LinesAsRuled'
  <2> SUFFICES ASSUME WindowSuffices', NothingCarried', NEW k \in DOMAIN pieces'
               PROVE  EndsAsRuled(pieces'[k].from, End(pieces'[k]))
    BY <1>1, SameRules DEF LinesAsRuled, End
  <2>1. Simple
    BY <1>1, SameRules DEF Simple
  <2>2. CASE k \in DOMAIN pieces /\ pieces'[k] = pieces[k]
    BY <1>1, <2>1, <2>2 DEF LInv, LinesAsRuled, Simple
  <2>3. CASE size # 0 /\ pieces'[k].from = at /\ End(pieces'[k]) = at + size
    BY <1>1, <2>1, <2>3 DEF LInv, LineSoFar
  <2> QED
    BY <2>2, <2>3, Yielded
<1> QED
  BY <1>3, <1>5, <1>7, <1>8, <1>9 DEF LInv

-----------------------------------------------------------------------------
RInv == IInv /\ Seen /\ ClusterSoFar /\ ClustersAsRuled
             /\ LineBegun /\ HebrewSeen /\ LineSoFar /\ LinesAsRuled

LEMMA InitRuled == Init => RInv
<1> SUFFICES ASSUME Init PROVE RInv
  OBVIOUS
<1>1. IInv
  BY InitOK
<1>2. /\ text \in Seq(Nat) /\ at = 0 /\ scan = 0 /\ size = 0 /\ mark.size = 0
      /\ phase \in {"scan", "end"} /\ (phase = "scan" => text # <<>>)
      /\ pieces = <<>> /\ window = [k \in 1 .. WindowSize |-> "any"]
      /\ DOMAIN pieces = {}
  BY <1>1 DEF Init, IInv, TypeOK, Mark, EmptyWindow
<1>3. Seen
  <2>1. at + scan = 0
    BY <1>2
  <2>2. Shows(window, 0, 0)
    BY <1>2, WindowSizeAssumption DEF Shows
  <2> QED
    BY <1>2, <2>1, <2>2 DEF Seen
<1>4. ClusterSoFar
  BY <1>2 DEF ClusterSoFar
<1>5. LineBegun
  BY <1>2 DEF LineBegun
<1>6. HebrewSeen
  BY <1>2 DEF HebrewSeen
<1>7. LineSoFar
  BY <1>2 DEF LineSoFar
<1> QED
  BY <1>1, <1>2, <1>3, <1>4, <1>5, <1>6, <1>7 DEF RInv, ClustersAsRuled, LinesAsRuled

LEMMA StillRuled == RInv /\ UNCHANGED vars => RInv'
<1> SUFFICES ASSUME RInv, UNCHANGED vars PROVE RInv'
  OBVIOUS
<1>1. /\ UNCHANGED <<text, kind, columns>>
      /\ UNCHANGED <<phase, at, scan, mark, window, size, pieces>>
  BY DEF vars
<1>2. IInv'
  BY StepOK DEF RInv
<1>3. Seen' /\ HebrewSeen' /\ LinesAsRuled' /\ ClustersAsRuled'
  BY <1>1, SameRules
     DEF RInv, Seen, HebrewSeen, Simple, LinesAsRuled, ClustersAsRuled, End
<1>4. ClusterSoFar'
  BY <1>1, SameRules DEF RInv, ClusterSoFar, Left
<1>5. LineBegun' /\ LineSoFar'
  BY <1>1, SameRules DEF RInv, LineBegun, LineSoFar, Simple, IsWhitespace, Class
<1> QED
  BY <1>2, <1>3, <1>4, <1>5 DEF RInv

LEMMA StepRuled == RInv /\ [Next]_vars => RInv'
<1> SUFFICES ASSUME RInv, [Next]_vars PROVE RInv'
  OBVIOUS
<1>1. IInv /\ CInv /\ LInv /\ TypeOK
  BY DEF RInv, CInv, LInv, IInv
<1>2. IInv'
  BY <1>1, StepOK
<1>3. ASSUME CInv', kind' = "clusters" PROVE RInv'
  BY <1>2, <1>3 DEF RInv, CInv, LineBegun, HebrewSeen, LineSoFar, LinesAsRuled
<1>4. ASSUME LInv', kind' = "lines" PROVE RInv'
  BY <1>2, <1>4 DEF RInv, LInv, ClusterSoFar, ClustersAsRuled
<1>5. CASE ScanCluster
  <2>1. kind' = "clusters"
    BY <1>5 DEF ScanCluster
  <2> QED
    BY <1>1, <1>3, <1>5, <2>1, ScanClusterRuled
<1>6. CASE ScanLine
  <2>1. kind' = "lines"
    BY <1>6 DEF ScanLine
  <2> QED
    BY <1>1, <1>4, <1>6, <2>1, ScanLineRuled
<1>7. CASE LineFull
  <2>1. kind' = "lines"
    BY <1>7 DEF LineFull
  <2> QED
    BY <1>1, <1>4, <1>7, <2>1, LineFullRuled
<1>8. CASE LastLine
  <2>1. kind' = "lines"
    BY <1>8 DEF LastLine
  <2> QED
    BY <1>1, <1>4, <1>8, <2>1, LastLineRuled
<1>9. CASE Increment
  <2>1. kind' = kind /\ kind \in {"clusters", "lines"}
    BY <1>1, <1>9 DEF Increment, TypeOK
  <2> QED
    BY <1>1, <1>3, <1>4, <1>9, <2>1, IncrementClusters, IncrementLines
<1> QED
  BY <1>5, <1>6, <1>7, <1>8, <1>9, StillRuled DEF Next

LEMMA Ruled == Spec => []RInv
  BY InitRuled, StepRuled, PTL DEF Spec

-----------------------------------------------------------------------------
\* utf8.hpp:257-259, 563-566: whatever the break rules say, no iterator looks
\* or moves past its text.
THEOREM TypeCorrect == Spec => []TypeOK
  BY Invariant, PTL DEF IInv

\* utf8.hpp:154-179, 485-501: for every text and whatever the rules say, every
\* code point is in exactly one piece, in order, but for whitespace between
\* lines.
THEOREM TextKept == Spec => []NothingLost
  BY Invariant, PTL DEF IInv

\* utf8.hpp:503-566: for every text, number of columns and set of rules, no
\* line is wider than asked for.
THEOREM NoLineTooWide == Spec => []LinesFit
  BY Invariant, PTL DEF IInv

\* grapheme_cluster_break.hpp:35-38, utf8.hpp:217-259: for every text and size
\* of the window, if flags and spaces are fewer than the window has room for,
\* the clusters are those of the rules applied to the whole text.
THEOREM ClustersRight == Spec => []ClustersAsRuled
  BY Ruled, PTL DEF RInv

\* utf8.hpp:503-566: for every text, number of columns and size of the window,
\* under the premises LinesAsRuled names, every line ends at the last position
\* the rules allow.
THEOREM LinesRight == Spec => []LinesAsRuled
  BY Ruled, PTL DEF RInv
=============================================================================
