-------------------------- MODULE TerminalWidthProofs --------------------------
(***************************************************************************)
(* For every table in order and every string: the binary search of         *)
(* utf8::terminal_width stays within its table and never leaves behind the *)
(* row it looks for; and a row survives its packing into 48 bits.          *)
(***************************************************************************)
EXTENDS TerminalWidth, BasicProofs, FiniteSetTheorems

LEMMA Bounds ==
  /\ MaxByte \in Nat /\ MaxByte < 256
  /\ MaxBits \in Nat /\ MaxBits < 2097152 /\ MaxBits >= 2097151
  /\ MaxCodePoint \in Nat /\ MaxCodePoint < 1114112
  BY SMT DEF MaxByte, MaxBits, MaxCodePoint

LEMMA Split21 ==
  ASSUME NEW a \in Nat, NEW r \in Nat, r < 8
  PROVE  /\ (((a \div 65536) % 32) + 32 * r) % 32 = (a \div 65536) % 32
         /\ (((a \div 65536) % 32) + 32 * r) \div 32 = r
  OBVIOUS

\* code_point.hpp:35-58, 60-95: what range's constructor packs, first, last and
\* meta read back: three bytes end where two numbers meet.
THEOREM PackedRow ==
  ASSUME NEW row \in Rows
  PROVE  /\ First(Pack(row)) = row.first
         /\ Last(Pack(row)) = row.last
         /\ MetaOf(Pack(row)) = row.meta
<1> DEFINE a == row.first
           b == row.last
           m == row.meta
<1>1. /\ a \in Nat /\ a < 2097152
      /\ b \in Nat /\ b < 2097152
      /\ m \in Nat /\ m < 64
  BY SMT, Bounds DEF Rows
<1>2. Pack(row) = <<a % 256, (a \div 256) % 256,
                    ((a \div 65536) % 32) + 32 * (b % 8), (b \div 8) % 256,
                    (b \div 2048) % 256, ((b \div 524288) % 4) + 4 * (m % 64)>>
  BY DEF Pack
<1> HIDE DEF a, b, m
<1>3. First(Pack(row)) = (a % 256) + 256 * ((a \div 256) % 256) + 65536 * ((a \div 65536) % 32)
  BY SMT, <1>1, <1>2, Split21 DEF First
<1>4. Last(Pack(row)) = (b % 8) + 8 * ((b \div 8) % 256) + 2048 * ((b \div 2048) % 256)
                        + 524288 * ((b \div 524288) % 4)
  BY SMT, <1>1, <1>2, Split21 DEF Last
<1>5. MetaOf(Pack(row)) = m
  BY <1>1, <1>2 DEF MetaOf
<1>6. First(Pack(row)) = a
  BY SMT, <1>1, <1>3
<1>7. Last(Pack(row)) = b
  BY SMT, <1>1, <1>4
<1> QED
  BY <1>5, <1>6, <1>7 DEF a, b, m

LEMMA RowsTyped ==
  /\ \A t : RowsOf(t) \in Seq(Rows) /\ Ordered(RowsOf(t))
  BY RowsAssumption DEF RowsOf

LEMMA RowTyped ==
  \A t : \A k \in DOMAIN RowsOf(t) :
    k \in Nat /\ RowsOf(t)[k].first \in Nat /\ RowsOf(t)[k].last \in Nat
<1> SUFFICES ASSUME NEW t, NEW k \in DOMAIN RowsOf(t)
             PROVE  k \in Nat /\ RowsOf(t)[k].first \in Nat /\ RowsOf(t)[k].last \in Nat
  OBVIOUS
<1>1. RowsOf(t) \in Seq(Rows)
  BY RowsTyped
<1>2. RowsOf(t)[k] \in Rows /\ k \in Nat
  BY <1>1
<1> QED
  BY SMT, <1>2, Bounds DEF Rows

LEMMA LowBits ==
  ASSUME NEW n \in Nat
  PROVE  /\ n % 8 \in Nat /\ n % 8 <= 7
         /\ n % 16 \in Nat /\ n % 16 <= 15
         /\ n % 64 \in Nat /\ n % 64 <= 63
  BY SMT

Joined(a, b, c, d) == a * 262144 + b * 4096 + c * 64 + d

LEMMA JoinedTyped ==
  ASSUME NEW a \in Nat, NEW b \in Nat, NEW c \in Nat, NEW d \in Nat,
         a <= 7, b <= 63, c <= 63, d <= 63
  PROVE  Joined(a, b, c, d) \in 0 .. MaxBits
  BY SMT, Bounds DEF Joined

LEMMA SizeTyped ==
  ASSUME NEW s \in Seq(Byte), s # <<>>
  PROVE  Size(s) \in 1 .. 4
<1>0. Len(s) > 0
  OBVIOUS
<1>1. s[1] \in Nat
  BY SMT, <1>0, Bounds DEF Byte
<1> QED
  BY <1>1 DEF Size, SizeOf

\* code_point.hpp:190-222
LEMMA DecodeTyped ==
  ASSUME NEW s \in Seq(Byte), s # <<>>, Size(s) <= Len(s)
  PROVE  Decode(s) \in 0 .. MaxBits
<1>1. Size(s) \in 1 .. 4
  BY SizeTyped
<1>2. \A k \in 1 .. Size(s) : s[k] \in Nat /\ s[k] < 256
  BY SMT, Bounds, <1>1 DEF Byte
<1>3. CASE Size(s) = 1
  BY SMT, Bounds, <1>2, <1>3 DEF Decode
<1>4. CASE Size(s) = 2
  BY SMT, Bounds, <1>2, <1>4 DEF Decode, Trailing
<1>5. CASE Size(s) = 3
  <2>1. Decode(s) = (s[1] % 16) * 4096 + (s[2] % 64) * 64 + (s[3] % 64)
    BY SMT, <1>5 DEF Decode, Trailing
  <2>2. s[1] \in Nat /\ s[2] \in Nat /\ s[3] \in Nat
    BY SMT, <1>2, <1>5
  <2>3. Decode(s) = 0 * 262144 + (s[1] % 16) * 4096 + (s[2] % 64) * 64 + (s[3] % 64)
    BY SMT, <2>1, <2>2, LowBits
  <2> DEFINE b == s[1] % 16
             c == s[2] % 64
             d == s[3] % 64
  <2>4. b \in Nat /\ c \in Nat /\ d \in Nat /\ b <= 63 /\ c <= 63 /\ d <= 63
    BY SMT, <2>2, LowBits
  <2> HIDE DEF b, c, d
  <2>5. Decode(s) = Joined(0, b, c, d)
    BY SMT, <2>3 DEF Joined, b, c, d
  <2> QED
    BY <2>4, <2>5, JoinedTyped
<1>6. CASE Size(s) = 4
  <2>1. Decode(s) = (s[1] % 8) * 262144 + (s[2] % 64) * 4096
                    + (s[3] % 64) * 64 + (s[4] % 64)
    BY SMT, <1>6 DEF Decode, Trailing
  <2>2. s[1] \in Nat /\ s[2] \in Nat /\ s[3] \in Nat /\ s[4] \in Nat
    BY SMT, <1>2, <1>6
  <2> DEFINE a == s[1] % 8
             b == s[2] % 64
             c == s[3] % 64
             d == s[4] % 64
  <2>3. /\ a \in Nat /\ b \in Nat /\ c \in Nat /\ d \in Nat
        /\ a <= 7 /\ b <= 63 /\ c <= 63 /\ d <= 63
    <3>1. a \in Nat /\ a <= 7
      BY <2>2, LowBits
    <3>2. b \in Nat /\ b <= 63 /\ c \in Nat /\ c <= 63 /\ d \in Nat /\ d <= 63
      BY <2>2, LowBits
    <3> QED
      BY <3>1, <3>2
  <2> HIDE DEF a, b, c, d
  <2>4. Decode(s) = Joined(a, b, c, d)
    BY SMT, <2>1 DEF Joined, a, b, c, d
  <2> QED
    BY <2>3, <2>4, JoinedTyped
<1> QED
  BY <1>1, <1>3, <1>4, <1>5, <1>6

\* code_point.hpp:148-222: what UTF-8 encodes is decoded again, and its bytes
\* are counted right, for every code point whose header is not the largest of
\* its length (Fullwidth shows one that is).
THEOREM DecodesEncoded ==
  ASSUME NEW n \in Nat, n < 1114112, ~Misjudged(n)
  PROVE  Size(Encode(n)) = Len(Encode(n)) /\ Decode(Encode(n)) = n
<1>1. CASE n < 128
  <2>1. Encode(n) = <<n>>
    BY <1>1 DEF Encode
  <2>2. Size(Encode(n)) = 1
    BY SMT, <1>1, <2>1 DEF Size, SizeOf
  <2> QED
    BY SMT, <2>1, <2>2 DEF Decode
<1>2. CASE n >= 128 /\ n < 2048
  <2>1. Encode(n) = <<192 + (n \div 64), 128 + (n % 64)>>
    BY SMT, <1>2 DEF Encode
  <2>2. n < 1984
    BY SMT, <1>2 DEF Misjudged
  <2>3. Size(Encode(n)) = 2
    BY SMT, <1>2, <2>1, <2>2 DEF Size, SizeOf
  <2>4. Decode(Encode(n)) = ((192 + (n \div 64)) % 32) * 64 + ((128 + (n % 64)) % 64)
    BY SMT, <2>1, <2>3 DEF Decode, Trailing
  <2>5. Decode(Encode(n)) = n
    BY SMT, <1>2, <2>4
  <2> QED
    BY SMT, <2>1, <2>3, <2>5
<1>3. CASE n >= 2048 /\ n < 65536
  <2>1. Encode(n) = <<224 + (n \div 4096), 128 + ((n \div 64) % 64), 128 + (n % 64)>>
    BY SMT, <1>3 DEF Encode
  <2>2. n < 61440
    BY SMT, <1>3 DEF Misjudged
  <2>3. Size(Encode(n)) = 3
    BY SMT, <1>3, <2>1, <2>2 DEF Size, SizeOf
  <2>4. Decode(Encode(n)) = ((224 + (n \div 4096)) % 16) * 4096
          + ((128 + ((n \div 64) % 64)) % 64) * 64 + ((128 + (n % 64)) % 64)
    BY SMT, <2>1, <2>3 DEF Decode, Trailing
  <2>5. Decode(Encode(n)) = n
    BY SMT, <1>3, <2>4
  <2> QED
    BY SMT, <2>1, <2>3, <2>5
<1>4. CASE n >= 65536
  <2>1. Encode(n) = <<240 + (n \div 262144), 128 + ((n \div 4096) % 64),
                      128 + ((n \div 64) % 64), 128 + (n % 64)>>
    BY SMT, <1>4 DEF Encode
  <2>2. Size(Encode(n)) = 4
    BY SMT, <1>4, <2>1 DEF Size, SizeOf
  <2>3. Decode(Encode(n)) = ((240 + (n \div 262144)) % 8) * 262144
          + ((128 + ((n \div 4096) % 64)) % 64) * 4096
          + ((128 + ((n \div 64) % 64)) % 64) * 64 + ((128 + (n % 64)) % 64)
    BY SMT, <2>1, <2>2 DEF Decode, Trailing
  <2>4. Decode(Encode(n)) = n
    BY SMT, <1>4, <2>3
  <2> QED
    BY SMT, <2>1, <2>2, <2>4
<1> QED
  BY SMT, <1>1, <1>2, <1>3, <1>4

\* code_point.hpp:150-160: the iterator stays on the bytes of the string.
LEMMA AdvanceTyped ==
  ASSUME NEW s \in Seq(Byte)
  PROVE  Advance(s) \in Seq(Byte)
<1>1. Size(s) \in Nat
  BY SizeTyped DEF Size
<1> QED
  BY <1>1 DEF Advance

IInv == TypeOK /\ NeverLeftBehind

\* What holds of the search's own numbers while it runs
LEMMA HalfwayRow ==
  ASSUME TypeOK, Searching
  PROVE  /\ first + Step \in DOMAIN RowsOf(table)
         /\ Step \in Nat /\ Step < len /\ 2 * Step <= len
         /\ First(Halfway) = RowsOf(table)[first + Step].first
         /\ Last(Halfway) = RowsOf(table)[first + Step].last
<1>1. Step \in Nat /\ Step < len /\ 2 * Step <= len
  BY DEF TypeOK, Searching, Step
<1>2. first + Step \in DOMAIN RowsOf(table)
  BY <1>1, RowsTyped DEF TypeOK
<1>3. RowsOf(table)[first + Step] \in Rows
  BY <1>2, RowsTyped
<1> QED
  BY <1>1, <1>2, <1>3, PackedRow DEF Halfway

LEMMA InitOK == Init => IInv
<1> SUFFICES ASSUME Init PROVE IInv
  OBVIOUS
<1>1. text \in Seq(CodePoints) /\ str \in Seq(Byte)
  BY InputsAssumption DEF Init
<1> QED
  BY SMT, Bounds, <1>1, RowsTyped DEF Init, IInv, TypeOK, NeverLeftBehind, NoCodePoint

\* A search begins with all rows of its table.
LEMMA SearchOK ==
  ASSUME NEW t \in {"double", "zero"}, Search(t), cp' \in -1 .. MaxBits
  PROVE  /\ first' = 1 /\ len' \in Nat /\ first' + len' <= Len(RowsOf(table')) + 1
         /\ table' \in {"double", "zero"}
         /\ NeverLeftBehind'
<1>1. table' = t /\ first' = 1 /\ len' = Len(RowsOf(t)) /\ RowsOf(t) \in Seq(Rows)
  BY RowsTyped DEF Search
<1> QED
  BY <1>1 DEF NeverLeftBehind

LEMMA StepOK == IInv /\ [Next]_vars => IInv'
<1> SUFFICES ASSUME IInv, [Next]_vars PROVE IInv'
  OBVIOUS
<1> USE DEF IInv
<1>1. CASE DecodeNext
  <2>1. cp' \in 0 .. MaxBits
    BY SMT, <1>1, DecodeTyped DEF DecodeNext, TypeOK
  <2>2. Search("double")
    BY SMT, <1>1 DEF DecodeNext
  <2>3. /\ first' = 1 /\ len' \in Nat /\ first' + len' <= Len(RowsOf(table')) + 1
        /\ table' \in {"double", "zero"}
        /\ NeverLeftBehind'
    BY <2>1, <2>2, SearchOK
  <2> QED
    BY SMT, <1>1, <2>1, <2>3 DEF DecodeNext, TypeOK
<1>2. CASE Done
  BY <1>2 DEF Done, TypeOK, NeverLeftBehind
<1>3. CASE Below
  <2>1. /\ first + Step \in DOMAIN RowsOf(table)
        /\ Step \in Nat /\ Step < len
        /\ cp < RowsOf(table)[first + Step].first
    BY <1>3, HalfwayRow DEF Below
  <2>2. TypeOK'
    BY <1>3, <2>1 DEF Below, TypeOK
  <2>3. ASSUME NEW k \in DOMAIN RowsOf(table), Covers(RowsOf(table)[k], cp)
        PROVE  first <= k /\ k < first + Step
    <3>1. first <= k /\ k < first + len
      BY <1>3, <2>3 DEF NeverLeftBehind, Below, Searching
    <3>2. ~(k >= first + Step)
      <4>1. RowsOf(table)[k].first <= cp
        BY <2>3 DEF Covers
      <4>2. k > first + Step => RowsOf(table)[first + Step].last < RowsOf(table)[k].first
        BY <2>1, RowsTyped DEF Ordered
      <4>3. RowsOf(table)[first + Step].first <= RowsOf(table)[first + Step].last
        BY <2>1, RowsTyped DEF Ordered
      <4> QED
        BY SMT, <2>1, <4>1, <4>2, <4>3, RowTyped DEF TypeOK
    <3> QED
      BY SMT, <3>1, <3>2, <2>1, RowTyped DEF TypeOK
  <2> QED
    BY <1>3, <2>2, <2>3 DEF Below, NeverLeftBehind
<1>4. CASE Inside
  BY <1>4, AdvanceTyped DEF Inside, Add, TypeOK, NeverLeftBehind
<1>5. CASE Above
  <2>1. /\ first + Step \in DOMAIN RowsOf(table)
        /\ Step \in Nat /\ Step < len
        /\ cp > RowsOf(table)[first + Step].last
    BY <1>5, HalfwayRow DEF Above
  <2>2. TypeOK'
    BY <1>5, <2>1 DEF Above, TypeOK
  <2>3. ASSUME NEW k \in DOMAIN RowsOf(table), Covers(RowsOf(table)[k], cp)
        PROVE  first + Step + 1 <= k /\ k < first + len
    <3>1. first <= k /\ k < first + len
      BY <1>5, <2>3 DEF NeverLeftBehind, Above, Searching
    <3>2. ~(k <= first + Step)
      <4>1. cp <= RowsOf(table)[k].last
        BY <2>3 DEF Covers
      <4>2. k < first + Step => RowsOf(table)[k].last < RowsOf(table)[first + Step].first
        BY <2>1, RowsTyped DEF Ordered
      <4>3. RowsOf(table)[first + Step].first <= RowsOf(table)[first + Step].last
        BY <2>1, RowsTyped DEF Ordered
      <4> QED
        BY SMT, <2>1, <4>1, <4>2, <4>3, RowTyped DEF TypeOK
    <3> QED
      BY SMT, <3>1, <3>2, <2>1, RowTyped DEF TypeOK
  <2> QED
    BY <1>5, <2>1, <2>2, <2>3 DEF Above, NeverLeftBehind, TypeOK
<1>6. CASE Missing
  <2>1. CASE table = "zero" /\ Add(1)
    BY <2>1, AdvanceTyped DEF Add, TypeOK, NeverLeftBehind
  <2>2. CASE table = "double" /\ Search("zero") /\ UNCHANGED <<text, str, cp, width, phase>>
    <3>1. /\ first' = 1 /\ len' \in Nat /\ first' + len' <= Len(RowsOf(table')) + 1
          /\ table' \in {"double", "zero"}
          /\ NeverLeftBehind'
      BY <2>2, SearchOK DEF TypeOK
    <3> QED
      BY <2>2, <3>1 DEF TypeOK
  <2> QED
    BY <1>6, <2>1, <2>2 DEF Missing
<1>7. CASE UNCHANGED vars
  BY <1>7 DEF vars, TypeOK, NeverLeftBehind
<1> QED
  BY <1>1, <1>2, <1>3, <1>4, <1>5, <1>6, <1>7 DEF Next

\* utf8.hpp:20-40: the search reads no row outside its table.
THEOREM TypeCorrect == Spec => []TypeOK
<1>1. IInv => TypeOK
  BY DEF IInv
<1> QED
  BY InitOK, StepOK, <1>1, PTL DEF Spec

\* utf8.hpp:20-40: whatever the size of the table, the row that has the code
\* point stays among those that are left, so a search that ends with none
\* found is right.
THEOREM SearchComplete == Spec => []NeverLeftBehind
<1>1. IInv => NeverLeftBehind
  BY DEF IInv
<1> QED
  BY InitOK, StepOK, <1>1, PTL DEF Spec

\* utf8.hpp:25-38: and it ends: a turn leaves at most half of the rows.
THEOREM Halving == Spec => Halves
<1>1. IInv /\ [Next]_vars =>
        [phase = "search" /\ phase' = "search" /\ table' = table => 2 * len' <= len]_vars
  <2> SUFFICES ASSUME IInv, Next, phase = "search", phase' = "search", table' = table
               PROVE  2 * len' <= len
    BY DEF vars
  <2>1. CASE Below
    BY <2>1, HalfwayRow DEF Below, IInv, TypeOK
  <2>2. CASE Above
    BY <2>2, HalfwayRow DEF Above, IInv, TypeOK, Step
  <2>3. ~DecodeNext /\ ~Done /\ ~Inside /\ ~Missing
    BY SMT DEF DecodeNext, Done, Inside, Missing, Add, Search
  <2> QED
    BY <2>1, <2>2, <2>3 DEF Next
<1> QED
  BY InitOK, StepOK, <1>1, PTL DEF Spec, Halves
-----------------------------------------------------------------------------
\* The bytes of a text and their decoding

\* code_point.hpp:148-178: a code point has one to four bytes, of which only
\* the first is no continuation.
LEMMA EncodeBytes ==
  ASSUME NEW c \in CodePoints
  PROVE  /\ Encode(c) \in Seq(Byte) /\ Len(Encode(c)) \in 1 .. 4 /\ 1 <= Len(Encode(c))
         /\ ~IsContinuation(Encode(c)[1])
         /\ \A k \in 2 .. Len(Encode(c)) : IsContinuation(Encode(c)[k])
<1>1. c \in Nat /\ c < 1114112 /\ Byte = 0 .. 255
  BY SMT, Bounds DEF CodePoints, Byte, MaxByte
<1>2. \A x \in Nat : 128 + (x % 64) \in Byte /\ IsContinuation(128 + (x % 64))
  BY SMT, <1>1 DEF IsContinuation
<1>3. CASE c < 128
  <2>1. Encode(c) = <<c>>
    BY SMT, <1>1, <1>3 DEF Encode
  <2>2. c \in Byte /\ ~IsContinuation(c)
    BY SMT, <1>1, <1>3 DEF IsContinuation
  <2> QED
    BY SMT, <2>1, <2>2
<1>4. CASE c >= 128 /\ c < 2048
  <2> DEFINE a == 192 + (c \div 64)
             b == 128 + (c % 64)
  <2>1. Encode(c) = <<a, b>>
    BY SMT, <1>1, <1>4 DEF Encode
  <2>2. a \in Byte /\ ~IsContinuation(a)
    BY SMT, <1>1, <1>4 DEF IsContinuation
  <2>3. b \in Byte /\ IsContinuation(b)
    BY SMT, <1>1, <1>2
  <2> HIDE DEF a, b
  <2> QED
    BY SMT, <2>1, <2>2, <2>3
<1>5. CASE c >= 2048 /\ c < 65536
  <2> DEFINE a == 224 + (c \div 4096)
             b == 128 + ((c \div 64) % 64)
             d == 128 + (c % 64)
  <2>1. Encode(c) = <<a, b, d>>
    BY SMT, <1>1, <1>5 DEF Encode
  <2>2. a \in Byte /\ ~IsContinuation(a)
    BY SMT, <1>1, <1>5 DEF IsContinuation
  <2>3. b \in Byte /\ IsContinuation(b) /\ d \in Byte /\ IsContinuation(d)
    <3>1. c \div 64 \in Nat
      BY SMT, <1>1
    <3> QED
      BY SMT, <1>1, <1>2, <3>1
  <2> HIDE DEF a, b, d
  <2> QED
    BY SMT, <2>1, <2>2, <2>3
<1>6. CASE c >= 65536
  <2> DEFINE a == 240 + (c \div 262144)
             b == 128 + ((c \div 4096) % 64)
             d == 128 + ((c \div 64) % 64)
             e == 128 + (c % 64)
  <2>1. Encode(c) = <<a, b, d, e>>
    BY SMT, <1>1, <1>6 DEF Encode
  <2>2. a \in Byte /\ ~IsContinuation(a)
    BY SMT, <1>1, <1>6 DEF IsContinuation
  <2>3. b \in Byte /\ IsContinuation(b) /\ d \in Byte /\ IsContinuation(d)
        /\ e \in Byte /\ IsContinuation(e)
    <3>1. c \div 64 \in Nat /\ c \div 4096 \in Nat
      BY SMT, <1>1
    <3> QED
      BY SMT, <1>1, <1>2, <3>1
  <2> HIDE DEF a, b, d, e
  <2> QED
    BY SMT, <2>1, <2>2, <2>3
<1> QED
  BY SMT, <1>1, <1>3, <1>4, <1>5, <1>6

\* code_point.hpp:190-222: only the bytes of the first code point decide what
\* is decoded and how far the iterator goes.
LEMMA DecodeFirst ==
  ASSUME NEW c \in CodePoints, ~Misjudged(c), NEW rest \in Seq(Byte)
  PROVE  /\ Decode(Encode(c) \o rest) = c
         /\ Advance(Encode(c) \o rest) = rest
<1> DEFINE e == Encode(c)
           s == e \o rest
<1>1. e \in Seq(Byte) /\ Len(e) \in 1 .. 4 /\ 1 <= Len(e) /\ Len(e) \in Nat
  BY EncodeBytes
<1>2. Size(e) = Len(e) /\ Decode(e) = c
  <2>1. c \in Nat /\ c < 1114112
    BY SMT, Bounds DEF CodePoints
  <2> QED
    BY SMT, <2>1, DecodesEncoded
<1> HIDE DEF e
<1>3. s \in Seq(Byte) /\ Len(s) \in Nat /\ Len(s) >= Len(e) /\ \A k \in 1 .. Len(e) : s[k] = e[k]
  BY <1>1
<1>4. SubSeq(s, Len(e) + 1, Len(s)) = rest
  BY <1>1
<1> HIDE DEF s
<1>5. s # <<>> /\ e # <<>> /\ s[1] = e[1]
  <2>1. Len(s) >= 1
    BY <1>1, <1>3
  <2>2. 1 \in 1 .. Len(e)
    BY <1>1
  <2> QED
    BY <1>1, <1>3, <2>1, <2>2
<1>6. Size(s) = Len(e)
  BY <1>2, <1>5 DEF Size
<1>7. Decode(s) = Decode(e)
  <2>1. CASE Len(e) = 1
    BY <1>2, <1>3, <1>6, <2>1 DEF Decode
  <2>2. CASE Len(e) = 2
    BY <1>2, <1>3, <1>6, <2>2 DEF Decode, Trailing
  <2>3. CASE Len(e) = 3
    BY <1>2, <1>3, <1>6, <2>3 DEF Decode, Trailing
  <2>4. CASE Len(e) = 4
    BY <1>2, <1>3, <1>6, <2>4 DEF Decode, Trailing
  <2> QED
    BY <1>1, <2>1, <2>2, <2>3, <2>4
<1>8. Advance(s) = rest
  BY <1>4, <1>6 DEF Advance
<1> QED
  BY <1>2, <1>7, <1>8 DEF s, e

\* The positions of the bytes that count
Counted(s) == {k \in DOMAIN s : ~IsContinuation(s[k])}

\* code_point.hpp:124-141: each code point counts once.
LEMMA CountFirst ==
  ASSUME NEW c \in CodePoints, NEW rest \in Seq(Byte)
  PROVE  Count(Encode(c) \o rest) = Count(rest) + 1
<1> DEFINE e == Encode(c)
           s == e \o rest
           L == Len(e)
           far == {k + L : k \in Counted(rest)}
<1>1. e \in Seq(Byte) /\ L \in 1 .. 4 /\ ~IsContinuation(e[1])
      /\ \A k \in 2 .. L : IsContinuation(e[k])
  BY EncodeBytes
<1> HIDE DEF e
<1>2. /\ DOMAIN s = 1 .. L + Len(rest) /\ Len(rest) \in Nat /\ DOMAIN rest = 1 .. Len(rest)
      /\ \A k \in 1 .. L : s[k] = e[k]
      /\ \A k \in 1 .. Len(rest) : s[k + L] = rest[k]
  BY <1>1
<1> HIDE DEF s, L
<1>3. Counted(s) = far \cup {1}
  <2>1. 1 \in Counted(s)
    BY <1>1, <1>2 DEF Counted, L
  <2>2. far \subseteq Counted(s)
    <3> SUFFICES ASSUME NEW k \in Counted(rest) PROVE k + L \in Counted(s)
      OBVIOUS
    <3>1. k \in 1 .. Len(rest) /\ ~IsContinuation(rest[k])
      BY <1>2 DEF Counted
    <3>2. k + L \in DOMAIN s /\ s[k + L] = rest[k]
      BY <1>1, <1>2, <3>1
    <3> QED
      BY <3>1, <3>2 DEF Counted
  <2>3. ASSUME NEW k \in Counted(s), k # 1 PROVE k \in far
    <3>1. k \in 1 .. L + Len(rest) /\ ~IsContinuation(s[k])
      BY <1>2 DEF Counted
    <3>2. ~(k \in 2 .. L)
      BY <1>1, <1>2, <3>1
    <3>3. k - L \in 1 .. Len(rest) /\ (k - L) + L = k
      BY <1>1, <1>2, <2>3, <3>1, <3>2
    <3>4. k - L \in Counted(rest)
      BY <1>2, <3>1, <3>3 DEF Counted
    <3> QED
      BY <3>3, <3>4
  <2> QED
    BY <2>1, <2>2, <2>3
<1>4. IsFiniteSet(Counted(rest))
  <2>1. IsFiniteSet(1 .. Len(rest))
    BY <1>2, FS_Interval
  <2> QED
    BY <1>2, <2>1, FS_Subset DEF Counted
<1>5. IsFiniteSet(far) /\ Cardinality(far) = Cardinality(Counted(rest))
  <2> DEFINE shift == [k \in Counted(rest) |-> k + L]
  <2>1. \A k \in Counted(rest) : k \in Int
    BY <1>2 DEF Counted
  <2>2. shift \in Bijection(Counted(rest), far)
    <3>1. shift \in [Counted(rest) -> far]
      OBVIOUS
    <3>2. \A j, k \in Counted(rest) : shift[j] = shift[k] => j = k
      BY <1>1, <2>1
    <3>3. \A y \in far : \E k \in Counted(rest) : shift[k] = y
      OBVIOUS
    <3> HIDE DEF shift, far
    <3> QED
      BY <3>1, <3>2, <3>3 DEF Bijection, Injection, Surjection, IsInjective
  <2> HIDE DEF shift, far
  <2>3. ExistsBijection(Counted(rest), far)
    BY <2>2 DEF ExistsBijection
  <2> QED
    BY <1>4, <2>3, FS_Bijection
<1>6. 1 \notin far
  BY <1>1, <1>2 DEF Counted
<1> HIDE DEF far
<1>7. Cardinality(far \cup {1}) = Cardinality(far) + 1
  BY <1>5, <1>6, FS_AddElement
<1> QED
  BY <1>3, <1>5, <1>7 DEF Count, Counted, s, e

\* What the recursive function of Bytes is
Laid(codes, n, g) == g = [k \in 0 .. n |-> IF k = 0 THEN <<>> ELSE g[k - 1] \o Encode(codes[k])]

LEMMA BytesLaid ==
  ASSUME NEW codes \in Seq(CodePoints)
  PROVE  /\ BytesUpTo(codes)[0] = <<>>
         /\ \A k \in 1 .. Len(codes) :
              BytesUpTo(codes)[k] = BytesUpTo(codes)[k - 1] \o Encode(codes[k])
         /\ \A k \in 0 .. Len(codes) : BytesUpTo(codes)[k] \in Seq(Byte)
<1> DEFINE L == Len(codes)
           f == BytesUpTo(codes)
           T == {n \in 0 .. L : \E g : Laid(codes, n, g)}
<1>1. L \in Nat
  OBVIOUS
<1>2. 0 \in T
  <2>1. Laid(codes, 0, [k \in 0 .. 0 |-> <<>>])
    BY DEF Laid
  <2> QED
    BY <1>1, <2>1
<1>3. ASSUME NEW n \in 1 .. L, n - 1 \in T PROVE n \in T
  <2>1. PICK g : Laid(codes, n - 1, g)
    BY <1>3
  <2> DEFINE h == [k \in 0 .. n |-> IF k = n THEN g[n - 1] \o Encode(codes[n]) ELSE g[k]]
  <2>2. \A k \in 0 .. n - 1 : g[k] = IF k = 0 THEN <<>> ELSE g[k - 1] \o Encode(codes[k])
    BY <2>1 DEF Laid
  <2>3. \A k \in 0 .. n : h[k] = IF k = 0 THEN <<>> ELSE h[k - 1] \o Encode(codes[k])
    BY <2>2
  <2>4. Laid(codes, n, h)
    BY <2>3 DEF Laid
  <2> QED
    BY <2>4
<1> HIDE DEF T
<1>4. L \in T
  <2>1. \A n \in 0 .. L : n \in T
    BY <1>1, <1>2, <1>3, UpTo
  <2> QED
    BY <1>1, <2>1
<1>5. f = CHOOSE g : Laid(codes, L, g)
  BY DEF BytesUpTo, Laid
<1>6. Laid(codes, L, f)
  BY <1>4, <1>5 DEF T
<1> HIDE DEF f
<1>7. f[0] = <<>> /\ \A k \in 1 .. L : f[k] = f[k - 1] \o Encode(codes[k])
  BY <1>1, <1>6 DEF Laid
<1> DEFINE U == {n \in 0 .. L : f[n] \in Seq(Byte)}
<1>8. 0 \in U
  <2>1. <<>> \in Seq(Byte)
    OBVIOUS
  <2>2. f[0] \in Seq(Byte)
    BY Zenon, <1>7, <2>1
  <2> QED
    BY <1>1, <2>2
<1>9. ASSUME NEW n \in 1 .. L, n - 1 \in U PROVE n \in U
  <2>1. codes[n] \in CodePoints
    OBVIOUS
  <2>2. Encode(codes[n]) \in Seq(Byte)
    BY <2>1, EncodeBytes
  <2>3. f[n] = f[n - 1] \o Encode(codes[n])
    BY <1>7
  <2>5. f[n - 1] \in Seq(Byte) /\ n \in 0 .. L
    BY <1>1, <1>9
  <2>4. \A p, q \in Seq(Byte) : p \o q \in Seq(Byte)
    OBVIOUS
  <2> QED
    BY <2>2, <2>3, <2>4, <2>5
<1> HIDE DEF U
<1>10. \A n \in 0 .. L : n \in U
  BY <1>1, <1>8, <1>9, UpTo
<1> QED
  BY <1>7, <1>10 DEF f, U

\* The bytes of a text are those of its first code point and those of the rest.
LEMMA BytesFirst ==
  ASSUME NEW codes \in Seq(CodePoints), NEW more \in Seq(CodePoints),
         Len(codes) = Len(more) + 1, \A k \in 1 .. Len(more) : more[k] = codes[k + 1]
  PROVE  Bytes(codes) = Encode(codes[1]) \o Bytes(more)
<1> DEFINE L == Len(more)
           f == BytesUpTo(codes)
           g == BytesUpTo(more)
           e == Encode(codes[1])
           T == {n \in 0 .. L : f[n + 1] = e \o g[n]}
<1>1. L \in Nat /\ codes[1] \in CodePoints /\ e \in Seq(Byte)
  BY EncodeBytes
<1>2. /\ f[0] = <<>> /\ \A k \in 1 .. L + 1 : f[k] = f[k - 1] \o Encode(codes[k])
      /\ g[0] = <<>> /\ \A k \in 1 .. L : g[k] = g[k - 1] \o Encode(more[k])
      /\ \A k \in 0 .. L : g[k] \in Seq(Byte)
  BY BytesLaid
<1> HIDE DEF e, f, g
<1>3. 0 \in T
  <2>1. f[1] = <<>> \o e
    <3>1. 1 \in 1 .. L + 1 /\ 1 - 1 = 0
      BY <1>1
    <3>2. f[1] = f[1 - 1] \o e
      BY <1>2, <3>1 DEF e
    <3> QED
      BY <1>2, <3>1, <3>2
  <2>2. f[1] = e \o g[0]
    BY <1>1, <1>2, <2>1
  <2> QED
    BY <1>1, <2>2
<1>4. ASSUME NEW n \in 1 .. L, n - 1 \in T PROVE n \in T
  <2> DEFINE c == Encode(more[n])
  <2>1. f[n] = e \o g[n - 1] /\ n \in 0 .. L /\ n - 1 \in 0 .. L
    BY <1>1, <1>4
  <2>2. more[n] \in CodePoints /\ more[n] = codes[n + 1]
    BY <1>1
  <2>3. c \in Seq(Byte)
    BY <2>2, EncodeBytes
  <2>4. n + 1 \in 1 .. L + 1 /\ (n + 1) - 1 = n
    BY <1>1
  <2>5. f[n + 1] = f[n] \o c /\ g[n] = g[n - 1] \o c
    BY <1>2, <2>2, <2>4
  <2> HIDE DEF c
  <2>6. (e \o g[n - 1]) \o c = e \o (g[n - 1] \o c)
    <3>1. g[n - 1] \in Seq(Byte)
      BY <1>2, <2>1
    <3>2. \A p, q, r \in Seq(Byte) : (p \o q) \o r = p \o (q \o r)
      OBVIOUS
    <3> QED
      BY <1>1, <2>3, <3>1, <3>2
  <2> QED
    BY <2>1, <2>5, <2>6
<1> HIDE DEF T
<1>5. L \in T
  <2>1. \A n \in 0 .. L : n \in T
    BY <1>1, <1>3, <1>4, UpTo
  <2> QED
    BY <1>1, <2>1
<1> QED
  BY <1>5 DEF T, Bytes, e, f, g

\* What is left of a text, one code point further on
LEMMA RemainingNext ==
  ASSUME text \in Seq(CodePoints), NEW n \in 0 .. Len(text), n < Len(text)
  PROVE  /\ Remaining(n) \in Seq(CodePoints) /\ Remaining(n + 1) \in Seq(CodePoints)
         /\ text[n + 1] \in CodePoints
         /\ Bytes(Remaining(n + 1)) \in Seq(Byte)
         /\ Bytes(Remaining(n)) = Encode(text[n + 1]) \o Bytes(Remaining(n + 1))
<1> DEFINE p == Remaining(n)
           q == Remaining(n + 1)
<1>0. ASSUME NEW t \in Seq(CodePoints), NEW m \in 0 .. Len(t)
      PROVE  /\ SubSeq(t, m + 1, Len(t)) \in Seq(CodePoints)
             /\ Len(SubSeq(t, m + 1, Len(t))) = Len(t) - m
             /\ \A k \in 1 .. Len(t) - m : SubSeq(t, m + 1, Len(t))[k] = t[k + m]
  OBVIOUS
<1>1. /\ p \in Seq(CodePoints) /\ Len(p) = Len(text) - n
      /\ \A k \in 1 .. Len(text) - n : p[k] = text[k + n]
      /\ q \in Seq(CodePoints) /\ Len(q) = Len(text) - n - 1
      /\ \A k \in 1 .. Len(text) - n - 1 : q[k] = text[k + n + 1]
  <2>1. /\ p \in Seq(CodePoints) /\ Len(p) = Len(text) - n
        /\ \A k \in 1 .. Len(text) - n : p[k] = text[k + n]
    BY <1>0 DEF Remaining
  <2>2. n + 1 \in 0 .. Len(text) /\ Len(text) - (n + 1) = Len(text) - n - 1
        /\ \A k \in Nat : k + (n + 1) = k + n + 1
    OBVIOUS
  <2>3. /\ q \in Seq(CodePoints) /\ Len(q) = Len(text) - (n + 1)
        /\ \A k \in 1 .. Len(text) - (n + 1) : q[k] = text[k + (n + 1)]
    BY <1>0, <2>2 DEF Remaining
  <2> HIDE DEF p, q
  <2>4. \A k \in 1 .. Len(text) - n - 1 : q[k] = text[k + n + 1]
    <3> SUFFICES ASSUME NEW k \in 1 .. Len(text) - n - 1 PROVE q[k] = text[k + n + 1]
      OBVIOUS
    <3>1. k \in Nat /\ k \in 1 .. Len(text) - (n + 1)
      OBVIOUS
    <3> QED
      BY <2>2, <2>3, <3>1
  <2> QED
    BY <2>1, <2>2, <2>3, <2>4
<1>2. Len(text) \in Nat /\ n \in Nat
  OBVIOUS
<1> HIDE DEF p, q
<1>3. p[1] = text[n + 1] /\ text[n + 1] \in CodePoints
  <2>1. 1 \in 1 .. Len(text) - n /\ 1 + n = n + 1
    BY <1>2
  <2> QED
    BY <1>1, <1>2, <2>1
<1>4. \A k \in 1 .. Len(q) : q[k] = p[k + 1]
  <2> SUFFICES ASSUME NEW k \in 1 .. Len(q) PROVE q[k] = p[k + 1]
    OBVIOUS
  <2>1. k \in 1 .. Len(text) - n - 1 /\ k + 1 \in 1 .. Len(text) - n /\ k + n + 1 = (k + 1) + n
    BY <1>1, <1>2
  <2> QED
    BY <1>1, <2>1
<1>5. Len(p) = Len(q) + 1
  BY <1>1, <1>2
<1>6. Bytes(p) = Encode(p[1]) \o Bytes(q)
  BY <1>1, <1>4, <1>5, BytesFirst
<1>7. Bytes(q) \in Seq(Byte)
  <2>1. Len(q) \in 0 .. Len(q)
    BY <1>1
  <2> QED
    BY <1>1, <2>1, BytesLaid DEF Bytes
<1> QED
  BY <1>1, <1>3, <1>6, <1>7 DEF p, q
\* code_point.hpp:124-141: the code points that are left are counted right.
LEMMA TextCounted ==
  ASSUME text \in Seq(CodePoints), NEW n \in 0 .. Len(text)
  PROVE  Count(Bytes(Remaining(n))) = Len(text) - n
<1> DEFINE L == Len(text)
           T == {m \in 0 .. L : Count(Bytes(Remaining(L - m))) = m}
<1>1. L \in Nat
  OBVIOUS
<1>2. Bytes(Remaining(L)) = <<>>
  <2>1. Remaining(L) = <<>>
    BY DEF Remaining
  <2>2. <<>> \in Seq(CodePoints) /\ Len(<<>>) = 0
    OBVIOUS
  <2>3. BytesUpTo(<<>>)[0] = <<>>
    BY <2>2, BytesLaid
  <2> QED
    BY <2>1, <2>2, <2>3 DEF Bytes
<1>3. Count(<<>>) = 0
  <2>1. {k \in DOMAIN <<>> : ~IsContinuation(<<>>[k])} = {}
    OBVIOUS
  <2> QED
    BY <2>1, FS_EmptySet DEF Count
<1>4. 0 \in T
  <2>1. L - 0 = L /\ 0 \in 0 .. L
    BY <1>1
  <2> QED
    BY <1>2, <1>3, <2>1
<1>5. ASSUME NEW m \in 1 .. L, m - 1 \in T PROVE m \in T
  <2>1. /\ L - m \in 0 .. L /\ L - m < L /\ (L - m) + 1 = L - (m - 1)
        /\ m \in 0 .. L /\ (m - 1) + 1 = m
    BY <1>1
  <2>2. /\ text[L - m + 1] \in CodePoints
        /\ Bytes(Remaining(L - (m - 1))) \in Seq(Byte)
        /\ Bytes(Remaining(L - m)) = Encode(text[L - m + 1]) \o Bytes(Remaining(L - (m - 1)))
    BY <2>1, RemainingNext
  <2>3. Count(Bytes(Remaining(L - m))) = Count(Bytes(Remaining(L - (m - 1)))) + 1
    BY <2>2, CountFirst
  <2> QED
    BY <1>5, <2>1, <2>3
<1> HIDE DEF T
<1>6. \A m \in 0 .. L : m \in T
  BY <1>1, <1>4, <1>5, UpTo
<1>7. L - n \in T /\ L - (L - n) = n
  BY <1>1, <1>6
<1> QED
  BY <1>7 DEF T

\* What the recursive function of the widths is
Added(codes, n, g) == g = [k \in 0 .. n |-> IF k = 0 THEN 0 ELSE g[k - 1] + WidthOf(codes[k])]

LEMMA WidthAdded ==
  ASSUME NEW codes \in Seq(CodePoints)
  PROVE  /\ WidthUpTo(codes)[0] = 0
         /\ \A k \in 1 .. Len(codes) :
              WidthUpTo(codes)[k] = WidthUpTo(codes)[k - 1] + WidthOf(codes[k])
<1> DEFINE L == Len(codes)
           f == WidthUpTo(codes)
           T == {n \in 0 .. L : \E g : Added(codes, n, g)}
<1>1. L \in Nat
  OBVIOUS
<1>2. 0 \in T
  <2>1. Added(codes, 0, [k \in 0 .. 0 |-> 0])
    BY DEF Added
  <2> QED
    BY <1>1, <2>1
<1>3. ASSUME NEW n \in 1 .. L, n - 1 \in T PROVE n \in T
  <2>1. PICK g : Added(codes, n - 1, g)
    BY <1>3
  <2> DEFINE h == [k \in 0 .. n |-> IF k = n THEN g[n - 1] + WidthOf(codes[n]) ELSE g[k]]
  <2>2. \A k \in 0 .. n - 1 : g[k] = IF k = 0 THEN 0 ELSE g[k - 1] + WidthOf(codes[k])
    BY <2>1 DEF Added
  <2>3. \A k \in 0 .. n : h[k] = IF k = 0 THEN 0 ELSE h[k - 1] + WidthOf(codes[k])
    BY <2>2
  <2>4. Added(codes, n, h)
    BY <2>3 DEF Added
  <2> QED
    BY <2>4
<1> HIDE DEF T
<1>4. L \in T
  <2>1. \A n \in 0 .. L : n \in T
    BY <1>1, <1>2, <1>3, UpTo
  <2> QED
    BY <1>1, <2>1
<1>5. f = CHOOSE g : Added(codes, L, g)
  BY DEF WidthUpTo, Added
<1>6. Added(codes, L, f)
  BY <1>4, <1>5 DEF T
<1> HIDE DEF f
<1>7. f[0] = 0 /\ \A k \in 1 .. L : f[k] = f[k - 1] + WidthOf(codes[k])
  BY <1>1, <1>6 DEF Added
<1> QED
  BY <1>7 DEF f
-----------------------------------------------------------------------------
\* The decoder's place in the text: it is in front of code point n + 1, and the
\* width is that of the code points before it.  While the second table is
\* searched, the first is known not to have the code point.
AtPoint(n) ==
  /\ str = Bytes(Remaining(n))
  /\ width = WidthUpTo(text)[n]
  /\ phase = "search" => /\ n < Len(text) /\ cp = text[n + 1]
                         /\ table = "zero" => ~Known(DoubleRows, cp)
  /\ phase = "done" => n = Len(text)

Plain == \A k \in DOMAIN text : ~Misjudged(text[k])

Placed == Plain /\ \E n \in 0 .. Len(text) : AtPoint(n)

LEMMA PlacedInit == ASSUME WellEncoded, Init PROVE Placed
<1>1. PICK input \in Inputs : text = input.text /\ str = input.str
  BY DEF Init
<1>2. text \in Seq(CodePoints) /\ Len(text) \in Nat
  BY <1>1, InputsAssumption
<1>3. Plain /\ str = Bytes(text)
  BY <1>1 DEF WellEncoded, Plain
<1>4. Remaining(0) = text
  BY <1>2 DEF Remaining
<1>5. width = WidthUpTo(text)[0]
  BY <1>2, WidthAdded DEF Init
<1>6. AtPoint(0)
  BY <1>3, <1>4, <1>5 DEF AtPoint, Init
<1> QED
  BY <1>2, <1>3, <1>6 DEF Placed

\* The step to the next code point, with the width of the last
LEMMA PlacedAdd ==
  ASSUME TypeOK, Plain, NEW n \in 0 .. Len(text), AtPoint(n), phase = "search",
         NEW columns, Add(columns), columns = WidthOf(cp)
  PROVE  Placed'
<1>1. /\ text \in Seq(CodePoints) /\ Len(text) \in Nat
      /\ n < Len(text) /\ cp = text[n + 1] /\ n + 1 \in 1 .. Len(text) /\ (n + 1) - 1 = n
  BY DEF TypeOK, AtPoint
<1>2. /\ text[n + 1] \in CodePoints
      /\ Bytes(Remaining(n + 1)) \in Seq(Byte)
      /\ str = Encode(text[n + 1]) \o Bytes(Remaining(n + 1))
  BY <1>1, RemainingNext DEF AtPoint
<1>3. ~Misjudged(text[n + 1])
  BY <1>1 DEF Plain
<1>4. /\ text' = text /\ phase' = "decode"
      /\ str' = Bytes(Remaining(n + 1))
      /\ width' = WidthUpTo(text)[n + 1]
  <2>1. text' = text /\ phase' = "decode" /\ str' = Advance(str) /\ width' = width + columns
    BY DEF Add
  <2>2. Advance(str) = Bytes(Remaining(n + 1))
    BY <1>2, <1>3, DecodeFirst
  <2>3. WidthUpTo(text)[n + 1] = WidthUpTo(text)[n] + WidthOf(text[n + 1])
    BY <1>1, WidthAdded
  <2> QED
    BY <1>1, <2>1, <2>2, <2>3 DEF AtPoint
<1>5. AtPoint(n + 1)'
  BY <1>4 DEF AtPoint, Remaining, WidthUpTo, WidthOf
<1> QED
  BY <1>1, <1>4, <1>5 DEF Placed, Plain

\* A step that leaves the decoder where it is
LEMMA PlacedKept ==
  ASSUME Plain, NEW n \in 0 .. Len(text), AtPoint(n), UNCHANGED <<text, str, width>>,
         phase' = "search" => /\ n < Len(text) /\ cp' = text[n + 1]
                              /\ table' = "zero" => ~Known(DoubleRows, cp'),
         phase' = "done" => n = Len(text)
  PROVE  Placed'
<1>1. AtPoint(n)'
  BY DEF AtPoint, Remaining, WidthUpTo, WidthOf
<1> QED
  BY <1>1 DEF Placed, Plain

LEMMA PlacedStep == IInv /\ Placed /\ [Next]_vars => Placed'
<1> SUFFICES ASSUME IInv, Placed, [Next]_vars PROVE Placed'
  OBVIOUS
<1>1. PICK n \in 0 .. Len(text) : AtPoint(n)
  BY DEF Placed
<1>2. Plain /\ TypeOK /\ text \in Seq(CodePoints) /\ Len(text) \in Nat
  BY DEF Placed, IInv, TypeOK
<1>3. CASE DecodeNext
  <2>1. /\ phase = "decode" /\ str # <<>> /\ cp' = Decode(str) /\ phase' = "search"
        /\ table' = "double" /\ UNCHANGED <<text, str, width>>
    BY SMT, <1>3 DEF DecodeNext, Search
  <2>2. n < Len(text)
    <3> SUFFICES ASSUME n = Len(text) PROVE str = <<>>
      BY <1>2, <2>1
    <3>1. Count(str) = 0
      BY <1>1, <1>2, TextCounted DEF AtPoint
    <3>2. Remaining(n) = <<>>
      BY <1>2 DEF Remaining
    <3>3. <<>> \in Seq(CodePoints) /\ Len(<<>>) = 0
      OBVIOUS
    <3>4. BytesUpTo(<<>>)[0] = <<>>
      BY <3>3, BytesLaid
    <3> QED
      BY <1>1, <3>2, <3>3, <3>4 DEF AtPoint, Bytes
  <2>3. /\ text[n + 1] \in CodePoints
        /\ Bytes(Remaining(n + 1)) \in Seq(Byte)
        /\ str = Encode(text[n + 1]) \o Bytes(Remaining(n + 1))
    BY <1>1, <1>2, <2>2, RemainingNext DEF AtPoint
  <2>4. ~Misjudged(text[n + 1])
    BY <1>2, <2>2 DEF Plain
  <2>5. cp' = text[n + 1]
    BY <2>1, <2>3, <2>4, DecodeFirst
  <2> QED
    BY <1>1, <1>2, <2>1, <2>2, <2>5, PlacedKept
<1>4. CASE Done
  <2>1. str = <<>> /\ phase' = "done" /\ UNCHANGED <<text, str, width>>
    BY <1>4 DEF Done
  <2>2. n = Len(text)
    <3> SUFFICES ASSUME n < Len(text) PROVE FALSE
      BY <1>2
    <3>1. /\ text[n + 1] \in CodePoints
          /\ Bytes(Remaining(n + 1)) \in Seq(Byte)
          /\ str = Encode(text[n + 1]) \o Bytes(Remaining(n + 1))
      BY <1>1, <1>2, RemainingNext DEF AtPoint
    <3>2. Encode(text[n + 1]) \in Seq(Byte) /\ 1 <= Len(Encode(text[n + 1]))
      BY <3>1, EncodeBytes
    <3>3. ASSUME NEW e \in Seq(Byte), NEW r \in Seq(Byte), 1 <= Len(e) PROVE e \o r # <<>>
      <4>1. Len(e \o r) = Len(e) + Len(r) /\ Len(e) \in Nat /\ Len(r) \in Nat
        OBVIOUS
      <4>2. Len(e \o r) # 0
        BY <3>3, <4>1
      <4> QED
        BY <4>2
    <3> QED
      BY <2>1, <3>1, <3>2, <3>3
  <2> QED
    BY <1>1, <1>2, <2>1, <2>2, PlacedKept
<1>5. CASE Below \/ Above
  <2>1. phase = "search" /\ phase' = "search" /\ UNCHANGED <<text, str, width, cp, table>>
    BY <1>5 DEF Below, Above, Searching
  <2> QED
    BY <1>1, <1>2, <2>1, PlacedKept DEF AtPoint
<1>6. CASE Inside
  <2>1. phase = "search" /\ Searching /\ Add(IF table = "double" THEN 2 ELSE 0)
        /\ cp >= First(Halfway) /\ cp <= Last(Halfway)
    BY <1>6 DEF Inside, Searching
  <2>2. Known(RowsOf(table), cp)
    BY <1>2, <2>1, HalfwayRow DEF Known, Covers
  <2>3. CASE table = "double"
    <3>1. WidthOf(cp) = 2
      BY <2>2, <2>3 DEF WidthOf, RowsOf
    <3> QED
      BY <1>1, <1>2, <2>1, <2>3, <3>1, PlacedAdd
  <2>4. CASE table = "zero"
    <3>1. WidthOf(cp) = 0
      BY <1>1, <2>1, <2>2, <2>4 DEF WidthOf, RowsOf, AtPoint
    <3> QED
      BY <1>1, <1>2, <2>1, <2>4, <3>1, PlacedAdd
  <2> QED
    BY <1>2, <2>3, <2>4 DEF TypeOK
<1>7. CASE Missing
  <2>1. phase = "search" /\ len = 0
    BY <1>7 DEF Missing
  <2>2. ~Known(RowsOf(table), cp)
    <3> SUFFICES ASSUME NEW k \in DOMAIN RowsOf(table), Covers(RowsOf(table)[k], cp) PROVE FALSE
      BY DEF Known
    <3>1. first <= k /\ k < first + 0
      BY <2>1 DEF IInv, NeverLeftBehind
    <3>2. first \in Nat /\ k \in Nat
      BY <1>2, RowTyped DEF TypeOK
    <3> QED
      BY <3>1, <3>2
  <2>3. CASE table = "zero" /\ Add(1)
    <3>1. WidthOf(cp) = 1
      BY <1>1, <2>1, <2>2, <2>3 DEF WidthOf, RowsOf, AtPoint
    <3> QED
      BY <1>1, <1>2, <2>1, <2>3, <3>1, PlacedAdd
  <2>4. CASE table = "double" /\ Search("zero") /\ UNCHANGED <<text, str, cp, width, phase>>
    <3>1. ~Known(DoubleRows, cp)
      BY <2>2, <2>4 DEF RowsOf
    <3> QED
      BY <1>1, <1>2, <2>1, <2>4, <3>1, PlacedKept DEF AtPoint
  <2> QED
    BY <1>7, <2>3, <2>4 DEF Missing
<1>8. CASE UNCHANGED vars
  BY <1>1, <1>2, <1>8, PlacedKept DEF vars, AtPoint
<1> QED
  BY <1>3, <1>4, <1>5, <1>6, <1>7, <1>8 DEF Next

LEMMA PlacedHolds == ASSUME WellEncoded PROVE Spec => [](IInv /\ Placed)
<1>1. Init => IInv /\ Placed
  BY InitOK, PlacedInit
<1>2. (IInv /\ Placed) /\ [Next]_vars => (IInv /\ Placed)'
  BY StepOK, PlacedStep
<1> QED
  BY <1>1, <1>2, PTL DEF Spec

\* The iterator never loses its place among the bytes, and the number of code
\* points it is told stays right (code_point.hpp:124-141, 148-222), for every
\* text without one of the misjudged code points.
THEOREM DecoderInStep == ASSUME WellEncoded PROVE Spec => []InStep
<1>1. IInv /\ Placed => InStep
  <2> SUFFICES ASSUME IInv, Placed PROVE InStep
    OBVIOUS
  <2>1. PICK n \in 0 .. Len(text) : AtPoint(n)
    BY DEF Placed
  <2>2. text \in Seq(CodePoints)
    BY DEF IInv, TypeOK
  <2>3. Count(Bytes(Remaining(n))) = Len(text) - n
    BY <2>2, TextCounted
  <2> QED
    BY <2>1, <2>3 DEF InStep, AtPoint
<1> QED
  BY <1>1, PlacedHolds, PTL

\* terminal_width's result is the sum of what the two tables say of each code
\* point (utf8.hpp:307-336), for every pair of tables in order and every text
\* without one of the misjudged code points.
THEOREM ResultIsRight == ASSUME WellEncoded PROVE Spec => []WidthIsRight
<1>1. IInv /\ Placed => WidthIsRight
  <2> SUFFICES ASSUME Placed, phase = "done" PROVE width = WidthUpTo(text)[Len(text)]
    BY DEF WidthIsRight
  <2> QED
    BY DEF Placed, AtPoint
<1> QED
  BY <1>1, PlacedHolds, PTL
=============================================================================
