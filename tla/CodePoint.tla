------------------------------ MODULE CodePoint ------------------------------
(***************************************************************************)
(* utf8/code_point.hpp: code points as UTF-8 bytes, and the six bytes a    *)
(* range of code points is packed into.  A string is a sequence of bytes.  *)
(***************************************************************************)
EXTENDS RangeTable, FiniteSets

\* The largest numbers of 8 and of 21 bits
MaxByte == 255
MaxBits == 2097151

Byte == 0 .. MaxByte

\* The leading byte decides.  ASCII, or a header of two, three or four bytes;
\* the comparisons with the largest headers, 11011111 and 11101111, are strict.
SizeOf(byte) == CASE byte < 128                 -> 1
                  [] byte >= 128 /\ byte < 223  -> 2
                  [] byte >= 223 /\ byte < 239  -> 3
                  [] OTHER                      -> 4

\* code_point::size
Size(str) == IF str = <<>> THEN 0 ELSE SizeOf(str[1])

NoCodePoint == -1

\* Mutant of Trailing: the data of a byte are its low five bits
TrailingFive(str, k) == str[k] % 32

\* The data bits of a byte behind the first
Trailing(str, k) == str[k] % 64

\* code_point::decode: the low bits of the first byte, six of each other
Decode(str) ==
  CASE Size(str) = 0 \/ Len(str) < Size(str)  -> NoCodePoint
    [] Size(str) = 1 /\ Len(str) >= Size(str) -> str[1]
    [] Size(str) = 2 /\ Len(str) >= Size(str) -> (str[1] % 32) * 64 + Trailing(str, 2)
    [] Size(str) = 3 /\ Len(str) >= Size(str) ->
         (str[1] % 16) * 4096 + Trailing(str, 2) * 64 + Trailing(str, 3)
    [] OTHER -> (str[1] % 8) * 262144 + Trailing(str, 2) * 4096
                 + Trailing(str, 3) * 64 + Trailing(str, 4)

\* code_point::count: the bytes that are not 10xxxxxx
IsContinuation(byte) == byte \div 64 = 2
Count(str) == Cardinality({k \in DOMAIN str : ~IsContinuation(str[k])})

\* code_point::iterator::operator++
Advance(str) == SubSeq(str, Size(str) + 1, Len(str))
-----------------------------------------------------------------------------
\* code_point::range, 48 bits: first, last (21 bits each) and the metadata
Pack(row) ==
  <<row.first % 256,
    (row.first \div 256) % 256,
    ((row.first \div 65536) % 32) + 32 * (row.last % 8),
    (row.last \div 8) % 256,
    (row.last \div 2048) % 256,
    ((row.last \div 524288) % 4) + 4 * (row.meta % 64)>>

First(data)    == data[1] + 256 * data[2] + 65536 * (data[3] % 32)
Last(data)     == (data[3] \div 32) + 8 * data[4] + 2048 * data[5] + 524288 * (data[6] % 4)
MetaOf(data)   == data[6] \div 4
-----------------------------------------------------------------------------
\* UTF-8 itself, for reference: the bytes of a code point
Encode(cp) ==
  CASE cp < 128                   -> <<cp>>
    [] cp >= 128 /\ cp < 2048     -> <<192 + (cp \div 64), 128 + (cp % 64)>>
    [] cp >= 2048 /\ cp < 65536   ->
         <<224 + (cp \div 4096), 128 + ((cp \div 64) % 64), 128 + (cp % 64)>>
    [] OTHER -> <<240 + (cp \div 262144), 128 + ((cp \div 4096) % 64),
                  128 + ((cp \div 64) % 64), 128 + (cp % 64)>>

MaxCodePoint == 1114111
CodePoints   == 0 .. MaxCodePoint

\* U+07C0 to U+07FF and U+F000 to U+FFFF have the largest header of two and of
\* three bytes, which Size takes for the next longer one.
Misjudged(cp) == (1984 <= cp /\ cp <= 2047) \/ (61440 <= cp /\ cp <= 65535)
=============================================================================
