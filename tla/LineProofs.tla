----------------------------- MODULE LineProofs -----------------------------
(***************************************************************************)
(* Proofs about the words of a command line, for every tree and line.      *)
(* Without an alias in the mode the targets of a call explain the whole    *)
(* line: every phase of a node's policies, and so every match, keeps what  *)
(* the tokens say, their texts without prefixes, separators and markers.   *)
(* An alias brings its words to every node it stands for: what a match     *)
(* leaves to the mode is still the end of the line.                        *)
(***************************************************************************)
EXTENDS WordProofs

\* Sequences put together

\* One element more at the end of a sequence
LEMMA AppendFacts ==
  ASSUME NEW T, NEW q \in Seq(T), NEW x \in T
  PROVE  /\ Len(q) \in Nat /\ DOMAIN q = 1 .. Len(q)
         /\ Append(q, x) \in Seq(T) /\ Len(Append(q, x)) = Len(q) + 1 /\ Append(q, x) # <<>>
         /\ \A k \in 1 .. Len(q) : Append(q, x)[k] = q[k]
         /\ Append(q, x)[Len(q) + 1] = x
         /\ \A r \in Seq(T) : r \o Append(q, x) = Append(r \o q, x) /\ r \o q \in Seq(T)
         /\ <<>> \o q = q /\ q \o <<>> = q
OBVIOUS

\* One sequence more
LEMMA FlattenMore ==
  ASSUME NEW S, NEW ss \in Seq(Seq(S)), NEW s \in Seq(S)
  PROVE  FlattenSeq(Append(ss, s)) = FlattenSeq(ss) \o s
<1> DEFINE tt == Append(ss, s)
           n  == Len(ss)
           f  == CHOOSE g : Together(ss, n, g)
           h  == CHOOSE g : Together(tt, n + 1, g)
<1>1. /\ n \in Nat /\ DOMAIN ss = 1 .. n /\ tt \in Seq(Seq(S)) /\ Len(tt) = n + 1 /\ tt # <<>>
      /\ \A k \in 1 .. n : tt[k] = ss[k]
      /\ tt[n + 1] = s
  <2> HIDE DEF f, h
  <2> QED
    BY AppendFacts
<1>2. Together(ss, n, f) /\ Together(tt, n + 1, h)
  <2>1. n \in Nat /\ n + 1 \in Nat
    OBVIOUS
  <2>2. (\E g : Together(ss, n, g)) /\ (\E g : Together(tt, n + 1, g))
    <3> HIDE DEF n, tt
    <3> QED
      BY <2>1, TogetherExists
  <2> QED
    BY <2>2
<1>3. FlattenSeq(tt) = h[n + 1]
  <2>1. FlattenSeq(tt) = (CHOOSE g : Together(tt, Len(tt), g))[Len(tt)]
    <3> HIDE DEF n, f, h
    <3>1. Len(tt) # 0 /\ tt # <<>>
      BY <1>1
    <3> HIDE DEF tt
    <3> QED
      BY <3>1 DEF FlattenSeq, Together
  <2> QED
    BY <1>1, <2>1
<1>4. FlattenSeq(ss) = IF n = 0 THEN <<>> ELSE f[n]
  BY <1>1 DEF FlattenSeq, Together
<1> HIDE DEF tt, n, f, h
<1>5. /\ \A k \in 1 .. n : f[k] = IF k = 1 THEN ss[k] ELSE f[k - 1] \o ss[k]
      /\ \A k \in 1 .. n + 1 : h[k] = IF k = 1 THEN tt[k] ELSE h[k - 1] \o tt[k]
  BY <1>2 DEF Together
<1>6. CASE n = 0
  <2>1. h[1] = s
    BY <1>1, <1>5, <1>6
  <2>2. <<>> \o s = s
    OBVIOUS
  <2> QED
    BY <1>3, <1>4, <1>6, <2>1, <2>2 DEF tt
<1>7. CASE n # 0
  <2> DEFINE T == {k \in 0 .. n : k > 0 => h[k] = f[k]}
  <2>1. 0 \in T
    BY <1>1
  <2>2. ASSUME NEW k \in 1 .. n, k - 1 \in T PROVE k \in T
    <3>1. k \in 1 .. n + 1 /\ k \in 0 .. n /\ tt[k] = ss[k]
      BY <1>1
    <3>2. k # 1 => h[k - 1] = f[k - 1]
      BY <2>2
    <3> QED
      BY <1>5, <3>1, <3>2
  <2> HIDE DEF T
  <2>3. n \in T
    <3>1. n \in Nat /\ n \in 0 .. n
      BY <1>1
    <3> QED
      BY <2>1, <2>2, <3>1, UpTo
  <2>4. h[n] = f[n]
    BY <1>1, <1>7, <2>3 DEF T
  <2>5. n + 1 \in 1 .. n + 1 /\ n + 1 # 1 /\ (n + 1) - 1 = n
    BY <1>1, <1>7
  <2>6. h[n + 1] = h[n] \o s
    BY <1>1, <1>5, <2>5
  <2> QED
    BY <1>3, <1>4, <1>7, <2>4, <2>6 DEF tt
<1> QED
  BY <1>6, <1>7

LEMMA FlattenNone == FlattenSeq(<<>>) = <<>>
  BY DEF FlattenSeq

LEMMA FlattenOne ==
  ASSUME NEW S, NEW s \in Seq(S)
  PROVE  FlattenSeq(<<s>>) = s
<1>1. <<>> \in Seq(Seq(S)) /\ Append(<<>>, s) = <<s>> /\ <<>> \o s = s
  OBVIOUS
<1> QED
  BY <1>1, FlattenMore, FlattenNone

\* The sequences of two sequences of them
LEMMA FlattenConcat ==
  ASSUME NEW S, NEW ss, ss \in Seq(Seq(S)), NEW tt, tt \in Seq(Seq(S))
  PROVE  FlattenSeq(ss \o tt) = FlattenSeq(ss) \o FlattenSeq(tt)
<1> DEFINE n == Len(tt)
           B(k) == SubSeq(tt, 1, k)
           T == {k \in 0 .. n : FlattenSeq(ss \o B(k)) = FlattenSeq(ss) \o FlattenSeq(B(k))}
<1>1. /\ n \in Nat /\ B(0) = <<>> /\ B(n) = tt
      /\ FlattenSeq(ss) \in Seq(S)
      /\ \A k \in 0 .. n : B(k) \in Seq(Seq(S)) /\ FlattenSeq(B(k)) \in Seq(S)
  <2>1. n \in Nat /\ B(0) = <<>> /\ B(n) = tt
    OBVIOUS
  <2>2. \A k \in 0 .. n : B(k) \in Seq(Seq(S))
    OBVIOUS
  <2> HIDE DEF n, B
  <2>3. \A k \in 0 .. n : FlattenSeq(B(k)) \in Seq(S)
    BY <2>2, FlattenElements
  <2>4. FlattenSeq(ss) \in Seq(S)
    BY FlattenElements
  <2> QED
    BY <2>1, <2>2, <2>3, <2>4
<1>2. \A k \in 1 .. n : B(k) = Append(B(k - 1), tt[k]) /\ tt[k] \in Seq(S)
  OBVIOUS
<1> HIDE DEF n, B
<1>3. 0 \in T
  <2>1. ss \o <<>> = ss /\ FlattenSeq(ss) \o <<>> = FlattenSeq(ss)
    <3>1. \A x \in Seq(S) : x \o <<>> = x
      OBVIOUS
    <3>2. \A x \in Seq(Seq(S)) : x \o <<>> = x
      OBVIOUS
    <3> QED
      BY <1>1, <3>1, <3>2
  <2>2. FlattenSeq(ss \o B(0)) = FlattenSeq(ss) \o FlattenSeq(B(0))
    BY <1>1, <2>1, FlattenNone
  <2> QED
    BY <1>1, <2>2
<1>4. ASSUME NEW k \in 1 .. n, k - 1 \in T PROVE k \in T
  <2>1. k - 1 \in 0 .. n /\ k \in 0 .. n
    BY <1>1
  <2>2. FlattenSeq(B(k)) = FlattenSeq(B(k - 1)) \o tt[k]
    BY <1>1, <1>2, <2>1, FlattenMore
  <2>3. ss \o B(k) = Append(ss \o B(k - 1), tt[k]) /\ ss \o B(k - 1) \in Seq(Seq(S))
    <3>1. \A b \in Seq(Seq(S)), s \in Seq(S) :
            ss \o Append(b, s) = Append(ss \o b, s) /\ ss \o b \in Seq(Seq(S))
      BY AppendFacts
    <3>2. B(k - 1) \in Seq(Seq(S)) /\ tt[k] \in Seq(S) /\ B(k) = Append(B(k - 1), tt[k])
      BY <1>1, <1>2, <2>1
    <3>3. /\ ss \o Append(B(k - 1), tt[k]) = Append(ss \o B(k - 1), tt[k])
          /\ ss \o B(k - 1) \in Seq(Seq(S))
      BY ONLY Zenon, <3>1, <3>2
    <3> QED
      BY ONLY Zenon, <3>2, <3>3
  <2>4. FlattenSeq(ss \o B(k)) = FlattenSeq(ss \o B(k - 1)) \o tt[k]
    BY <1>2, <2>3, FlattenMore
  <2>5. FlattenSeq(ss \o B(k - 1)) = FlattenSeq(ss) \o FlattenSeq(B(k - 1))
    BY <1>4
  <2>6. (FlattenSeq(ss) \o FlattenSeq(B(k - 1))) \o tt[k]
          = FlattenSeq(ss) \o (FlattenSeq(B(k - 1)) \o tt[k])
    <3>1. FlattenSeq(ss) \in Seq(S) /\ FlattenSeq(B(k - 1)) \in Seq(S) /\ tt[k] \in Seq(S)
      BY <1>1, <1>2, <2>1
    <3> DEFINE x == FlattenSeq(ss)
               y == FlattenSeq(B(k - 1))
               z == tt[k]
    <3> HIDE DEF x, y, z
    <3>2. x \in Seq(S) /\ y \in Seq(S) /\ z \in Seq(S)
      BY <3>1 DEF x, y, z
    <3>3. (x \o y) \o z = x \o (y \o z)
      BY ONLY <3>2
    <3> QED
      BY <3>3 DEF x, y, z
  <2> QED
    BY <2>1, <2>2, <2>4, <2>5, <2>6
<1> HIDE DEF T
<1>5. n \in T
  <2>1. n \in Nat /\ n \in 0 .. n
    BY <1>1
  <2> QED
    BY <1>3, <1>4, <2>1, UpTo
<1> QED
  BY <1>1, <1>5 DEF T
-----------------------------------------------------------------------------
\* What tokens say

\* What a function makes of the elements of a sequence, put together
EachOf(f, a) == [k \in DOMAIN a |-> f[a[k]]]

\* It is a sequence of what the function returns.
LEMMA EachTyped ==
  ASSUME NEW X, NEW T, NEW f, \A x \in X : f[x] \in T, NEW a \in Seq(X)
  PROVE  EachOf(f, a) \in Seq(T)
  BY DEF EachOf

\* A longer sequence gives longer results.
LEMMA EachConcat ==
  ASSUME NEW X, NEW f, NEW a \in Seq(X), NEW b \in Seq(X)
  PROVE  EachOf(f, a \o b) = EachOf(f, a) \o EachOf(f, b)
<1> DEFINE T == {f[x] : x \in X}
<1>0. \A x \in X : f[x] \in T
  OBVIOUS
<1> HIDE DEF T
<1>1. /\ a \o b \in Seq(X) /\ Len(a \o b) = Len(a) + Len(b) /\ Len(a) \in Nat /\ Len(b) \in Nat
      /\ \A k \in 1 .. Len(a) + Len(b) :
           (a \o b)[k] = IF k <= Len(a) THEN a[k] ELSE b[k - Len(a)]
  BY ConcatFacts
<1>2. ASSUME NEW q \in Seq(X)
      PROVE  /\ EachOf(f, q) \in Seq(T) /\ Len(EachOf(f, q)) = Len(q)
             /\ \A k \in 1 .. Len(q) : EachOf(f, q)[k] = f[q[k]]
  <2>1. EachOf(f, q) = [k \in 1 .. Len(q) |-> f[q[k]]]
    BY DEF EachOf
  <2>2. \A k \in 1 .. Len(q) : f[q[k]] \in T
    BY <1>0
  <2> QED
    BY <2>1, <2>2
<1> DEFINE x == EachOf(f, a)
           y == EachOf(f, b)
           z == EachOf(f, a \o b)
<1>3. /\ x \in Seq(T) /\ Len(x) = Len(a) /\ \A k \in 1 .. Len(a) : x[k] = f[a[k]]
      /\ y \in Seq(T) /\ Len(y) = Len(b) /\ \A k \in 1 .. Len(b) : y[k] = f[b[k]]
      /\ z \in Seq(T) /\ Len(z) = Len(a) + Len(b)
      /\ \A k \in 1 .. Len(a) + Len(b) : z[k] = f[(a \o b)[k]]
  <2>1. /\ x \in Seq(T) /\ Len(x) = Len(a) /\ \A k \in 1 .. Len(a) : x[k] = f[a[k]]
        /\ y \in Seq(T) /\ Len(y) = Len(b) /\ \A k \in 1 .. Len(b) : y[k] = f[b[k]]
    BY <1>2
  <2>2. z \in Seq(T) /\ Len(z) = Len(a \o b) /\ \A k \in 1 .. Len(a \o b) : z[k] = f[(a \o b)[k]]
    BY <1>1, <1>2
  <2> HIDE DEF x, y, z
  <2> QED
    BY <1>1, <2>1, <2>2
<1> HIDE DEF x, y, z
<1>4. /\ x \o y \in Seq(T) /\ Len(x \o y) = Len(a) + Len(b)
      /\ \A k \in 1 .. Len(a) + Len(b) :
           (x \o y)[k] = IF k <= Len(a) THEN x[k] ELSE y[k - Len(a)]
  <2>1. /\ x \o y \in Seq(T) /\ Len(x \o y) = Len(x) + Len(y)
        /\ \A k \in 1 .. Len(x) + Len(y) : (x \o y)[k] = IF k <= Len(x) THEN x[k] ELSE y[k - Len(x)]
    <3>1. x \in Seq(T) /\ y \in Seq(T)
      BY <1>3
    <3> QED
      BY ONLY <3>1, ConcatFacts
  <2> QED
    BY <1>3, <2>1
<1>5. ASSUME NEW k \in 1 .. Len(a) + Len(b) PROVE z[k] = (x \o y)[k]
  <2>1. CASE k <= Len(a)
    <3>1. k \in 1 .. Len(a)
      BY <1>1, <2>1
    <3> QED
      BY <1>1, <1>3, <1>4, <2>1, <3>1
  <2>2. CASE ~(k <= Len(a))
    <3>1. k - Len(a) \in 1 .. Len(b)
      BY <1>1, <2>2
    <3>2. z[k] = f[(a \o b)[k]] /\ (a \o b)[k] = b[k - Len(a)]
      BY <1>1, <1>3, <2>2
    <3>3. (x \o y)[k] = y[k - Len(a)]
      BY <1>4, <2>2
    <3>4. y[k - Len(a)] = f[b[k - Len(a)]]
      BY <1>3, <3>1
    <3> QED
      BY ONLY <3>2, <3>3, <3>4
  <2> QED
    BY <2>1, <2>2
<1>6. z = x \o y
  BY <1>3, <1>4, <1>5
<1> QED
  BY <1>3, <1>6 DEF x, y, z

\* The sequences that f makes of the elements, put together
Gathers(f, X, S) ==
  /\ \A a \in Seq(X) : FlattenSeq(EachOf(f, a)) \in Seq(S)
  /\ \A a, b \in Seq(X) :
       FlattenSeq(EachOf(f, a \o b)) = FlattenSeq(EachOf(f, a)) \o FlattenSeq(EachOf(f, b))
  /\ FlattenSeq(EachOf(f, <<>>)) = <<>>
  /\ \A x \in X : FlattenSeq(EachOf(f, <<x>>)) = f[x]

\* What a function gathers from a sequence is gathered part by part.
LEMMA EachTogether ==
  ASSUME NEW X, NEW S, NEW f, \A x \in X : f[x] \in Seq(S)
  PROVE  Gathers(f, X, S)
<1>1. \A a \in Seq(X) : EachOf(f, a) \in Seq(Seq(S))
  BY EachTyped
<1>2. \A a \in Seq(X) : FlattenSeq(EachOf(f, a)) \in Seq(S)
  BY <1>1, FlattenElements
<1>3. ASSUME NEW a \in Seq(X), NEW b \in Seq(X)
      PROVE  FlattenSeq(EachOf(f, a \o b)) = FlattenSeq(EachOf(f, a)) \o FlattenSeq(EachOf(f, b))
  <2>1. EachOf(f, a \o b) = EachOf(f, a) \o EachOf(f, b)
    BY EachConcat
  <2> DEFINE x == EachOf(f, a)
             y == EachOf(f, b)
  <2>2. x \in Seq(Seq(S)) /\ y \in Seq(Seq(S))
    BY <1>1
  <2> HIDE DEF x, y
  <2>3. FlattenSeq(x \o y) = FlattenSeq(x) \o FlattenSeq(y)
    BY <2>2, FlattenConcat
  <2> QED
    BY <2>1, <2>3 DEF x, y
<1>4. EachOf(f, <<>>) = <<>> /\ \A x \in X : EachOf(f, <<x>>) = <<f[x]>>
  BY DEF EachOf
<1>5. \A x \in X : FlattenSeq(<<f[x]>>) = f[x]
  BY FlattenOne
<1> QED
  BY <1>2, <1>3, <1>4, <1>5, FlattenNone DEF Gathers
-----------------------------------------------------------------------------
\* What is left of a text without some atoms
AtomsRule(marks, S) ==
  /\ \A a \in Seq(S) : Atoms(marks, a) \in Seq(S)
  /\ \A a, b \in Seq(S) : Atoms(marks, a \o b) = Atoms(marks, a) \o Atoms(marks, b)
  /\ Atoms(marks, <<>>) = <<>>
  /\ \A x \in S : Atoms(marks, <<x>>) = IF x \in marks THEN <<>> ELSE <<x>>

\* Atoms are left out one by one.
LEMMA AtomsFacts == \A marks, S : AtomsRule(marks, S)
<1> SUFFICES ASSUME NEW marks, NEW S PROVE AtomsRule(marks, S)
  OBVIOUS
<1> DEFINE f == [x \in S |-> IF x \in marks THEN <<>> ELSE <<x>>]
<1>1. \A x \in S : f[x] \in Seq(S) /\ f[x] = IF x \in marks THEN <<>> ELSE <<x>>
  OBVIOUS
<1>2. ASSUME NEW a \in Seq(S) PROVE Atoms(marks, a) = FlattenSeq(EachOf(f, a))
  <2>1. \A k \in DOMAIN a : a[k] \in S
    OBVIOUS
  <2>2. [k \in DOMAIN a |-> IF a[k] \in marks THEN <<>> ELSE <<a[k]>>] = EachOf(f, a)
    BY <2>1 DEF EachOf
  <2> QED
    BY <2>2 DEF Atoms
<1> HIDE DEF f
<1>3. <<>> \in Seq(S) /\ \A x \in S : <<x>> \in Seq(S)
  OBVIOUS
<1>4. \A a, b \in Seq(S) : a \o b \in Seq(S)
  OBVIOUS
<1>5. Gathers(f, S, S)
  BY <1>1, EachTogether
<1>6. \A a \in Seq(S) : Atoms(marks, a) \in Seq(S)
  BY <1>2, <1>5 DEF Gathers
<1>7. \A a, b \in Seq(S) : Atoms(marks, a \o b) = Atoms(marks, a) \o Atoms(marks, b)
  <2> SUFFICES ASSUME NEW a \in Seq(S), NEW b \in Seq(S)
               PROVE  Atoms(marks, a \o b) = Atoms(marks, a) \o Atoms(marks, b)
    OBVIOUS
  <2>1. Atoms(marks, a \o b) = FlattenSeq(EachOf(f, a \o b))
    BY <1>2, <1>4
  <2>2. FlattenSeq(EachOf(f, a \o b)) = FlattenSeq(EachOf(f, a)) \o FlattenSeq(EachOf(f, b))
    BY <1>5 DEF Gathers
  <2> QED
    BY ONLY Zenon, <1>2, <2>1, <2>2, a \in Seq(S), b \in Seq(S)
<1>8. Atoms(marks, <<>>) = <<>>
  BY <1>2, <1>3, <1>5 DEF Gathers
<1>9. \A x \in S : Atoms(marks, <<x>>) = IF x \in marks THEN <<>> ELSE <<x>>
  BY <1>1, <1>2, <1>3, <1>5 DEF Gathers
<1> QED
  BY <1>6, <1>7, <1>8, <1>9 DEF AtomsRule

\* and of several texts
FlatRule(marks, S) ==
  /\ \A a \in Seq(Seq(S)) : Flat(marks, a) \in Seq(S)
  /\ \A a, b \in Seq(Seq(S)) : Flat(marks, a \o b) = Flat(marks, a) \o Flat(marks, b)
  /\ Flat(marks, <<>>) = <<>>
  /\ \A x \in Seq(S) : Flat(marks, <<x>>) = Atoms(marks, x)

\* They are left out of several texts text by text.
LEMMA FlatFacts == \A marks, S : FlatRule(marks, S)
<1> SUFFICES ASSUME NEW marks, NEW S PROVE FlatRule(marks, S)
  OBVIOUS
<1> DEFINE f == [x \in Seq(S) |-> Atoms(marks, x)]
<1>1. \A x \in Seq(S) : f[x] \in Seq(S) /\ f[x] = Atoms(marks, x)
  BY AtomsFacts DEF AtomsRule
<1>2. ASSUME NEW a \in Seq(Seq(S)) PROVE Flat(marks, a) = FlattenSeq(EachOf(f, a))
  <2>1. \A k \in DOMAIN a : a[k] \in Seq(S)
    OBVIOUS
  <2>2. [k \in DOMAIN a |-> Atoms(marks, a[k])] = EachOf(f, a)
    BY <2>1 DEF EachOf
  <2> QED
    BY <2>2 DEF Flat
<1> HIDE DEF f
<1>3. <<>> \in Seq(Seq(S)) /\ \A x \in Seq(S) : <<x>> \in Seq(Seq(S))
  OBVIOUS
<1>4. \A a, b \in Seq(Seq(S)) : a \o b \in Seq(Seq(S))
  OBVIOUS
<1>5. Gathers(f, Seq(S), S)
  BY <1>1, EachTogether
<1> QED
  BY <1>1, <1>2, <1>3, <1>4, <1>5 DEF Gathers, FlatRule

\* What the texts of some tokens say
Said(marks, q) == Flat(marks, Names(q))

\* More tokens say more.
SaidRule(marks, A) ==
  /\ \A q \in Seq(Toks(A)) : Names(q) \in Seq(Seq(A)) /\ Said(marks, q) \in Seq(A)
  /\ \A q, r \in Seq(Toks(A)) : Said(marks, q \o r) = Said(marks, q) \o Said(marks, r)
  /\ Said(marks, <<>>) = <<>>
  /\ \A t \in Toks(A) : Said(marks, <<t>>) = Atoms(marks, t.name)

\* This holds for all tokens.
LEMMA SaidFacts == \A marks, A : SaidRule(marks, A)
<1> SUFFICES ASSUME NEW marks, NEW A PROVE SaidRule(marks, A)
  OBVIOUS
<1>1. ASSUME NEW q \in Seq(Toks(A)) PROVE Names(q) \in Seq(Seq(A))
  <2>1. \A k \in 1 .. Len(q) : q[k].name \in Seq(A)
    <3>1. \A k \in 1 .. Len(q) : q[k] \in Toks(A)
      OBVIOUS
    <3>2. \A t \in Toks(A) : t.name \in Seq(A)
      BY DEF Toks
    <3> QED
      BY <3>1, <3>2
  <2>2. Names(q) = [k \in 1 .. Len(q) |-> q[k].name]
    BY DEF Names
  <2> QED
    BY <2>1, <2>2
<1> DEFINE f == [t \in Toks(A) |-> t.name]
<1>2. \A t \in Toks(A) : f[t] \in Seq(A) /\ f[t] = t.name
  BY DEF Toks
<1>3. ASSUME NEW q \in Seq(Toks(A)) PROVE Names(q) = EachOf(f, q)
  <2>1. \A k \in DOMAIN q : q[k] \in Toks(A)
    OBVIOUS
  <2> QED
    BY <2>1 DEF EachOf, Names
<1> HIDE DEF f
<1>4. ASSUME NEW q \in Seq(Toks(A)), NEW r \in Seq(Toks(A)) PROVE Names(q \o r) = Names(q) \o Names(r)
  <2>1. q \o r \in Seq(Toks(A))
    OBVIOUS
  <2>2. EachOf(f, q \o r) = EachOf(f, q) \o EachOf(f, r)
    BY EachConcat
  <2> QED
    BY <1>3, <2>1, <2>2
<1>5. Names(<<>>) = <<>> /\ \A t : Names(<<t>>) = <<t.name>>
  BY DEF Names
<1>6. \A t \in Toks(A) : t.name \in Seq(A)
  BY DEF Toks
<1>7. FlatRule(marks, A)
  BY FlatFacts
<1> QED
  BY <1>1, <1>4, <1>5, <1>6, <1>7 DEF Said, SaidRule, FlatRule
-----------------------------------------------------------------------------
\* Tokens and their prefixes

\* A sequence is its head and what is behind it.
LEMMA HeadAndTail ==
  ASSUME NEW T, NEW q \in Seq(T), q # <<>>
  PROVE  /\ Head(q) \in T /\ <<Head(q)>> \in Seq(T) /\ Tail(q) \in Seq(T)
         /\ q = <<Head(q)>> \o Tail(q) /\ Head(q) = q[1] /\ Len(q) \in Nat \ {0}
<1>1. /\ Head(q) \in T /\ <<Head(q)>> \in Seq(T) /\ Tail(q) \in Seq(T)
      /\ Head(q) = q[1] /\ Len(q) \in Nat \ {0} /\ Len(<<Head(q)>>) = 1 /\ Len(Tail(q)) = Len(q) - 1
      /\ <<Head(q)>>[1] = q[1] /\ \A k \in 1 .. Len(q) - 1 : Tail(q)[k] = q[k + 1]
  OBVIOUS
<1> DEFINE x == <<Head(q)>>
           y == Tail(q)
<1>2. /\ x \in Seq(T) /\ Len(x) = 1 /\ y \in Seq(T) /\ Len(y) = Len(q) - 1
      /\ \A k \in 1 .. 1 : x[k] = q[k]
      /\ \A k \in 1 .. Len(q) - 1 : y[k] = q[k + 1]
  BY <1>1
<1> HIDE DEF x, y
<1>3. 1 \in 0 .. Len(q)
  BY <1>1
<1>4. x \o y = q
  BY ONLY <1>2, <1>3, q \in Seq(T), Parts
<1> QED
  BY <1>1, <1>4 DEF x, y

\* What marks are: with these the prefixes, the separator and a node's marker
MarksOf(marks, node) == {LongPrefix, ShortPrefix, Separator, node.marker} \subseteq marks

\* A mark in front of a text says nothing.
LEMMA MarkSilent ==
  ASSUME NEW S, NEW marks, NEW x \in S, x \in marks, NEW a \in Seq(S)
  PROVE  Atoms(marks, <<x>> \o a) = Atoms(marks, a)
<1>1. AtomsRule(marks, S)
  BY AtomsFacts
<1>2. <<x>> \in Seq(S) /\ Atoms(marks, a) \in Seq(S)
  BY <1>1 DEF AtomsRule
<1>3. Atoms(marks, <<x>> \o a) = Atoms(marks, <<x>>) \o Atoms(marks, a) /\ Atoms(marks, <<x>>) = <<>>
  BY <1>1, <1>2 DEF AtomsRule
<1>4. \A b \in Seq(S) : <<>> \o b = b
  OBVIOUS
<1> QED
  BY <1>2, <1>3, <1>4

\* A label says what the token said.
LEMMA LabelSaid ==
  ASSUME NEW A, NEW node, NEW tok \in Toks(A), NEW marks, MarksOf(marks, node)
  PROVE  Atoms(marks, AsLabelOf(node, tok).name) = Atoms(marks, tok.name)
<1> DEFINE word == tok.name
<1>1. word \in Seq(A)
  BY DEF Toks
<1>2. \A pre, x : Token(pre, x).name = x
  BY DEF Token
<1>3. \/ AsLabelOf(node, tok).name = word
      \/ /\ AsLabelOf(node, tok).name = Tail(word)
         /\ word # <<>> /\ Head(word) \in {LongPrefix, ShortPrefix}
  <2>1. CASE tok.pre # "none"
    BY <2>1 DEF AsLabelOf
  <2>2. CASE tok.pre = "none"
    <3>1. AsLabelOf(node, tok) = GetTokenTypeFor(node, word)
      BY <2>2 DEF AsLabelOf
    <3>2. \/ GetTokenTypeFor(node, word) = Raw(word)
          \/ /\ GetTokenTypeFor(node, word) \in {Token("long", Tail(word)), Token("short", Tail(word))}
             /\ word # <<>> /\ Head(word) \in {LongPrefix, ShortPrefix}
      BY DEF GetTokenTypeFor, StartsWith
    <3> HIDE DEF word
    <3> QED
      BY <1>2, <3>1, <3>2 DEF Raw
  <2> QED
    BY <2>1, <2>2
<1> HIDE DEF word
<1>4. ASSUME word # <<>>, Head(word) \in {LongPrefix, ShortPrefix}
      PROVE  Atoms(marks, Tail(word)) = Atoms(marks, word)
  <2>1. Head(word) \in A /\ Tail(word) \in Seq(A) /\ word = <<Head(word)>> \o Tail(word)
    BY <1>1, <1>4, HeadAndTail
  <2>2. Head(word) \in marks
    BY <1>4 DEF MarksOf
  <2>3. Atoms(marks, <<Head(word)>> \o Tail(word)) = Atoms(marks, Tail(word))
    BY <2>1, <2>2, MarkSilent
  <2> QED
    BY <2>1, <2>3
<1> QED
  BY <1>3, <1>4 DEF word

\* The flags behind the first one say the rest of the word.
LEMMA RestSaid ==
  ASSUME NEW A, NEW name \in Seq(A), name # <<>>, NEW marks
  PROVE  Rest(name) \in Seq(Words(A)) /\ Said(marks, Rest(name)) = Atoms(marks, Tail(name))
<1> DEFINE t == Tail(name)
           r == Rest(name)
<1>1. t \in Seq(A) /\ Len(t) = Len(name) - 1 /\ Len(name) \in Nat \ {0} /\ DOMAIN t = 1 .. Len(name) - 1
      /\ \A k \in 1 .. Len(name) - 1 : t[k] = name[k + 1]
  OBVIOUS
<1>2. r = [k \in 1 .. Len(name) - 1 |-> Token("short", <<name[k + 1]>>)]
  BY DEF Rest
<1>3. /\ r \in Seq(Words(A)) /\ DOMAIN r = 1 .. Len(name) - 1
      /\ \A k \in 1 .. Len(name) - 1 : r[k].name = <<t[k]>>
  <2>1. \A k \in 1 .. Len(name) - 1 : Token("short", <<name[k + 1]>>) \in Words(A)
    <3>1. \A k \in 1 .. Len(name) - 1 : <<name[k + 1]>> \in Seq(A)
      BY <1>1
    <3> QED
      BY <3>1 DEF Token, Words
  <2>2. \A x : Token("short", x).name = x
    BY DEF Token
  <2>3. \A k \in 1 .. Len(name) - 1 : r[k] = Token("short", <<name[k + 1]>>)
    BY <1>2
  <2>4. DOMAIN r = 1 .. Len(name) - 1 /\ r \in Seq(Words(A))
    BY <1>1, <1>2, <2>1
  <2> HIDE DEF r, t
  <2> QED
    BY <1>1, <2>2, <2>3, <2>4
<1> HIDE DEF t, r
<1>4. Names(r) = [k \in 1 .. Len(name) - 1 |-> <<t[k]>>]
  BY <1>3 DEF Names
<1>5. \A x \in A : Atoms(marks, <<x>>) = IF x \in marks THEN <<>> ELSE <<x>>
  BY AtomsFacts DEF AtomsRule
<1>6. Flat(marks, [k \in 1 .. Len(name) - 1 |-> <<t[k]>>]) = Atoms(marks, t)
  <2>1. \A k \in 1 .. Len(name) - 1 : t[k] \in A
    BY <1>1
  <2>2. [k \in 1 .. Len(name) - 1 |-> Atoms(marks, <<t[k]>>)]
          = [k \in 1 .. Len(name) - 1 |-> IF t[k] \in marks THEN <<>> ELSE <<t[k]>>]
    BY <1>5, <2>1
  <2>3. Flat(marks, [k \in 1 .. Len(name) - 1 |-> <<t[k]>>])
          = FlattenSeq([k \in 1 .. Len(name) - 1 |-> Atoms(marks, <<t[k]>>)])
    <3> DEFINE g == [k \in 1 .. Len(name) - 1 |-> <<t[k]>>]
    <3>1. DOMAIN g = 1 .. Len(name) - 1 /\ \A k \in 1 .. Len(name) - 1 : g[k] = <<t[k]>>
      OBVIOUS
    <3> HIDE DEF g
    <3>2. [k \in DOMAIN g |-> Atoms(marks, g[k])] = [k \in 1 .. Len(name) - 1 |-> Atoms(marks, <<t[k]>>)]
      BY <3>1
    <3>3. Flat(marks, g) = FlattenSeq([k \in DOMAIN g |-> Atoms(marks, g[k])])
      BY DEF Flat
    <3> QED
      BY <3>2, <3>3 DEF g
  <2>4. Atoms(marks, t) = FlattenSeq([k \in 1 .. Len(name) - 1 |-> IF t[k] \in marks THEN <<>> ELSE <<t[k]>>])
    BY <1>1 DEF Atoms
  <2> QED
    BY <2>2, <2>3, <2>4
<1> QED
  BY <1>3, <1>4, <1>6 DEF Said, r, t

\* A token that is all marks can go.
LEMMA CutSaid ==
  ASSUME NEW A, NEW q \in Seq(Toks(A)), NEW j \in Nat, j + 1 <= Len(q), NEW marks,
         Atoms(marks, q[j + 1].name) = <<>>
  PROVE  Said(marks, Cut(q, j, 1)) = Said(marks, q)
<1> DEFINE f == SubSeq(q, 1, j)
           x == q[j + 1]
           b == SubSeq(q, j + 2, Len(q))
           r == SubSeq(q, j + 1, Len(q))
<1>1. SaidRule(marks, A)
  BY SaidFacts
<1>2. /\ f \in Seq(Toks(A)) /\ b \in Seq(Toks(A)) /\ r \in Seq(Toks(A)) /\ x \in Toks(A)
      /\ <<x>> \in Seq(Toks(A)) /\ q = f \o r
  <2>1. j \in 0 .. Len(q) /\ j + 1 \in 1 .. Len(q)
    OBVIOUS
  <2>2. f \o r = q
    BY <2>1, Split
  <2>3. /\ f \in Seq(Toks(A)) /\ r \in Seq(Toks(A)) /\ b \in Seq(Toks(A))
    BY <2>1, SubSeqFacts
  <2>4. x \in Toks(A)
    BY <2>1
  <2> HIDE DEF f, r, b, x
  <2>5. <<x>> \in Seq(Toks(A))
    BY <2>4
  <2> QED
    BY <2>2, <2>3, <2>4, <2>5
<1>3. r = <<x>> \o b
  <2>1. r # <<>> /\ Head(r) = x /\ Tail(r) = b
    <3>1. /\ r \in Seq(Toks(A)) /\ Len(r) = Len(q) - j /\ \A k \in 1 .. Len(q) - j : r[k] = q[k + j]
      BY SubSeqFacts
    <3>2. /\ b \in Seq(Toks(A)) /\ Len(b) = Len(q) - (j + 1)
          /\ \A k \in 1 .. Len(q) - (j + 1) : b[k] = q[k + (j + 1)]
      <4>1. j + 2 \in 1 .. Len(q) + 1
        OBVIOUS
      <4> QED
        BY <4>1, SubSeqFacts
    <3> HIDE DEF r, b
    <3>3. r # <<>> /\ Head(r) = q[1 + j] /\ Tail(r) \in Seq(Toks(A)) /\ Len(Tail(r)) = Len(q) - (j + 1)
          /\ \A k \in 1 .. Len(q) - (j + 1) : Tail(r)[k] = r[k + 1]
      BY <3>1
    <3>4. \A k \in 1 .. Len(q) - (j + 1) : k + 1 \in 1 .. Len(q) - j /\ (k + 1) + j = k + (j + 1)
      OBVIOUS
    <3>5. \A k \in 1 .. Len(q) - (j + 1) : Tail(r)[k] = b[k]
      BY <3>1, <3>2, <3>3, <3>4
    <3>6. Tail(r) = b
      <4> DEFINE y == Tail(r)
      <4>1. y \in Seq(Toks(A)) /\ Len(y) = Len(b) /\ \A k \in 1 .. Len(b) : y[k] = b[k]
        BY <3>2, <3>3, <3>5
      <4> HIDE DEF y
      <4>2. y = b
        BY ONLY <3>2, <4>1
      <4> QED
        BY <4>2 DEF y
    <3> QED
      BY <3>3, <3>6 DEF x
  <2> HIDE DEF r, x, b
  <2> QED
    BY <1>2, <2>1, HeadAndTail
<1>4. Cut(q, j, 1) = f \o b
  <2>1. j + 1 + 1 = j + 2
    OBVIOUS
  <2> QED
    BY <2>1 DEF Cut
<1> HIDE DEF f, b, r, x
<1>5. Said(marks, f \o b) = Said(marks, f) \o Said(marks, b)
  BY <1>1, <1>2 DEF SaidRule
<1>6. Said(marks, f \o r) = Said(marks, f) \o Said(marks, r)
  BY <1>1, <1>2 DEF SaidRule
<1>7. Said(marks, r) = Said(marks, <<x>>) \o Said(marks, b) /\ Said(marks, <<x>>) = <<>>
  <2>1. Said(marks, <<x>> \o b) = Said(marks, <<x>>) \o Said(marks, b)
    BY <1>1, <1>2 DEF SaidRule
  <2>2. Said(marks, <<x>>) = Atoms(marks, x.name)
    BY <1>1, <1>2 DEF SaidRule
  <2> QED
    BY <1>3, <2>1, <2>2 DEF x
<1>8. <<>> \o Said(marks, b) = Said(marks, b)
  <2>1. Said(marks, b) \in Seq(A)
    BY <1>1, <1>2 DEF SaidRule
  <2> QED
    BY <2>1
<1> QED
  BY <1>2, <1>4, <1>5, <1>6, <1>7, <1>8
-----------------------------------------------------------------------------
\* A token and those behind it
FrontRule(marks, A) ==
  \A x \in Toks(A), t \in Seq(Toks(A)) :
    /\ <<x>> \o t \in Seq(Toks(A))
    /\ Said(marks, <<x>> \o t) = Atoms(marks, x.name) \o Said(marks, t)

\* A token says its text, and those behind it say the rest.
LEMMA FrontFacts ==
  ASSUME NEW A, NEW marks
  PROVE  FrontRule(marks, A)
<1> SUFFICES ASSUME NEW x \in Toks(A), NEW t \in Seq(Toks(A))
             PROVE  /\ <<x>> \o t \in Seq(Toks(A))
                    /\ Said(marks, <<x>> \o t) = Atoms(marks, x.name) \o Said(marks, t)
  BY DEF FrontRule
<1>1. SaidRule(marks, A)
  BY SaidFacts
<1>2. <<x>> \in Seq(Toks(A))
  OBVIOUS
<1>3. <<x>> \o t \in Seq(Toks(A))
  BY <1>2, ConcatFacts
<1> QED
  BY <1>1, <1>2, <1>3 DEF SaidRule

\* So the first of some tokens says the front of the line.
LEMMA HeadSaid ==
  ASSUME NEW A, NEW q \in Seq(Toks(A)), q # <<>>, NEW marks
  PROVE  Said(marks, q) = Atoms(marks, Head(q).name) \o Said(marks, Tail(q))
<1>1. Head(q) \in Toks(A) /\ Tail(q) \in Seq(Toks(A)) /\ q = <<Head(q)>> \o Tail(q)
  BY HeadAndTail
<1>2. Said(marks, <<Head(q)>> \o Tail(q)) = Atoms(marks, Head(q).name) \o Said(marks, Tail(q))
  <2>1. FrontRule(marks, A)
    BY FrontFacts
  <2> QED
    BY <1>1, <2>1 DEF FrontRule
<1> QED
  BY <1>1, <1>2

\* The first unclaimed token is claimed.
LEMMA OneClaimed ==
  ASSUME NEW A, NEW q \in Seq(Words(A)), q # <<>>
  PROVE  Transfer([p |-> <<>>, u |-> q], 0) = [p |-> <<Head(q)>>, u |-> Tail(q)]
<1>1. Moved(<<>>, q, 0) = 1
  BY DEF Moved
<1>2. Transfer([p |-> <<>>, u |-> q], 0)
        = [p |-> <<>> \o SubSeq(q, 1, 1), u |-> SubSeq(q, 1 + 1, Len(q))]
  <2>1. <<>> \in Seq(Toks(A)) /\ 0 \in Int
    OBVIOUS
  <2> QED
    BY <1>1, <2>1, TransferMoves
<1>3. SubSeq(q, 1, 1) = <<Head(q)>>
  <2> DEFINE front == SubSeq(q, 1, 1)
  <2>1. front \in Seq(Words(A)) /\ Len(front) = 1 /\ front[1] = q[1]
    OBVIOUS
  <2>2. Head(q) = q[1]
    OBVIOUS
  <2> HIDE DEF front
  <2>3. front = <<front[1]>>
    BY <2>1
  <2> QED
    BY <2>1, <2>2, <2>3 DEF front
<1>4. SubSeq(q, 1 + 1, Len(q)) = Tail(q)
  OBVIOUS
<1>5. \A x : <<>> \o <<x>> = <<x>>
  OBVIOUS
<1> QED
  BY <1>2, <1>3, <1>4, <1>5

\* What the phases see of an adapter that has claimed nothing
LEMMA Unclaimed ==
  ASSUME NEW A, NEW q \in Seq(Words(A))
  PROVE  LET a == [p |-> <<>>, u |-> q]
         IN  /\ a \in Adapters(A) /\ Tokens(a) = q /\ q \in Seq(Toks(A))
             /\ IsEmpty(a) <=> q = <<>>
             /\ q # <<>> => First(a) = Head(q) /\ Head(q) \in Toks(A) /\ Tail(q) \in Seq(Toks(A))
<1> DEFINE a == [p |-> <<>>, u |-> q]
<1>1. q \in Seq(Toks(A)) /\ Len(q) \in Nat
  BY WordsAreTokens
<1>2. a \in Adapters(A) /\ a.p = <<>> /\ a.u = q
  BY DEF Adapters
<1>3. Tokens(a) = q /\ Size(a) = Len(q)
  <2>1. <<>> \o q = q /\ Len(<<>>) = 0
    BY <1>1
  <2> QED
    BY <1>1, <1>2, <2>1 DEF Tokens, Size
<1> HIDE DEF a
<1>4. ASSUME q # <<>> PROVE First(a) = Head(q) /\ Head(q) \in Toks(A) /\ Tail(q) \in Seq(Toks(A))
  <2>1. Size(a) # 0
    BY <1>3, <1>4
  <2>2. First(a) = q[1]
    BY <1>2, <1>3, <2>1, FirstTyped
  <2> QED
    BY <1>1, <1>4, <2>2, HeadAndTail
<1>5. IsEmpty(a) <=> q = <<>>
  BY <1>3 DEF IsEmpty
<1> QED
  BY <1>1, <1>2, <1>3, <1>4, <1>5 DEF a

\* Two sequences of one
LEMMA PairIs ==
  ASSUME NEW T, NEW x \in T, NEW y \in T
  PROVE  <<x>> \o <<y>> = <<x, y>>
<1> DEFINE a == <<x>>
           b == <<y>>
           c == <<x, y>>
<1>1. /\ a \in Seq(T) /\ Len(a) = 1 /\ a[1] = x /\ b \in Seq(T) /\ Len(b) = 1 /\ b[1] = y
      /\ c \in Seq(T) /\ Len(c) = 2 /\ c[1] = x /\ c[2] = y
  OBVIOUS
<1> HIDE DEF a, b, c
<1>3. /\ 1 \in 0 .. Len(c) /\ Len(b) = Len(c) - 1
      /\ \A k \in 1 .. 1 : a[k] = c[k]
      /\ \A k \in 1 .. Len(c) - 1 : b[k] = c[k + 1]
  BY ONLY <1>1
<1>2. a \o b = c
  BY ONLY <1>1, <1>3, Parts
<1> QED
  BY <1>2 DEF a, b, c

\* A second token is put behind the first, and the first replaced.
LEMMA PairMade ==
  ASSUME NEW T, NEW x \in T, NEW y \in T, NEW z \in T
  PROVE  /\ Splice(<<x>>, 1, <<y>>) = <<x, y>> /\ [<<x, y>> EXCEPT ![1] = z] = <<z, y>>
<1>1. <<x>> \in Seq(T) /\ <<y>> \in Seq(T) /\ <<>> \in Seq(T) /\ <<x, y>> \in Seq(T) /\ <<z, y>> \in Seq(T)
  OBVIOUS
<1>2. SubSeq(<<x>>, 1, 1) = <<x>> /\ SubSeq(<<x>>, 1 + 1, Len(<<x>>)) = <<>>
  <2> DEFINE f == SubSeq(<<x>>, 1, 1)
             b == SubSeq(<<x>>, 1 + 1, Len(<<x>>))
             o == <<x>>
  <2>1. o \in Seq(T) /\ Len(o) = 1 /\ o[1] = x
    OBVIOUS
  <2>2. SubSeq(o, 1, 1) \in Seq(T) /\ Len(SubSeq(o, 1, 1)) = 1 /\ SubSeq(o, 1, 1)[1] = o[1]
        /\ SubSeq(o, 1 + 1, Len(o)) \in Seq(T) /\ Len(SubSeq(o, 1 + 1, Len(o))) = 0
    <3> HIDE DEF o
    <3> QED
      BY <2>1
  <2>3. f \in Seq(T) /\ Len(f) = 1 /\ f[1] = x /\ b \in Seq(T) /\ Len(b) = 0
    BY <2>1, <2>2
  <2> HIDE DEF f, b
  <2>4. f = <<x>> /\ b = <<>>
    BY <2>3
  <2> QED
    BY <2>4 DEF f, b
<1>3. <<x>> \o <<y>> = <<x, y>>
  BY PairIs
<1>4. <<x, y>> \o <<>> = <<x, y>>
  OBVIOUS
<1>5. Splice(<<x>>, 1, <<y>>) = <<x, y>>
  BY <1>2, <1>3, <1>4 DEF Splice
<1>6. [<<x, y>> EXCEPT ![1] = z] = <<z, y>>
  OBVIOUS
<1> QED
  BY <1>5, <1>6

\* A value behind a label, and a new label
LEMMA SecondInserted ==
  ASSUME NEW A, NEW q \in Seq(Words(A)), q # <<>>, NEW v \in Toks(A), NEW l \in Toks(A)
  PROVE  SetAt(Insert([p |-> <<>>, u |-> q], 1, <<v>>), 0, l) = [p |-> <<l, v>>, u |-> Tail(q)]
<1> DEFINE h == Head(q)
           t == Tail(q)
           a == [p |-> <<>>, u |-> q]
           b == Insert(a, 1, <<v>>)
<1>1. h \in Toks(A) /\ t \in Seq(Words(A)) /\ Len(t) \in Nat
  <2>1. h \in Words(A) /\ t \in Seq(Words(A))
    BY HeadAndTail
  <2> HIDE DEF h, t
  <2> QED
    BY <2>1, WordsAreTokens
<1>2. \A x, y, z : /\ [[p |-> x, u |-> y] EXCEPT !.p = z] = [p |-> z, u |-> y]
                   /\ [p |-> x, u |-> y].p = x /\ [p |-> x, u |-> y].u = y
                   /\ Size([p |-> x, u |-> y]) = Len(x) + Len(y)
  BY DEF Size
<1>3. Transfer(a, 0) = [p |-> <<h>>, u |-> t] /\ Prev(1) = 0
  BY OneClaimed, EndAssumption DEF Prev
<1> HIDE DEF h, t, a, b
<1>4. /\ Splice(<<h>>, 1, <<v>>) = <<h, v>> /\ [<<h, v>> EXCEPT ![1] = l] = <<l, v>>
      /\ Len(<<h>>) = 1 /\ Len(<<h, v>>) = 2
  BY <1>1, PairMade
<1>5. b = [p |-> <<h, v>>, u |-> t]
  <2> DEFINE w  == [p |-> <<h>>, u |-> t]
             at == IF IsEnd(w, 1) THEN Len(w.p) ELSE 1
  <2>1. b = [w EXCEPT !.p = Splice(w.p, at, <<v>>)]
    BY <1>3 DEF b, Insert
  <2>2. w.p = <<h>> /\ at = 1
    BY <1>2, <1>4
  <2> HIDE DEF at
  <2>3. b = [w EXCEPT !.p = <<h, v>>]
    BY <1>4, <2>1, <2>2
  <2> QED
    BY <1>2, <2>3
<1>6. SetAt(b, 0, l) = [p |-> <<l, v>>, u |-> t]
  <2>1. b.p = <<h, v>> /\ Size(b) = 2 + Len(t)
    BY <1>2, <1>4, <1>5
  <2>2. 0 < 2 /\ ~(0 >= 2 + Len(t)) /\ 0 # End
    BY <1>1, EndAssumption
  <2>3. Transfer(b, 0) = b
    BY <1>4, <2>1, <2>2 DEF Transfer, IsEnd
  <2>4. SetAt(b, 0, l) = [b EXCEPT !.p = [b.p EXCEPT ![1] = l]]
    BY <2>3 DEF SetAt
  <2> QED
    BY <1>2, <1>4, <1>5, <2>1, <2>4
<1> QED
  BY <1>6 DEF a, b, t
-----------------------------------------------------------------------------
\* The separator of a value

\* A text around a separator
LEMMA AroundSeparator ==
  ASSUME NEW A, NEW text \in Seq(A), NEW at \in 1 .. Len(text), NEW marks, text[at] \in marks
  PROVE  LET label == SubSeq(text, 1, at - 1)
             value == SubSeq(text, at + 1, Len(text))
         IN  /\ label \in Seq(A) /\ value \in Seq(A)
             /\ Atoms(marks, text) = Atoms(marks, label) \o Atoms(marks, value)
<1> DEFINE label == SubSeq(text, 1, at - 1)
           value == SubSeq(text, at + 1, Len(text))
           rest  == SubSeq(text, at, Len(text))
<1>1. /\ label \in Seq(A) /\ value \in Seq(A) /\ rest \in Seq(A) /\ rest # <<>>
      /\ text = label \o rest /\ Head(rest) = text[at] /\ Tail(rest) = value
  <2>1. at - 1 \in 0 .. Len(text) /\ (at - 1) + 1 = at /\ at \in 1 .. Len(text) + 1 /\ at + 1 \in 1 .. Len(text) + 1
    OBVIOUS
  <2>2. label \o SubSeq(text, (at - 1) + 1, Len(text)) = text
    BY ONLY <2>1, text \in Seq(A), Split
  <2>3. /\ label \in Seq(A)
        /\ rest \in Seq(A) /\ Len(rest) = Len(text) - at + 1 /\ \A k \in 1 .. Len(text) - at + 1 : rest[k] = text[k + at - 1]
        /\ value \in Seq(A) /\ Len(value) = Len(text) - (at + 1) + 1
        /\ \A k \in 1 .. Len(text) - (at + 1) + 1 : value[k] = text[k + (at + 1) - 1]
    BY <2>1, SubSeqFacts
  <2> HIDE DEF label, rest, value
  <2>4. Len(rest) \in Nat \ {0} /\ 1 \in 1 .. Len(text) - at + 1 /\ 1 + at - 1 = at
    BY <2>3
  <2>5. rest # <<>> /\ Head(rest) = text[at]
    BY <2>3, <2>4
  <2>6. Tail(rest) = value
    <3> DEFINE y == Tail(rest)
    <3>1. /\ y \in Seq(A) /\ Len(y) = Len(rest) - 1 /\ \A k \in 1 .. Len(rest) - 1 : y[k] = rest[k + 1]
      BY <2>3, <2>5
    <3> HIDE DEF y
    <3>2. Len(y) = Len(value)
      BY <2>3, <3>1
    <3>3. \A k \in 1 .. Len(value) : k + 1 \in 1 .. Len(text) - at + 1 /\ k \in 1 .. Len(rest) - 1 /\ (k + 1) + at - 1 = k + (at + 1) - 1
      BY <2>3
    <3>4. \A k \in 1 .. Len(value) : y[k] = value[k]
      BY <2>3, <3>1, <3>3
    <3>5. /\ y \in Seq(A) /\ value \in Seq(A) /\ Len(y) \in Nat
          /\ Len(y) = Len(value) /\ \A k \in 1 .. Len(y) : y[k] = value[k]
      BY <2>3, <3>1, <3>2, <3>4
    <3>6. y = value
      BY ONLY <3>5
    <3> QED
      BY <3>6 DEF y
  <2> QED
    BY <2>1, <2>2, <2>3, <2>5, <2>6 DEF rest
<1> HIDE DEF label, value, rest
<1>2. Atoms(marks, rest) = Atoms(marks, value)
  <2>1. Head(rest) \in A /\ rest = <<Head(rest)>> \o Tail(rest)
    BY <1>1, HeadAndTail
  <2>2. Atoms(marks, <<Head(rest)>> \o value) = Atoms(marks, value)
    BY <1>1, <2>1, MarkSilent
  <2> QED
    BY <1>1, <2>1, <2>2
<1>3. Atoms(marks, label \o rest) = Atoms(marks, label) \o Atoms(marks, rest)
  <2>1. AtomsRule(marks, A)
    BY AtomsFacts
  <2> QED
    BY <1>1, <2>1 DEF AtomsRule
<1> QED
  BY <1>1, <1>2, <1>3 DEF label, value

\* What is said by a label and the value behind it
PairRule(marks, A) ==
  \A l, v \in Toks(A), t \in Seq(Toks(A)) :
    Said(marks, Tokens([p |-> <<l, v>>, u |-> t]))
      = (Atoms(marks, l.name) \o Atoms(marks, v.name)) \o Said(marks, t)

\* The label says its text, then the value.
LEMMA PairFacts ==
  ASSUME NEW A, NEW marks
  PROVE  PairRule(marks, A)
<1> SUFFICES ASSUME NEW l \in Toks(A), NEW v \in Toks(A), NEW t \in Seq(Toks(A))
             PROVE  Said(marks, Tokens([p |-> <<l, v>>, u |-> t]))
                      = (Atoms(marks, l.name) \o Atoms(marks, v.name)) \o Said(marks, t)
  BY DEF PairRule
<1> DEFINE x == <<l>>
           y == <<v>>
<1>1. Tokens([p |-> <<l, v>>, u |-> t]) = <<l, v>> \o t
  BY DEF Tokens
<1>2. <<l, v>> = x \o y
  <2>1. <<l>> \o <<v>> = <<l, v>>
    BY PairIs
  <2> QED
    BY <2>1
<1>3. x \in Seq(Toks(A)) /\ y \in Seq(Toks(A))
  OBVIOUS
<1>4. \A z \in Toks(A), q \in Seq(Toks(A)) :
        <<z>> \o q \in Seq(Toks(A)) /\ Said(marks, <<z>> \o q) = Atoms(marks, z.name) \o Said(marks, q)
  <2>1. FrontRule(marks, A)
    BY FrontFacts
  <2> QED
    BY <2>1 DEF FrontRule
<1>5. y \o t \in Seq(Toks(A)) /\ Said(marks, y \o t) = Atoms(marks, v.name) \o Said(marks, t)
  BY <1>4
<1>6. Said(marks, x \o (y \o t)) = Atoms(marks, l.name) \o Said(marks, y \o t)
  BY <1>4, <1>5
<1> HIDE DEF x, y
<1>7. (x \o y) \o t = x \o (y \o t)
  BY ONLY <1>3, t \in Seq(Toks(A)), Assoc
<1>8. Atoms(marks, l.name) \in Seq(A) /\ Atoms(marks, v.name) \in Seq(A) /\ Said(marks, t) \in Seq(A)
  <2>1. AtomsRule(marks, A) /\ SaidRule(marks, A)
    BY AtomsFacts, SaidFacts
  <2>2. l.name \in Seq(A) /\ v.name \in Seq(A)
    BY DEF Toks
  <2> QED
    BY <2>1, <2>2 DEF AtomsRule, SaidRule
<1>9. Atoms(marks, l.name) \o (Atoms(marks, v.name) \o Said(marks, t))
        = (Atoms(marks, l.name) \o Atoms(marks, v.name)) \o Said(marks, t)
  <2> DEFINE a == Atoms(marks, l.name)
             b == Atoms(marks, v.name)
             c == Said(marks, t)
  <2>1. a \in Seq(A) /\ b \in Seq(A) /\ c \in Seq(A)
    BY <1>8
  <2> HIDE DEF a, b, c
  <2>2. a \o (b \o c) = (a \o b) \o c
    BY ONLY <2>1
  <2> QED
    BY <2>2 DEF a, b, c
<1> QED
  BY <1>1, <1>2, <1>5, <1>6, <1>7, <1>9

\* A label that is cut off its word
LEMMA SplitSays ==
  ASSUME NEW A, NEW ids, NEW node, NEW s \in States(A, ids), NEW q \in Seq(Words(A)),
         s.a = [p |-> <<>>, u |-> q], NEW marks, Separator \in marks
  PROVE  Said(marks, Tokens(ValueSeparator(node, s).a)) = Said(marks, q)
<1> DEFINE first == First(s.a)
           at    == SelectInSeq(first.name, LAMBDA atom : atom = Separator)
           value == SubSeq(first.name, at + 1, Len(first.name))
           label == SubSeq(first.name, 1, at - 1)
           v     == Token("none", value)
           l     == Token(first.pre, label)
           b     == Insert(s.a, 1, <<v>>)
           c     == SetAt(b, 0, l)
<1>1. /\ Tokens(s.a) = q /\ q \in Seq(Toks(A)) /\ (IsEmpty(s.a) <=> q = <<>>)
      /\ q # <<>> => first = Head(q) /\ first \in Toks(A) /\ Tail(q) \in Seq(Toks(A))
  BY Unclaimed
<1>2. CASE ValueSeparator(node, s) \in {Valid(s), SkipNode(s), Error(s, "missing_value_separator")}
  <2>1. ValueSeparator(node, s).a = s.a
    BY <1>2, ActsLight
  <2> QED
    BY <1>1, <2>1
<1>3. CASE IsEmpty(s.a)
  <2>1. ValueSeparator(node, s) = Valid(s)
    BY <1>3 DEF ValueSeparator
  <2> QED
    BY <1>2, <2>1
<1>4. CASE ~IsEmpty(s.a)
  <2>1. first \in Toks(A) /\ q # <<>> /\ Head(q) = first /\ Tail(q) \in Seq(Toks(A))
    BY <1>1, <1>4
  <2> HIDE DEF first
  <2>2. first.name \in Seq(A) /\ Len(first.name) \in Nat /\ first.pre \in {"none", "short", "long"}
    BY <2>1 DEF Toks
  <2>3. at \in 0 .. Len(first.name) /\ (at # 0 => first.name[at] = Separator)
    <3> DEFINE I == {k \in 1 .. Len(first.name) : first.name[k] = Separator}
    <3>1. at = IF I # {} THEN Min(I) ELSE 0
      BY DEF SelectInSeq
    <3>2. I \in SUBSET Nat
      OBVIOUS
    <3>3. I # {} => Min(I) \in I
      BY <3>2, MinIn
    <3>4. \A k \in I : k \in 1 .. Len(first.name) /\ first.name[k] = Separator
      OBVIOUS
    <3> HIDE DEF I, at
    <3> QED
      BY <2>2, <3>1, <3>3, <3>4
  <2> HIDE DEF at
  <2>10. CASE at = 0 \/ value = <<>>
    <3>1. at = 0 \/ (at > 0 /\ value = <<>>)
      BY <2>2, <2>3, <2>10
    <3>2. ValueSeparator(node, s) \in {Valid(s), SkipNode(s), Error(s, "missing_value_separator")}
      BY <1>4, <3>1 DEF ValueSeparator, first, at
    <3> QED
      BY <1>2, <3>2
  <2>11. CASE at # 0 /\ value # <<>>
    <3>1. ValueSeparator(node, s) = Valid([s EXCEPT !.a = c])
      BY <1>4, <2>3, <2>11 DEF ValueSeparator, first, at
    <3>2. at \in 1 .. Len(first.name) /\ first.name[at] \in marks
      BY <2>2, <2>3, <2>11
    <3>3. /\ value \in Seq(A) /\ label \in Seq(A)
          /\ Atoms(marks, first.name) = Atoms(marks, label) \o Atoms(marks, value)
      BY <2>2, <3>2, AroundSeparator
    <3>4. v \in Toks(A) /\ l \in Toks(A) /\ v.name = value /\ l.name = label
      BY <2>2, <3>3 DEF Toks, Token
    <3>5. s.a = [p |-> <<>>, u |-> q]
      OBVIOUS
    <3> HIDE DEF v, l, value, label
    <3>6. c = [p |-> <<l, v>>, u |-> Tail(q)]
      BY <2>1, <3>4, <3>5, SecondInserted
    <3> HIDE DEF c
    <3>7. Said(marks, Tokens(c)) = (Atoms(marks, label) \o Atoms(marks, value)) \o Said(marks, Tail(q))
      <4>1. Tail(q) \in Seq(Toks(A))
        BY <2>1
      <4>2. Said(marks, Tokens([p |-> <<l, v>>, u |-> Tail(q)]))
              = (Atoms(marks, l.name) \o Atoms(marks, v.name)) \o Said(marks, Tail(q))
        <5>1. PairRule(marks, A)
          BY PairFacts
        <5> QED
          BY <3>4, <4>1, <5>1 DEF PairRule
      <4> QED
        BY <3>4, <3>6, <4>2
    <3>8. Said(marks, q) = Atoms(marks, first.name) \o Said(marks, Tail(q))
      BY <1>1, <2>1, HeadSaid
    <3>9. Said(marks, Tokens(c)) = Said(marks, q)
      BY <3>3, <3>7, <3>8
    <3>10. ValueSeparator(node, s).a = c
      <4>1. \A x : Valid([s EXCEPT !.a = x]).a = x
        BY DEF Valid, States
      <4> QED
        BY <3>1, <4>1
    <3> QED
      BY <3>9, <3>10
  <2> QED
    BY <2>10, <2>11
<1> QED
  BY <1>3, <1>4
-----------------------------------------------------------------------------
\* The expander of collapsed flags

\* The first flag of a collapsed word, and the flags behind it
LEMMA ExpandedWord ==
  ASSUME NEW A, NEW name \in Seq(A), NEW marks
  PROVE  LET x == SubSeq(name, 1, Smaller(1, Len(name)))
         IN  /\ x \in Seq(A) /\ Rest(name) \in Seq(Words(A))
             /\ Atoms(marks, x) \o Said(marks, Rest(name)) = Atoms(marks, name)
<1> DEFINE x == SubSeq(name, 1, Smaller(1, Len(name)))
<1>1. AtomsRule(marks, A) /\ SaidRule(marks, A)
  BY AtomsFacts, SaidFacts
<1>2. CASE name = <<>>
  <2>1. Len(name) = 0 /\ Smaller(1, 0) = 0
    BY <1>2 DEF Smaller
  <2>2. Len(x) = 0 /\ x \in Seq(A)
    BY <2>1, SubSeqFacts
  <2>3. x = <<>>
    BY <2>2
  <2>4. Rest(name) \in [1 .. 0 -> Words(A)]
    BY <2>1 DEF Rest
  <2>5. Rest(name) \in Seq(Words(A)) /\ Rest(name) = <<>>
    BY <2>4
  <2>6. Atoms(marks, <<>>) = <<>> /\ Said(marks, <<>>) = <<>>
    BY <1>1 DEF AtomsRule, SaidRule
  <2>7. <<>> \o <<>> = <<>>
    OBVIOUS
  <2> HIDE DEF x
  <2> QED
    BY <1>2, <2>2, <2>3, <2>5, <2>6, <2>7 DEF x
<1>3. CASE name # <<>>
  <2>1. /\ Head(name) \in A /\ <<Head(name)>> \in Seq(A) /\ Tail(name) \in Seq(A)
        /\ name = <<Head(name)>> \o Tail(name) /\ Head(name) = name[1] /\ Len(name) \in Nat \ {0}
    BY <1>3, HeadAndTail
  <2>2. Smaller(1, Len(name)) = 1
    BY <2>1 DEF Smaller
  <2>3. x = <<Head(name)>>
    <3> DEFINE y == SubSeq(name, 1, 1)
    <3>1. y \in Seq(A) /\ Len(y) = 1 /\ y[1] = name[1]
      BY <2>1
    <3> HIDE DEF y
    <3>2. y = <<y[1]>>
      BY <3>1
    <3> QED
      BY <2>1, <2>2, <3>1, <3>2 DEF y
  <2>4. Rest(name) \in Seq(Words(A)) /\ Said(marks, Rest(name)) = Atoms(marks, Tail(name))
    BY <1>3, RestSaid
  <2> HIDE DEF x
  <2>5. Atoms(marks, <<Head(name)>> \o Tail(name)) = Atoms(marks, <<Head(name)>>) \o Atoms(marks, Tail(name))
    BY <1>1, <2>1 DEF AtomsRule
  <2> QED
    BY <2>1, <2>3, <2>4, <2>5 DEF x
<1> QED
  BY <1>2, <1>3

\* A new label, and tokens left behind it
LEMMA FirstReplaced ==
  ASSUME NEW A, NEW q \in Seq(Words(A)), q # <<>>, NEW r \in Seq(Words(A)), NEW l \in Toks(A)
  PROVE  SetAt(Leave(Transfer([p |-> <<>>, u |-> q], 0), r), 0, l)
           = [p |-> <<l>>, u |-> r \o Tail(q)]
<1> DEFINE h == Head(q)
           t == Tail(q)
           a == [p |-> <<>>, u |-> q]
           b == Leave(Transfer(a, 0), r)
           o == <<h>>
<1>1. h \in Toks(A) /\ t \in Seq(Words(A)) /\ Len(r \o t) \in Nat /\ o \in Seq(Toks(A)) /\ Len(o) = 1
      /\ [o EXCEPT ![1] = l] = <<l>>
  <2>1. h \in Words(A) /\ t \in Seq(Words(A))
    BY HeadAndTail
  <2> HIDE DEF h, t
  <2>2. h \in Toks(A)
    BY <2>1, WordsAreTokens
  <2>3. r \o t \in Seq(Words(A))
    BY <2>1, ConcatFacts
  <2> QED
    BY <2>1, <2>2, <2>3
<1>2. \A x, y, z : /\ [[p |-> x, u |-> y] EXCEPT !.p = z] = [p |-> z, u |-> y]
                   /\ [[p |-> x, u |-> y] EXCEPT !.u = z] = [p |-> x, u |-> z]
                   /\ [p |-> x, u |-> y].p = x /\ [p |-> x, u |-> y].u = y
                   /\ Size([p |-> x, u |-> y]) = Len(x) + Len(y)
  BY DEF Size
<1>3. Transfer(a, 0) = [p |-> o, u |-> t]
  BY OneClaimed
<1> HIDE DEF h, t, a, o
<1>4. b = [p |-> o, u |-> r \o t]
  <2> DEFINE w == Transfer(a, 0)
  <2>1. b = [w EXCEPT !.u = r \o w.u]
    BY DEF Leave
  <2>2. w = [p |-> o, u |-> t]
    BY <1>3
  <2> HIDE DEF w, b
  <2>3. w.u = t
    BY <2>2
  <2>4. b = [w EXCEPT !.u = r \o t]
    BY ONLY <2>1, <2>3
  <2>5. \A x, y, z : [[p |-> x, u |-> y] EXCEPT !.u = z] = [p |-> x, u |-> z]
    OBVIOUS
  <2> QED
    BY ONLY <2>2, <2>4, <2>5
<1> HIDE DEF b
<1>5. SetAt(b, 0, l) = [p |-> <<l>>, u |-> r \o t]
  <2>1. b.p = o /\ Size(b) = 1 + Len(r \o t)
    BY <1>1, <1>2, <1>4
  <2>2. 0 < 1 /\ ~(0 >= 1 + Len(r \o t)) /\ 0 # End
    BY <1>1, EndAssumption
  <2>3. Transfer(b, 0) = b
    BY <1>1, <2>1, <2>2 DEF Transfer, IsEnd
  <2>4. SetAt(b, 0, l) = [b EXCEPT !.p = [b.p EXCEPT ![1] = l]]
    BY <2>3 DEF SetAt
  <2> QED
    BY <1>1, <1>2, <1>4, <2>1, <2>4
<1> QED
  BY <1>5 DEF a, b, t

\* A collapsed word says the same when it is taken apart.
LEMMA ExpanderSays ==
  ASSUME NEW A, NEW ids, NEW node, NEW s \in States(A, ids), NEW q \in Seq(Words(A)),
         s.a = [p |-> <<>>, u |-> q], NEW marks, MarksOf(marks, node)
  PROVE  Said(marks, Tokens(ShortFormExpander(node, s).a)) = Said(marks, q)
<1> DEFINE first == AsLabelOf(node, First(s.a))
           label == Token("short", SubSeq(first.name, 1, Smaller(1, Len(first.name))))
           c     == SetAt(Leave(Transfer(s.a, 0), Rest(first.name)), 0, label)
<1>1. /\ Tokens(s.a) = q /\ q \in Seq(Toks(A)) /\ (IsEmpty(s.a) <=> q = <<>>)
      /\ q # <<>> => First(s.a) = Head(q) /\ First(s.a) \in Toks(A) /\ Tail(q) \in Seq(Toks(A))
  BY Unclaimed
<1>2. CASE ShortFormExpander(node, s) \in {Valid(s), Throw(s, "length_error")}
  <2>1. ShortFormExpander(node, s).a = s.a
    BY <1>2, ActsLight
  <2> QED
    BY <1>1, <2>1
<1>3. CASE ~IsEmpty(s.a) /\ ShortFormExpander(node, s) = Valid([s EXCEPT !.a = c])
  <2>1. q # <<>> /\ First(s.a) \in Toks(A) /\ First(s.a) = Head(q) /\ Tail(q) \in Seq(Toks(A))
    BY <1>1, <1>3
  <2>2. first \in Toks(A) /\ Atoms(marks, first.name) = Atoms(marks, First(s.a).name)
    BY <2>1, LabelTyped, LabelSaid
  <2> DEFINE name == first.name
             x    == SubSeq(name, 1, Smaller(1, Len(name)))
             r    == Rest(name)
             t    == Tail(q)
  <2>3. name \in Seq(A) /\ Atoms(marks, name) = Atoms(marks, Head(q).name)
    BY <2>1, <2>2 DEF Toks
  <2>4. label = Token("short", x) /\ c = SetAt(Leave(Transfer(s.a, 0), r), 0, label)
    OBVIOUS
  <2> HIDE DEF first, c, label, name
  <2>5. x \in Seq(A) /\ r \in Seq(Words(A)) /\ Atoms(marks, x) \o Said(marks, r) = Atoms(marks, name)
    BY <2>3, ExpandedWord
  <2> HIDE DEF x, r
  <2>6. label \in Toks(A) /\ label.name = x
    BY <2>4, <2>5 DEF Toks, Token
  <2>7. c = [p |-> <<label>>, u |-> r \o t]
    BY <2>1, <2>4, <2>5, <2>6, FirstReplaced
  <2> HIDE DEF t
  <2>8. t \in Seq(Toks(A)) /\ r \in Seq(Toks(A))
    BY <2>1, <2>5, WordsAreTokens DEF t
  <2>9. r \o t \in Seq(Toks(A))
    BY <2>8, ConcatFacts
  <2>10. Tokens(c) = <<label>> \o (r \o t)
    BY <2>7 DEF Tokens
  <2>11. Said(marks, Tokens(c)) = Atoms(marks, x) \o Said(marks, r \o t)
    <3>1. FrontRule(marks, A)
      BY FrontFacts
    <3> QED
      BY <2>6, <2>9, <2>10, <3>1 DEF FrontRule
  <2>12. /\ Said(marks, r \o t) = Said(marks, r) \o Said(marks, t)
         /\ Said(marks, r) \in Seq(A) /\ Said(marks, t) \in Seq(A) /\ Atoms(marks, x) \in Seq(A)
    <3>1. AtomsRule(marks, A) /\ SaidRule(marks, A)
      BY AtomsFacts, SaidFacts
    <3> QED
      BY <2>5, <2>8, <3>1 DEF AtomsRule, SaidRule
  <2>13. Atoms(marks, x) \o (Said(marks, r) \o Said(marks, t))
           = (Atoms(marks, x) \o Said(marks, r)) \o Said(marks, t)
    <3> DEFINE sx == Atoms(marks, x)
               sr == Said(marks, r)
               st == Said(marks, t)
    <3> HIDE DEF sx, sr, st
    <3>1. sx \in Seq(A) /\ sr \in Seq(A) /\ st \in Seq(A)
      BY <2>12 DEF sx, sr, st
    <3>2. sx \o (sr \o st) = (sx \o sr) \o st
      BY ONLY <3>1
    <3> QED
      BY <3>2 DEF sx, sr, st
  <2>14. Said(marks, q) = Atoms(marks, Head(q).name) \o Said(marks, t)
    BY <1>1, <2>1, HeadSaid DEF t
  <2>15. Said(marks, Tokens(c)) = Said(marks, q)
    BY <2>3, <2>5, <2>11, <2>12, <2>13, <2>14
  <2>16. ShortFormExpander(node, s).a = c
    <3>1. \A b : Valid([s EXCEPT !.a = b]).a = b
      BY DEF Valid, States
    <3> QED
      BY <1>3, <3>1
  <2> QED
    BY <2>15, <2>16
<1>4. \/ ShortFormExpander(node, s) \in {Valid(s), Throw(s, "length_error")}
      \/ ~IsEmpty(s.a) /\ ShortFormExpander(node, s) = Valid([s EXCEPT !.a = c])
  <2>1. CASE IsEmpty(s.a)
    BY <2>1 DEF ShortFormExpander
  <2>2. CASE ~IsEmpty(s.a)
    BY <2>2 DEF ShortFormExpander
  <2> QED
    BY <2>1, <2>2
<1> QED
  BY <1>2, <1>3, <1>4
-----------------------------------------------------------------------------
\* The marker of a list and the counts

\* The marker's phase erases a token that is the marker.
ErasesAt(node, s, it) ==
  /\ TokenEndMarker(node, s) = Valid([s EXCEPT !.a = Erase(Transfer(s.a, it), it)])
  /\ it < Size(s.a) => Tokens(s.a)[it + 1].name = <<node.marker>>

\* For every node there is such a token, or it is behind the last one.
LEMMA MarkFinds ==
  ASSUME NEW A, NEW ids, NEW node, NEW s \in States(A, ids)
  PROVE  \E it \in Nat : ErasesAt(node, s, it)
<1> DEFINE q  == Tokens(s.a)
           I  == {k \in NamedOffset(node) + 1 .. Size(s.a) : q[k].name = <<node.marker>>}
           at == SelectInSubSeq(Tokens(s.a), NamedOffset(node) + 1, Size(s.a),
                                LAMBDA t : t.name = <<node.marker>>)
           it == IF at = 0 THEN Size(s.a) ELSE at - 1
<1>1. Size(s.a) \in Nat /\ NamedOffset(node) \in 0 .. 1
  <2>1. s.a \in Adapters(A)
    BY DEF States
  <2>2. PICK p \in Seq(Toks(A)), u \in Seq(Words(A)) :
          Size(s.a) = Len(p) + Len(u) /\ Len(p) \in Nat /\ Len(u) \in Nat
    BY <2>1, AdapterParts
  <2> QED
    BY <2>2 DEF NamedOffset
<1>2. at = 0 \/ (at \in NamedOffset(node) + 1 .. Size(s.a) /\ q[at].name = <<node.marker>>)
  <2>1. at = IF I # {} THEN Min(I) ELSE 0
    BY DEF SelectInSubSeq
  <2>2. I \in SUBSET Nat
    BY <1>1
  <2>3. I # {} => Min(I) \in I
    BY <2>2, MinIn
  <2>4. \A k \in I : k \in NamedOffset(node) + 1 .. Size(s.a) /\ q[k].name = <<node.marker>>
    OBVIOUS
  <2> HIDE DEF I, at, q
  <2>5. CASE I = {}
    <3>1. at = 0
      BY ONLY <2>1, <2>5
    <3> QED
      BY ONLY <3>1
  <2>6. CASE I # {}
    <3>1. at \in I
      BY <2>1, <2>3, <2>6
    <3> QED
      BY <2>4, <3>1
  <2> QED
    BY <2>5, <2>6
<1>3. TokenEndMarker(node, s) = Valid([s EXCEPT !.a = Erase(Transfer(s.a, it), it)])
  BY DEF TokenEndMarker
<1> HIDE DEF at, q
<1>4. it \in Nat /\ (it < Size(s.a) => it + 1 = at /\ at # 0)
  BY ONLY <1>1, <1>2 DEF it
<1> HIDE DEF it
<1>5. it < Size(s.a) => q[it + 1].name = <<node.marker>>
  BY <1>2, <1>4
<1>6. it < Size(s.a) => Tokens(s.a)[it + 1].name = <<node.marker>>
  BY ONLY <1>5 DEF q
<1>7. ErasesAt(node, s, it)
  BY ONLY <1>3, <1>6 DEF ErasesAt
<1> QED
  BY <1>4, <1>7

\* An erased token is cut out of the tokens.
LEMMA EraseCuts ==
  ASSUME NEW A, NEW a \in Adapters(A), NEW it \in Nat
  PROVE  /\ Tokens(a) \in Seq(Toks(A)) /\ Len(Tokens(a)) = Size(a) /\ Size(a) \in Nat
         /\ Tokens(Erase(a, it)) = IF it < Size(a) THEN Cut(Tokens(a), it, 1) ELSE Tokens(a)
<1>1. PICK p \in Seq(Toks(A)), u \in Seq(Words(A)) :
        /\ a = [p |-> p, u |-> u]
        /\ Size(a) = Len(p) + Len(u)
        /\ Len(p) \in Nat /\ Len(u) \in Nat
  BY AdapterParts
<1>0. \A q, w : Tokens([p |-> q, u |-> w]) = q \o w
  BY DEF Tokens
<1>2. u \in Seq(Toks(A))
  BY WordsAreTokens
<1>3. Tokens(a) = p \o u /\ p \o u \in Seq(Toks(A)) /\ Len(p \o u) = Len(p) + Len(u)
  <2>1. Tokens(a) = p \o u
    BY ONLY <1>0, <1>1
  <2> QED
    BY <1>2, <2>1, ConcatFacts
<1>4. Size(a) \in Nat /\ (IsEnd(a, it) <=> ~(it < Size(a)))
  <2>1. Size(a) \in Nat
    BY <1>1
  <2>2. it # End
    BY EndAssumption
  <2> DEFINE n == Size(a)
  <2>3. IsEnd(a, it) <=> it >= n
    BY <2>2 DEF IsEnd
  <2> HIDE DEF n
  <2>4. n \in Nat
    BY <2>1 DEF n
  <2> QED
    BY <2>3, <2>4 DEF n
<1>5. CASE ~(it < Size(a))
  <2>1. Erase(a, it) = a
    BY <1>4, <1>5 DEF Erase
  <2> QED
    BY <1>1, <1>3, <1>4, <1>5, <2>1
<1>6. CASE it < Size(a) /\ it < Len(p)
  <2>1. Erase(a, it) = [p |-> Cut(p, it, 1), u |-> u]
    BY <1>1, <1>4, <1>6 DEF Erase
  <2>2. it + 1 <= Len(p) /\ 1 \in Nat
    BY ONLY <1>1, <1>6, it \in Nat
  <2>3. Cut(p \o u, it, 1) = Cut(p, it, 1) \o u
    BY <1>2, <2>2, CutFront
  <2>4. Tokens(Erase(a, it)) = Cut(p, it, 1) \o u
    BY ONLY <1>0, <2>1
  <2> QED
    BY <1>1, <1>3, <1>4, <1>6, <2>3, <2>4
<1>7. CASE it < Size(a) /\ ~(it < Len(p))
  <2> DEFINE j == it - Len(p)
  <2>1. Erase(a, it) = [p |-> p, u |-> Cut(u, j, 1)]
    BY <1>1, <1>4, <1>7 DEF Erase
  <2>2. j \in Nat /\ j + 1 <= Len(u) /\ Len(p) + j = it
    BY ONLY <1>1, <1>7, it \in Nat
  <2> HIDE DEF j
  <2>3. Cut(p \o u, Len(p) + j, 1) = p \o Cut(u, j, 1)
    BY <1>2, <2>2, CutBack
  <2>4. Tokens(Erase(a, it)) = p \o Cut(u, j, 1)
    BY ONLY <1>0, <2>1
  <2> QED
    BY <1>1, <1>3, <1>4, <1>7, <2>2, <2>3, <2>4
<1> QED
  BY <1>5, <1>6, <1>7

\* Without its marker a list says the same.
LEMMA MarkSays ==
  ASSUME NEW A, NEW ids, NEW node, NEW s \in States(A, ids), NEW marks, MarksOf(marks, node)
  PROVE  Said(marks, Tokens(TokenEndMarker(node, s).a)) = Said(marks, Tokens(s.a))
<1>0. PICK it \in Nat : ErasesAt(node, s, it)
  BY MarkFinds
<1>1. /\ TokenEndMarker(node, s) = Valid([s EXCEPT !.a = Erase(Transfer(s.a, it), it)])
      /\ it < Size(s.a) => Tokens(s.a)[it + 1].name = <<node.marker>>
  BY <1>0 DEF ErasesAt
<1> DEFINE b == Transfer(s.a, it)
           c == Erase(b, it)
<1>2. s.a \in Adapters(A)
  BY ActsLight
<1>3. b \in Adapters(A) /\ Tokens(b) = Tokens(s.a) /\ Size(b) = Size(s.a)
  BY <1>2, TransferTyped
<1>4. TokenEndMarker(node, s).a = c
  <2>1. \A x : Valid([s EXCEPT !.a = x]).a = x
    BY DEF Valid, States
  <2> QED
    BY <1>1, <2>1
<1> HIDE DEF b
<1>5. /\ Tokens(b) \in Seq(Toks(A)) /\ Len(Tokens(b)) = Size(b) /\ Size(b) \in Nat
      /\ Tokens(c) = IF it < Size(b) THEN Cut(Tokens(b), it, 1) ELSE Tokens(b)
  BY <1>3, EraseCuts
<1> HIDE DEF c
<1>6. CASE it < Size(b)
  <2> DEFINE q == Tokens(b)
  <2>1. Atoms(marks, <<node.marker>>) = <<>>
    <3>1. AtomsRule(marks, {node.marker}) /\ node.marker \in marks
      BY AtomsFacts DEF MarksOf
    <3> QED
      BY <3>1 DEF AtomsRule
  <2>2. q[it + 1].name = <<node.marker>>
    BY <1>1, <1>3, <1>6
  <2>3. it + 1 <= Len(q) /\ q \in Seq(Toks(A))
    BY <1>5, <1>6
  <2> HIDE DEF q
  <2>4. Atoms(marks, q[it + 1].name) = <<>>
    BY <2>1, <2>2
  <2>5. Said(marks, Cut(q, it, 1)) = Said(marks, q)
    BY <2>3, <2>4, CutSaid
  <2> QED
    BY <1>3, <1>4, <1>5, <1>6, <2>5 DEF q
<1>7. CASE ~(it < Size(b))
  BY <1>3, <1>4, <1>5, <1>7
<1> QED
  BY <1>6, <1>7

\* The counts claim and leave tokens, none is lost.
LEMMA CountSays ==
  ASSUME NEW A, NEW ids, NEW node, Parameters(node), NEW s \in States(A, ids)
  PROVE  Tokens(MinMaxCount(node, s).a) = Tokens(s.a)
<1>1. \/ MinMaxCount(node, s) = Error(s, "maximum_count_exceeded")
      \/ MinMaxCount(node, s) = Error(s, "minimum_count_not_reached")
      \/ \E it \in Int : MinMaxCount(node, s) = Valid([s EXCEPT !.a = Transfer(s.a, it)])
  BY CountTransfers
<1>2. \A code : Error(s, code).a = s.a
  BY DEF Error, States
<1>3. \A x : Valid([s EXCEPT !.a = x]).a = x
  BY DEF Valid, States
<1>4. s.a \in Adapters(A)
  BY ActsLight
<1>5. \A it \in Int : Tokens(Transfer(s.a, it)) = Tokens(s.a)
  BY <1>4, TransferTyped
<1> DEFINE t == MinMaxCount(node, s)
<1> HIDE DEF t
<1>6. t.a = s.a \/ \E it \in Int : t.a = Transfer(s.a, it)
  <2>1. CASE \E it \in Int : t = Valid([s EXCEPT !.a = Transfer(s.a, it)])
    BY <1>3, <2>1
  <2>2. CASE t = Error(s, "maximum_count_exceeded") \/ t = Error(s, "minimum_count_not_reached")
    BY <1>2, <2>2
  <2> QED
    BY <1>1, <2>1, <2>2 DEF t
<1> QED
  BY <1>5, <1>6 DEF t
-----------------------------------------------------------------------------
\* The phases up to the counts

\* What a phase leaves of the tokens
AfterRule(node, A, ids) ==
  \A policy : \A s, t \in States(A, ids) :
    LET r == After(s, policy, node, t) IN (r = s \/ r.a = t.a) /\ r.act \in {s.act, t.act}

\* A phase is skipped, or done.
LEMMA AfterFacts ==
  ASSUME NEW A, NEW ids, NEW node
  PROVE  AfterRule(node, A, ids)
<1> SUFFICES ASSUME NEW policy, NEW s \in States(A, ids), NEW t \in States(A, ids)
             PROVE  LET r == After(s, policy, node, t) IN (r = s \/ r.a = t.a) /\ r.act \in {s.act, t.act}
  BY DEF AfterRule
<1> DEFINE r == After(s, policy, node, t)
<1>1. LeftBy(node, policy, s, t, r)
  BY AfterLeaves
<1> HIDE DEF r
<1>2. (r = s \/ r.a = t.a) /\ r.act \in {s.act, t.act}
  BY <1>1 DEF LeftBy
<1> QED
  BY <1>2 DEF r

\* The node does not both split a word and take it apart.
SplitsOnce(node) == ~({"value_separator", "short_form_expander"} \subseteq node.policies)

\* What the phases up to the counts leave says what the line said.
LEMMA CountedSays ==
  ASSUME NEW A, NEW node, Parameters(node), SplitsOnce(node), NEW args0 \in Seq(Words(A)),
         NEW marks, MarksOf(marks, node)
  PROVE  Said(marks, Tokens(Counted(node, args0).a)) = Said(marks, args0)
<1> DEFINE ids == {}
           s0 == Begin(args0)
           s1 == Split1(node, s0)
           s2 == Expand1(node, s1)
           s3 == Enable1(node, s2)
           s4 == Mark1(node, s3)
           s5 == Count1(node, s4)
           Says(s) == Said(marks, Tokens(s.a)) = Said(marks, args0)
<1> HIDE DEF ids
<1>1. s0 \in States(A, ids) /\ s0.a = [p |-> <<>>, u |-> args0]
  BY DEF States, Adapters, Codes, Begin
<1> HIDE DEF s0
<1>2. Says(s0)
  <2>1. Tokens(s0.a) = args0
    BY <1>1, Unclaimed
  <2> QED
    BY <2>1
<1>3. ASSUME NEW s \in States(A, ids)
      PROVE  /\ ValueSeparator(node, s) \in States(A, ids) /\ ShortFormExpander(node, s) \in States(A, ids)
             /\ RuntimeEnable(node, s) \in States(A, ids) /\ TokenEndMarker(node, s) \in States(A, ids)
             /\ MinMaxCount(node, s) \in States(A, ids)
  BY ValueSeparatorTyped, ShortFormExpanderTyped, RuntimeEnableTyped, TokenEndMarkerTyped,
     MinMaxCountTyped
<1>4. ASSUME NEW s \in States(A, ids), NEW policy, NEW t \in States(A, ids)
      PROVE  After(s, policy, node, t) \in States(A, ids)
  BY PhaseTyped
<1>0. \A s, t \in States(A, ids) : \A policy :
        Said(marks, Tokens(t.a)) = Said(marks, Tokens(s.a)) =>
          Said(marks, Tokens(After(s, policy, node, t).a)) = Said(marks, Tokens(s.a))
  <2> SUFFICES ASSUME NEW s \in States(A, ids), NEW t \in States(A, ids), NEW policy,
                      Said(marks, Tokens(t.a)) = Said(marks, Tokens(s.a))
               PROVE  Said(marks, Tokens(After(s, policy, node, t).a)) = Said(marks, Tokens(s.a))
    OBVIOUS
  <2>1. AfterRule(node, A, ids)
    BY AfterFacts
  <2> DEFINE r == After(s, policy, node, t)
  <2>2. r = s \/ r.a = t.a
    BY <2>1 DEF AfterRule
  <2> HIDE DEF r
  <2>3. Said(marks, Tokens(r.a)) = Said(marks, Tokens(s.a))
    BY <2>2
  <2> QED
    BY <2>3 DEF r
<1>5. s1 \in States(A, ids) /\ Says(s1) /\ ("value_separator" \notin node.policies => s1 = s0)
  <2> DEFINE t == ValueSeparator(node, s0)
  <2>1. t \in States(A, ids)
    BY <1>1, <1>3
  <2>2. Said(marks, Tokens(t.a)) = Said(marks, args0)
    <3>1. Separator \in marks
      BY DEF MarksOf
    <3> QED
      BY <1>1, <3>1, SplitSays
  <2> HIDE DEF t
  <2>3. Said(marks, Tokens(After(s0, "value_separator", node, t).a)) = Said(marks, Tokens(s0.a))
    BY <1>1, <1>2, <2>1, <2>2, <1>0
  <2>4. s1 = After(s0, "value_separator", node, t)
    BY DEF Split1, t
  <2>5. "value_separator" \notin node.policies => After(s0, "value_separator", node, t) = s0
    BY DEF After
  <2> HIDE DEF s1
  <2> QED
    BY <1>1, <1>2, <1>4, <2>1, <2>3, <2>4, <2>5
<1> HIDE DEF s1
<1>6. s2 \in States(A, ids) /\ Says(s2)
  <2> DEFINE t == ShortFormExpander(node, s1)
  <2>1. t \in States(A, ids)
    BY <1>3, <1>5
  <2>2. s2 = After(s1, "short_form_expander", node, t)
    BY DEF Expand1
  <2> HIDE DEF t, s2
  <2>3. s2 \in States(A, ids)
    BY <1>4, <1>5, <2>1, <2>2
  <2>4. CASE "short_form_expander" \notin node.policies
    <3>1. s2 = s1
      BY <2>2, <2>4 DEF After
    <3> QED
      BY <1>5, <2>3, <3>1
  <2>5. CASE "short_form_expander" \in node.policies
    <3>1. s1 = s0
      BY <1>5, <2>5 DEF SplitsOnce
    <3>2. s1.a = [p |-> <<>>, u |-> args0]
      BY <1>1, <3>1
    <3>3. Said(marks, Tokens(t.a)) = Said(marks, args0)
      BY <1>5, <3>2, ExpanderSays DEF t
    <3>4. Said(marks, Tokens(After(s1, "short_form_expander", node, t).a)) = Said(marks, Tokens(s1.a))
      BY <1>5, <2>1, <3>3, <1>0
    <3> QED
      BY <1>5, <2>2, <2>3, <3>4
  <2> QED
    BY <2>4, <2>5
<1> HIDE DEF s2
<1>7. s3 \in States(A, ids) /\ Says(s3)
  <2> DEFINE t == RuntimeEnable(node, s2)
  <2>1. t \in States(A, ids)
    BY <1>3, <1>6
  <2>2. s3 = After(s2, "runtime_enable", node, t)
    BY DEF Enable1
  <2>3. t.a = s2.a
    BY <1>6, ActsLight DEF RuntimeEnable
  <2> HIDE DEF t, s3
  <2>4. Said(marks, Tokens(After(s2, "runtime_enable", node, t).a)) = Said(marks, Tokens(s2.a))
    BY <1>6, <2>1, <2>3, <1>0
  <2> QED
    BY <1>4, <1>6, <2>1, <2>2, <2>4
<1> HIDE DEF s3
<1>8. s4 \in States(A, ids) /\ Says(s4)
  <2> DEFINE t == TokenEndMarker(node, s3)
  <2>1. t \in States(A, ids)
    BY <1>3, <1>7
  <2>2. s4 = After(s3, "token_end_marker", node, t)
    BY DEF Mark1
  <2>3. Said(marks, Tokens(t.a)) = Said(marks, Tokens(s3.a))
    BY <1>7, MarkSays
  <2> HIDE DEF t, s4
  <2>4. Said(marks, Tokens(After(s3, "token_end_marker", node, t).a)) = Said(marks, Tokens(s3.a))
    BY <1>7, <2>1, <2>3, <1>0
  <2> QED
    BY <1>4, <1>7, <2>1, <2>2, <2>4
<1> HIDE DEF s4
<1>9. Says(s5)
  <2> DEFINE t == MinMaxCount(node, s4)
  <2>1. t \in States(A, ids)
    BY <1>3, <1>8
  <2>2. s5 = After(s4, "min_max_count", node, t)
    BY DEF Count1
  <2>3. Tokens(t.a) = Tokens(s4.a)
    BY <1>8, CountSays
  <2> HIDE DEF t, s5
  <2>4. Said(marks, Tokens(After(s4, "min_max_count", node, t).a)) = Said(marks, Tokens(s4.a))
    BY <1>8, <2>1, <2>3, <1>0
  <2> QED
    BY <1>8, <2>2, <2>4
<1>10. s5 = Counted(node, args0)
  BY DEF Counted, s4, s3, s2, s1, s0
<1> QED
  BY <1>9, <1>10
-----------------------------------------------------------------------------
\* The targets of a node

\* Only an alias replaces the targets of its node.
LEMMA PlainActs ==
  ASSUME NEW A, NEW ids, NEW node, Parameters(node), NEW s \in States(A, ids)
  PROVE  /\ ValueSeparator(node, s).act # "subs"
         /\ ShortFormExpander(node, s).act # "subs"
         /\ RuntimeEnable(node, s).act # "subs"
         /\ TokenEndMarker(node, s).act # "subs"
         /\ MinMaxCount(node, s).act # "subs"
         /\ \A done : Dependent(node, done, s).act # "subs"
<1>1. /\ Valid(s).act # "subs" /\ SkipNode(s).act # "subs"
      /\ \A code : Error(s, code).act # "subs" /\ Throw(s, code).act # "subs"
      /\ \A b : Valid([s EXCEPT !.a = b]).act # "subs"
  BY DEF Valid, SkipNode, Error, Throw, States
<1>2. ValueSeparator(node, s).act # "subs"
  <2>1. \/ ValueSeparator(node, s) \in {Valid(s), SkipNode(s), Error(s, "missing_value_separator")}
        \/ \E b : ValueSeparator(node, s) = Valid([s EXCEPT !.a = b])
    <3> DEFINE first == First(s.a)
               at    == SelectInSeq(first.name, LAMBDA atom : atom = Separator)
               value == SubSeq(first.name, at + 1, Len(first.name))
               label == SubSeq(first.name, 1, at - 1)
               c     == SetAt(Insert(s.a, 1, <<Token("none", value)>>), 0, Token(first.pre, label))
    <3>1. ValueSeparator(node, s) \in {Valid(s), SkipNode(s), Error(s, "missing_value_separator"),
                                       Valid([s EXCEPT !.a = c])}
      BY DEF ValueSeparator
    <3> HIDE DEF c
    <3> QED
      BY Zenon, <3>1
  <2> QED
    BY <1>1, <2>1
<1>3. ShortFormExpander(node, s).act # "subs"
  <2>1. \/ ShortFormExpander(node, s) \in {Valid(s), Throw(s, "length_error")}
        \/ \E b : ShortFormExpander(node, s) = Valid([s EXCEPT !.a = b])
    <3> DEFINE first == AsLabelOf(node, First(s.a))
               label == Token("short", SubSeq(first.name, 1, Smaller(1, Len(first.name))))
               c     == SetAt(Leave(Transfer(s.a, 0), Rest(first.name)), 0, label)
    <3>1. ShortFormExpander(node, s) \in {Valid(s), Throw(s, "length_error"), Valid([s EXCEPT !.a = c])}
      BY DEF ShortFormExpander
    <3> HIDE DEF c
    <3> QED
      BY Zenon, <3>1
  <2> QED
    BY <1>1, <2>1
<1>4. RuntimeEnable(node, s).act # "subs" /\ \A done : Dependent(node, done, s).act # "subs"
  BY <1>1 DEF RuntimeEnable, Dependent
<1>5. TokenEndMarker(node, s).act # "subs"
  <2>1. \E b : TokenEndMarker(node, s) = Valid([s EXCEPT !.a = b])
    <3>1. PICK it \in Nat : TokenEndMarker(node, s) = Valid([s EXCEPT !.a = Erase(Transfer(s.a, it), it)])
      BY MarkErases
    <3> QED
      BY Zenon, <3>1
  <2> QED
    BY <1>1, <2>1
<1>6. MinMaxCount(node, s).act # "subs"
  <2>1. \/ MinMaxCount(node, s) = Error(s, "maximum_count_exceeded")
        \/ MinMaxCount(node, s) = Error(s, "minimum_count_not_reached")
        \/ \E b : MinMaxCount(node, s) = Valid([s EXCEPT !.a = b])
    <3>1. \/ MinMaxCount(node, s) = Error(s, "maximum_count_exceeded")
          \/ MinMaxCount(node, s) = Error(s, "minimum_count_not_reached")
          \/ \E it \in Int : MinMaxCount(node, s) = Valid([s EXCEPT !.a = Transfer(s.a, it)])
      BY CountTransfers
    <3> QED
      BY Zenon, <3>1
  <2> QED
    BY <1>1, <2>1
<1> QED
  BY <1>2, <1>3, <1>4, <1>5, <1>6

\* A node that is no alias keeps its own targets.
LEMMA NoSubs ==
  ASSUME NEW A, NEW node, Parameters(node), "alias" \notin node.policies,
         NEW children, NEW done, NEW args0 \in Seq(Words(A))
  PROVE  Final(node, children, done, args0).act # "subs"
<1> DEFINE ids == {}
           s0 == Begin(args0)
           s1 == Split1(node, s0)
           s2 == Expand1(node, s1)
           s3 == Enable1(node, s2)
           s4 == Mark1(node, s3)
           s5 == Count1(node, s4)
<1> HIDE DEF ids
<1>1. s0 \in States(A, ids) /\ s0.act # "subs"
  BY DEF States, Adapters, Codes, Begin
<1> HIDE DEF s0
<1>2. ASSUME NEW s \in States(A, ids)
      PROVE  /\ ValueSeparator(node, s) \in States(A, ids) /\ ShortFormExpander(node, s) \in States(A, ids)
             /\ RuntimeEnable(node, s) \in States(A, ids) /\ TokenEndMarker(node, s) \in States(A, ids)
             /\ MinMaxCount(node, s) \in States(A, ids) /\ Dependent(node, done, s) \in States(A, ids)
  BY ValueSeparatorTyped, ShortFormExpanderTyped, RuntimeEnableTyped, TokenEndMarkerTyped,
     MinMaxCountTyped, DependentTyped
<1>3. ASSUME NEW s \in States(A, ids), s.act # "subs", NEW policy, NEW t \in States(A, ids), t.act # "subs"
      PROVE  After(s, policy, node, t) \in States(A, ids) /\ After(s, policy, node, t).act # "subs"
  <2>1. AfterRule(node, A, ids)
    BY AfterFacts
  <2> DEFINE r == After(s, policy, node, t)
  <2>2. r.act \in {s.act, t.act}
    BY <2>1 DEF AfterRule
  <2>3. r \in States(A, ids)
    BY PhaseTyped
  <2> HIDE DEF r
  <2>4. r.act # "subs"
    BY <1>3, <2>2
  <2> QED
    BY <2>3, <2>4 DEF r
<1>4. s1 \in States(A, ids) /\ s1.act # "subs"
  BY <1>1, <1>2, <1>3, PlainActs DEF Split1
<1> HIDE DEF s1
<1>5. s2 \in States(A, ids) /\ s2.act # "subs"
  BY <1>4, <1>2, <1>3, PlainActs DEF Expand1
<1> HIDE DEF s2
<1>6. s3 \in States(A, ids) /\ s3.act # "subs"
  BY <1>5, <1>2, <1>3, PlainActs DEF Enable1
<1> HIDE DEF s3
<1>7. s4 \in States(A, ids) /\ s4.act # "subs"
  BY <1>6, <1>2, <1>3, PlainActs DEF Mark1
<1> HIDE DEF s4
<1>8. s5 \in States(A, ids) /\ s5.act # "subs"
  BY <1>7, <1>2, <1>3, PlainActs DEF Count1
<1>9. s5 = Counted(node, args0)
  BY DEF Counted, s4, s3, s2, s1, s0
<1> HIDE DEF s5
<1>10. Alias1(node, children, s5) = s5
  BY DEF Alias1, After
<1>11. Depend1(node, done, s5).act # "subs"
  BY <1>8, <1>2, <1>3, PlainActs DEF Depend1
<1>12. Final(node, children, done, args0) = Depend1(node, done, Alias1(node, children, Counted(node, args0)))
  BY DEF Final
<1> QED
  BY <1>9, <1>10, <1>11, <1>12
-----------------------------------------------------------------------------
\* What a match explains

\* A label that matches is one of the node's names.
LEMMA LabelForm ==
  ASSUME NEW node, NEW tok, Match(node, tok)
  PROVE  \E f \in Forms : tok.name = node[f] /\ node[f] # <<>>
<1>1. \A pre, x : Token(pre, x).name = x
  BY DEF Token
<1>2. CASE HasLong(node) /\ tok = Token("long", node.long)
  <2>1. tok.name = node["long"] /\ node["long"] # <<>>
    BY <1>1, <1>2 DEF HasLong
  <2> QED
    BY <2>1 DEF Forms
<1>3. CASE HasShort(node) /\ tok = Token("short", node.short)
  <2>1. tok.name = node["short"] /\ node["short"] # <<>>
    BY <1>1, <1>3 DEF HasShort
  <2> QED
    BY <2>1 DEF Forms
<1>4. CASE HasNone(node) /\ tok = Token("none", node.none)
  <2>1. tok.name = node["none"] /\ node["none"] # <<>>
    BY <1>1, <1>4 DEF HasNone
  <2> QED
    BY <2>1 DEF Forms
<1> QED
  BY <1>2, <1>3, <1>4 DEF Match

\* The line said a name of the node, the values, and the rest.
SaysOf(marks, node, f, values, args0, rest) ==
  /\ IsNamed(node) => node[f] # <<>>
  /\ Said(marks, args0) = (Atoms(marks, node[f]) \o Said(marks, values)) \o Said(marks, rest)

\* A match explains the front of the line.
MatchSays(A, marks, node, args0, o) ==
  \E f \in Forms, values \in Seq(Toks(A)) :
    /\ o.targets = <<Target(node.id, values)>>
    /\ SaysOf(marks, node, f, values, args0, o.args)

\* What the name check leaves
LEMMA SettledSays ==
  ASSUME NEW A, NEW node, NEW marks, MarksOf(marks, node), NEW args0 \in Seq(Words(A)),
         NEW w \in Adapters(A), Said(marks, Tokens(w)) = Said(marks, args0),
         IsNamed(node) => w.p # <<>> /\ Match(node, AsLabelOf(node, Head(w.p))),
         NEW values, values = IF IsNamed(node) /\ w.p # <<>> THEN Tail(w.p) ELSE w.p
  PROVE  \E f \in Forms : values \in Seq(Toks(A)) /\ SaysOf(marks, node, f, values, args0, w.u)
<1>1. w.p \in Seq(Toks(A)) /\ w.u \in Seq(Toks(A)) /\ Tokens(w) = w.p \o w.u
  <2>1. PICK p \in Seq(Toks(A)), u \in Seq(Words(A)) :
          w = [p |-> p, u |-> u] /\ Len(p) \in Nat /\ Len(u) \in Nat
    BY AdapterParts
  <2>2. w.p = p /\ w.u = u /\ u \in Seq(Toks(A))
    BY <2>1, WordsAreTokens
  <2> QED
    BY <2>2 DEF Tokens
<1> DEFINE p == w.p
           u == w.u
<1>2. SaidRule(marks, A) /\ AtomsRule(marks, A)
  BY SaidFacts, AtomsFacts
<1> HIDE DEF p, u
<1>3. p \in Seq(Toks(A)) /\ u \in Seq(Toks(A)) /\ Said(marks, args0) = Said(marks, p) \o Said(marks, u)
  BY <1>1, <1>2 DEF SaidRule, p, u
<1>4. CASE IsNamed(node)
  <2>1. p # <<>> /\ values = Tail(p) /\ Match(node, AsLabelOf(node, Head(p)))
    BY <1>4 DEF p
  <2>2. Head(p) \in Toks(A) /\ values \in Seq(Toks(A))
    <3>1. p # <<>>
      BY <2>1
    <3>2. Head(p) \in Toks(A) /\ Tail(p) \in Seq(Toks(A))
      BY ONLY <1>3, <3>1
    <3> QED
      BY <2>1, <3>2
  <2>3. Said(marks, p) = Atoms(marks, Head(p).name) \o Said(marks, values)
    BY <1>3, <2>1, HeadSaid
  <2>4. PICK f \in Forms : AsLabelOf(node, Head(p)).name = node[f] /\ node[f] # <<>>
    BY <2>1, LabelForm
  <2>5. Atoms(marks, node[f]) = Atoms(marks, Head(p).name)
    BY <2>2, <2>4, LabelSaid
  <2> QED
    BY <1>3, <2>2, <2>3, <2>4, <2>5 DEF SaysOf, u
<1>5. CASE ~IsNamed(node)
  <2>1. values = p /\ node["long"] = <<>>
    BY <1>5 DEF p, IsNamed, HasLong
  <2>2. Atoms(marks, node["long"]) = <<>> /\ Said(marks, p) \in Seq(A)
    BY <1>2, <1>3, <2>1 DEF AtomsRule, SaidRule
  <2>3. <<>> \o Said(marks, p) = Said(marks, p)
    BY <2>2
  <2>4. SaysOf(marks, node, "long", values, args0, w.u)
    BY <1>3, <1>5, <2>1, <2>2, <2>3 DEF SaysOf, u
  <2> QED
    BY <1>3, <2>1, <2>4 DEF Forms
<1> QED
  BY <1>4, <1>5

\* A match of a leaf explains the front of the line, and leaves its rest.
LEMMA MatchSaid ==
  ASSUME NEW A, NEW nodes, \A n \in nodes : n.children \in Seq(nodes),
         NEW children \in Seq(nodes), NEW node, Parameters(node), SplitsOnce(node),
         "alias" \notin node.policies, NEW done,
         NEW args0 \in Seq(Words(A)), NEW verdict, NEW o,
         o = PreParseLeaf(node, children, done, args0, verdict), o.kind = "match",
         NEW marks, MarksOf(marks, node)
  PROVE  MatchSays(A, marks, node, args0, o)
<1> DEFINE s  == Counted(node, args0)
           s7 == Final(node, children, done, args0)
           w  == WithLabelClaimed(node, s7)
           values == OwnTokens(node, s7)
<1>1. o = Settle(node, s7, verdict)
  BY LeafSettles
<1>2. s7.act # "subs"
  BY NoSubs
<1>3. Said(marks, Tokens(s.a)) = Said(marks, args0)
  BY CountedSays
<1>4. /\ ~Ended(s7) /\ o.args = w.u /\ LabelMatches(node, s7)
      /\ o.targets = IF s7.subs = <<>> THEN <<Target(node.id, values)>> ELSE s7.subs
  <2> HIDE DEF s7
  <2> QED
    BY <1>1, MatchSettles DEF Ended
<1>5. s7 \in States(A, Settable(node, children)) /\ s7.a = s.a /\ s7.subs = <<>>
  BY <1>4, FinalLoad
<1> HIDE DEF s, s7
<1>6. s7.a \in Adapters(A)
  BY <1>5, ActsLight
<1>7. w \in Adapters(A) /\ Said(marks, Tokens(w)) = Said(marks, args0)
  <2>1. Transfer(s7.a, 0) \in Adapters(A) /\ Tokens(Transfer(s7.a, 0)) = Tokens(s7.a)
    BY <1>6, TransferTyped
  <2>2. w = s7.a \/ w = Transfer(s7.a, 0)
    BY DEF WithLabelClaimed
  <2> HIDE DEF w
  <2> QED
    BY <1>3, <1>5, <1>6, <2>1, <2>2
<1>8. IsNamed(node) => w.p # <<>> /\ Match(node, AsLabelOf(node, Head(w.p)))
  BY <1>2, <1>4 DEF LabelMatches
<1>9. values = IF IsNamed(node) /\ w.p # <<>> THEN Tail(w.p) ELSE w.p
  BY DEF OwnTokens
<1> HIDE DEF w, values
<1>10. \E f \in Forms : values \in Seq(Toks(A)) /\ SaysOf(marks, node, f, values, args0, w.u)
  BY <1>7, <1>8, <1>9, SettledSays
<1> QED
  BY <1>4, <1>5, <1>10 DEF MatchSays
-----------------------------------------------------------------------------
\* What targets tell

\* The node with an id, a node of the mode
NodeIn(children, id) == CHOOSE n \in ToSet(Nodes(children)) : n.id = id

\* What a target was on the line, its node named in the form f
Retold(children, f, target) == <<NodeIn(children, target.node)[f]>> \o Names(target.tokens)

\* What all targets were on the line
RetypedIn(children, form, ts) ==
  FlattenSeq([k \in DOMAIN ts |-> Retold(children, form[k], ts[k])])

\* The node of the target has a name in the form.
HasForm(children, f, target) ==
  IsNamed(NodeIn(children, target.node)) => NodeIn(children, target.node)[f] # <<>>

\* The words that led to a mode
ModeNames(p) == [k \in DOMAIN p |-> p[k].none]

\* The modes, the targets, in some forms, and the tokens that are left are the line.
Tells(children, marks, p, l, ts, q) ==
  \E form \in [DOMAIN ts -> Forms] :
    /\ \A k \in DOMAIN ts : HasForm(children, form[k], ts[k])
    /\ Flat(marks, l) = Flat(marks, ModeNames(p) \o RetypedIn(children, form, ts)) \o Said(marks, q)

\* The names of the nodes among children are texts over S.
NamesTexts(S, children) ==
  \A id \in IdsOf(children) : \A f \in Forms : NodeIn(children, id)[f] \in Seq(S)

\* What a target was is a sequence of texts.
LEMMA RetoldTyped ==
  ASSUME NEW S, NEW children, NamesTexts(S, children), NEW f \in Forms,
         NEW t \in TargetsOf(S, IdsOf(children))
  PROVE  Retold(children, f, t) \in Seq(Seq(S))
<1>1. t.node \in IdsOf(children) /\ t.tokens \in Seq(Toks(S))
  BY DEF TargetsOf
<1>2. NodeIn(children, t.node)[f] \in Seq(S)
  BY <1>1 DEF NamesTexts
<1>3. Names(t.tokens) \in Seq(Seq(S))
  <2>1. SaidRule({}, S)
    BY SaidFacts
  <2> QED
    BY <1>1, <2>1 DEF SaidRule
<1> QED
  BY <1>2, <1>3 DEF Retold

\* A form more
Longer(form, n, f) == [k \in 1 .. n + 1 |-> IF k = n + 1 THEN f ELSE form[k]]

\* One more target stands behind those before it.
RetypedRule(S, children, ts, form, t, f) ==
  /\ RetypedIn(children, form, ts) \in Seq(Seq(S))
  /\ RetypedIn(children, Longer(form, Len(ts), f), Append(ts, t))
       = RetypedIn(children, form, ts) \o Retold(children, f, t)

\* One more target is one more text to tell.
LEMMA RetypedMore ==
  ASSUME NEW S, NEW children, NamesTexts(S, children),
         NEW ts \in Seq(TargetsOf(S, IdsOf(children))), NEW form \in [DOMAIN ts -> Forms],
         NEW t \in TargetsOf(S, IdsOf(children)), NEW f \in Forms
  PROVE  RetypedRule(S, children, ts, form, t, f)
<1> DEFINE n  == Len(ts)
           form2 == Longer(form, n, f)
           ss == [k \in DOMAIN ts |-> Retold(children, form[k], ts[k])]
           s  == Retold(children, f, t)
           T  == TargetsOf(S, IdsOf(children))
           us == Append(ts, t)
           tt == [k \in DOMAIN us |-> Retold(children, form2[k], us[k])]
<1>1. n \in Nat /\ DOMAIN ts = 1 .. n /\ \A k \in 1 .. n : ts[k] \in T /\ form[k] \in Forms
  OBVIOUS
<1>2. s \in Seq(Seq(S))
  BY RetoldTyped
<1>3. \A k \in 1 .. n : Retold(children, form[k], ts[k]) \in Seq(Seq(S))
  BY <1>1, RetoldTyped
<1>4. ss \in Seq(Seq(Seq(S))) /\ Len(ss) = n /\ \A k \in 1 .. n : ss[k] = Retold(children, form[k], ts[k])
  BY <1>1, <1>3
<1>5. /\ us \in Seq(T) /\ DOMAIN us = 1 .. n + 1
      /\ us[n + 1] = t /\ \A k \in 1 .. n : us[k] = ts[k]
  BY <1>1
<1>6. form2[n + 1] = f /\ \A k \in 1 .. n : form2[k] = form[k]
  BY <1>1 DEF Longer
<1> HIDE DEF s, ss, us, T, form2
<1>7. tt = Append(ss, s)
  <2>1. /\ Append(ss, s) \in Seq(Seq(Seq(S))) /\ Len(Append(ss, s)) = n + 1
        /\ Append(ss, s)[n + 1] = s /\ \A k \in 1 .. n : Append(ss, s)[k] = ss[k]
    BY <1>1, <1>2, <1>4, AppendFacts
  <2>2. Append(ss, s) = [k \in 1 .. n + 1 |-> Append(ss, s)[k]]
    <3>1. \A x \in Seq(Seq(Seq(S))) : x = [k \in 1 .. Len(x) |-> x[k]]
      OBVIOUS
    <3> QED
      BY <2>1, <3>1
  <2>3. ASSUME NEW k \in 1 .. n + 1 PROVE Retold(children, form2[k], us[k]) = Append(ss, s)[k]
    <3>1. CASE k = n + 1
      BY <1>5, <1>6, <2>1, <3>1 DEF s
    <3>2. CASE k # n + 1
      <4>1. k \in 1 .. n
        BY <1>1, <3>2
      <4> QED
        BY <1>4, <1>5, <1>6, <2>1, <4>1
    <3> QED
      BY <3>1, <3>2
  <2>4. tt = [k \in 1 .. n + 1 |-> Retold(children, form2[k], us[k])]
    BY <1>5
  <2> HIDE DEF tt
  <2>5. [k \in 1 .. n + 1 |-> Retold(children, form2[k], us[k])]
          = [k \in 1 .. n + 1 |-> Append(ss, s)[k]]
    BY <2>3
  <2> QED
    BY <2>2, <2>4, <2>5
<1>8. FlattenSeq(Append(ss, s)) = FlattenSeq(ss) \o s /\ FlattenSeq(ss) \in Seq(Seq(S))
  BY <1>2, <1>4, FlattenMore, FlattenElements
<1>9. RetypedIn(children, form, ts) = FlattenSeq(ss) /\ RetypedIn(children, form2, us) = FlattenSeq(tt)
  BY DEF RetypedIn, ss
<1> QED
  BY <1>7, <1>8, <1>9 DEF s, us, form2, RetypedRule

\* A match tells more of the line.
LEMMA TellsMore ==
  ASSUME NEW S, NEW marks, NEW children, NamesTexts(S, children),
         NEW p, ModeNames(p) \in Seq(Seq(S)), NEW l,
         NEW ts \in Seq(TargetsOf(S, IdsOf(children))),
         NEW q \in Seq(Toks(S)), NEW rest \in Seq(Toks(S)), Tells(children, marks, p, l, ts, q),
         NEW node, NEW f \in Forms, NEW values \in Seq(Toks(S)),
         NodeIn(children, node.id) = node, node.id \in IdsOf(children),
         SaysOf(marks, node, f, values, q, rest)
  PROVE  Tells(children, marks, p, l, ts \o <<Target(node.id, values)>>, rest)
<1> DEFINE n == Len(ts)
           t == Target(node.id, values)
           us == Append(ts, t)
<1>1. t \in TargetsOf(S, IdsOf(children)) /\ t.node = node.id /\ t.tokens = values
  BY DEF Target, TargetsOf
<1>2. PICK form \in [DOMAIN ts -> Forms] :
        /\ \A k \in DOMAIN ts : HasForm(children, form[k], ts[k])
        /\ Flat(marks, l) = Flat(marks, ModeNames(p) \o RetypedIn(children, form, ts)) \o Said(marks, q)
  BY DEF Tells
<1> DEFINE form2 == Longer(form, n, f)
<1> HIDE DEF t
<1>3. /\ n \in Nat /\ DOMAIN ts = 1 .. n /\ us = ts \o <<t>> /\ DOMAIN us = 1 .. n + 1
      /\ us[n + 1] = t /\ \A k \in 1 .. n : us[k] = ts[k]
  BY <1>1
<1>4. /\ form2 \in [1 .. n + 1 -> Forms] /\ form2[n + 1] = f /\ \A k \in 1 .. n : form2[k] = form[k]
  BY <1>2, <1>3 DEF Longer
<1> DEFINE M == ModeNames(p)
           R == RetypedIn(children, form, ts)
           s == Retold(children, f, t)
<1>5. R \in Seq(Seq(S)) /\ RetypedIn(children, form2, us) = R \o s /\ s \in Seq(Seq(S))
  <2> HIDE DEF R, s
  <2>1. R \in Seq(Seq(S)) /\ RetypedIn(children, form2, us) = R \o s
    <3>1. RetypedRule(S, children, ts, form, t, f)
      BY <1>1, <1>2, RetypedMore
    <3> QED
      BY <3>1 DEF R, s, RetypedRule
  <2>2. s \in Seq(Seq(S))
    BY <1>1, RetoldTyped DEF s
  <2> QED
    BY <2>1, <2>2
<1>6. \A k \in DOMAIN us : HasForm(children, form2[k], us[k])
  <2>1. HasForm(children, f, t)
    BY <1>1 DEF HasForm, SaysOf
  <2>2. ASSUME NEW k \in 1 .. n + 1 PROVE HasForm(children, form2[k], us[k])
    <3>1. CASE k = n + 1
      BY <1>3, <1>4, <2>1, <3>1
    <3>2. CASE k # n + 1
      <4>1. k \in 1 .. n
        BY <1>3, <3>2
      <4> QED
        BY <1>2, <1>3, <1>4, <4>1
    <3> QED
      BY <3>1, <3>2
  <2> QED
    BY <1>3, <2>2
<1> HIDE DEF us, form2, R
<1>7. M \in Seq(Seq(S)) /\ FlatRule(marks, S) /\ SaidRule(marks, S) /\ AtomsRule(marks, S)
  BY FlatFacts, SaidFacts, AtomsFacts
<1> HIDE DEF M
<1>8. node[f] \in Seq(S) /\ s = <<node[f]>> \o Names(values) /\ Names(values) \in Seq(Seq(S))
  BY <1>1, <1>7 DEF Retold, NamesTexts, SaidRule
<1> HIDE DEF s
<1> DEFINE at == Atoms(marks, node[f])
           sv == Said(marks, values)
           sr == Said(marks, rest)
           h  == Flat(marks, M \o R)
<1>9. at \in Seq(S) /\ sv \in Seq(S) /\ sr \in Seq(S) /\ h \in Seq(S)
  <2>1. M \o R \in Seq(Seq(S))
    BY <1>5, <1>7, ConcatFacts
  <2> QED
    BY <1>7, <1>8, <2>1 DEF AtomsRule, SaidRule, FlatRule
<1>10. Flat(marks, s) = at \o sv
  <2>1. <<node[f]>> \in Seq(Seq(S))
    BY <1>8
  <2>2. Flat(marks, <<node[f]>> \o Names(values)) = Flat(marks, <<node[f]>>) \o Flat(marks, Names(values))
    BY <1>7, <1>8, <2>1 DEF FlatRule
  <2>3. Flat(marks, <<node[f]>>) = at
    BY <1>7, <1>8 DEF FlatRule
  <2> QED
    BY <1>8, <2>2, <2>3 DEF Said
<1>11. Flat(marks, M \o (R \o s)) = h \o (at \o sv)
  <2>1. M \o (R \o s) = (M \o R) \o s /\ M \o R \in Seq(Seq(S))
    <3> DEFINE T == Seq(S)
    <3>1. M \in Seq(T) /\ R \in Seq(T) /\ s \in Seq(T)
      BY <1>5, <1>7
    <3> HIDE DEF T
    <3>2. M \o (R \o s) = (M \o R) \o s
      BY ONLY <3>1
    <3>3. M \o R \in Seq(T)
      BY ONLY <3>1, ConcatFacts
    <3> QED
      BY <3>2, <3>3 DEF T
  <2>2. Flat(marks, (M \o R) \o s) = h \o Flat(marks, s)
    BY <1>5, <1>7, <2>1 DEF FlatRule
  <2> QED
    BY <1>10, <2>1, <2>2
<1>12. Said(marks, q) = (at \o sv) \o sr
  BY DEF SaysOf
<1>13. Flat(marks, l) = h \o Said(marks, q)
  BY <1>2 DEF M, R
<1> HIDE DEF at, sv, sr, h
<1>14. h \o ((at \o sv) \o sr) = (h \o (at \o sv)) \o sr
  <2>1. at \o sv \in Seq(S)
    BY <1>9, ConcatFacts
  <2> QED
    BY ONLY <1>9, <2>1
<1>15. Flat(marks, l) = Flat(marks, M \o RetypedIn(children, form2, us)) \o sr
  BY <1>5, <1>11, <1>12, <1>13, <1>14
<1>16. Tells(children, marks, p, l, us, rest)
  BY <1>3, <1>4, <1>6, <1>15 DEF Tells, M, sr
<1> QED
  BY <1>3, <1>16 DEF t
-----------------------------------------------------------------------------
\* The modes

\* The words that led to a mode, and the words behind them, are the line.
LEMMA ModesSay ==
  ASSUME NEW S, NEW marks, NEW P, NEW p \in Seq(P), NEW l \in Seq(Seq(S)), NEW q \in Seq(Toks(S)),
         Entered(p, l, q)
  PROVE  Flat(marks, l) = Flat(marks, ModeNames(p)) \o Said(marks, q)
<1> DEFINE M == ModeNames(p)
           N == Names(q)
           m == Len(p)
<1>1. /\ m \in Nat /\ DOMAIN p = 1 .. m /\ Len(l) \in Nat /\ Len(q) \in Nat /\ DOMAIN q = 1 .. Len(q)
      /\ \A k \in 1 .. Len(l) : l[k] \in Seq(S)
  OBVIOUS
<1>2. /\ m <= Len(l) /\ Len(q) = Len(l) - m
      /\ \A k \in 1 .. Len(q) : q[k] = Raw(l[m + k])
      /\ \A k \in 1 .. m : l[k] = p[k].none
  BY DEF Entered
<1>3. \A x : Raw(x).name = x
  BY DEF Raw, Token
<1> HIDE DEF m
<1>4. M \in Seq(Seq(S)) /\ Len(M) = m /\ \A k \in 1 .. m : M[k] = l[k]
  <2>1. \A k \in 1 .. m : p[k].none = l[k] /\ l[k] \in Seq(S)
    BY <1>1, <1>2
  <2>2. M = [k \in 1 .. m |-> p[k].none]
    BY <1>1 DEF ModeNames
  <2> HIDE DEF M
  <2>3. M = [k \in 1 .. m |-> l[k]]
    BY <2>1, <2>2
  <2> QED
    BY <1>1, <2>1, <2>3
<1>5. N \in Seq(Seq(S)) /\ Len(N) = Len(l) - m /\ \A k \in 1 .. Len(l) - m : N[k] = l[k + m]
  <2>1. SaidRule(marks, S)
    BY SaidFacts
  <2>2. N \in Seq(Seq(S))
    BY <2>1 DEF SaidRule
  <2>3. N = [k \in 1 .. Len(q) |-> q[k].name]
    BY <1>1 DEF Names
  <2>4. \A k \in 1 .. Len(q) : q[k].name = l[k + m]
    <3> SUFFICES ASSUME NEW k \in 1 .. Len(q) PROVE q[k].name = l[k + m]
      OBVIOUS
    <3>1. m + k = k + m
      BY <1>1
    <3> QED
      BY <1>2, <1>3, <3>1
  <2> HIDE DEF N
  <2> QED
    BY <1>1, <1>2, <2>2, <2>3, <2>4
<1> HIDE DEF M, N
<1>6. m \in 0 .. Len(l)
  BY <1>1, <1>2
<1>7. M \o N = l
  BY ONLY <1>4, <1>5, <1>6, l \in Seq(Seq(S)), Parts
<1>8. FlatRule(marks, S)
  BY FlatFacts
<1> QED
  BY <1>4, <1>5, <1>7, <1>8 DEF FlatRule, Said, M, N

\* Without a target the names of the modes and the tokens tell the line.
LEMMA NothingTold ==
  ASSUME NEW S, NEW marks, NEW children, NEW p, ModeNames(p) \in Seq(Seq(S)), NEW l, NEW q,
         Flat(marks, l) = Flat(marks, ModeNames(p)) \o Said(marks, q)
  PROVE  Tells(children, marks, p, l, <<>>, q)
<1> DEFINE N == <<>>
<1>1. RetypedIn(children, N, N) = <<>>
  BY FlattenNone DEF RetypedIn
<1>2. ModeNames(p) \o <<>> = ModeNames(p)
  OBVIOUS
<1>3. N \in [DOMAIN N -> Forms] /\ \A k \in DOMAIN N : HasForm(children, N[k], N[k])
  OBVIOUS
<1> HIDE DEF N
<1>4. Flat(marks, l) = Flat(marks, ModeNames(p) \o RetypedIn(children, N, N)) \o Said(marks, q)
  BY <1>1, <1>2
<1>5. Tells(children, marks, p, l, N, q)
  BY <1>3, <1>4 DEF Tells
<1> QED
  BY <1>5 DEF N

\* The names of the modes tell the line before the first target.
LEMMA EnteredTells ==
  ASSUME NEW S, NEW marks, NEW children, NEW P, NEW p \in Seq(P), NEW l \in Seq(Seq(S)),
         NEW q \in Seq(Toks(S)), Entered(p, l, q)
  PROVE  Tells(children, marks, p, l, <<>>, q) /\ ModeNames(p) \in Seq(Seq(S))
<1>1. ModeNames(p) \in Seq(Seq(S))
  <2>1. \A k \in 1 .. Len(p) : p[k].none = l[k] /\ l[k] \in Seq(S)
    <3>1. Len(p) \in Nat /\ Len(l) \in Nat /\ \A k \in 1 .. Len(l) : l[k] \in Seq(S)
      OBVIOUS
    <3>2. Len(p) <= Len(l) /\ \A k \in 1 .. Len(p) : l[k] = p[k].none
      BY DEF Entered
    <3> QED
      BY <3>1, <3>2
  <2>2. ModeNames(p) = [k \in 1 .. Len(p) |-> p[k].none]
    BY DEF ModeNames
  <2> QED
    BY <2>1, <2>2
<1>2. Flat(marks, l) = Flat(marks, ModeNames(p)) \o Said(marks, q)
  BY ModesSay
<1> QED
  BY <1>1, <1>2, NothingTold

\* An anonymous mode tells nothing.
LEMMA AnonymousTells ==
  ASSUME NEW S, NEW marks, NEW children, NEW m, ~IsNamed(m), NEW l \in Seq(Seq(S)),
         NEW q \in Seq(Toks(S)), Entered(<<>>, l, q)
  PROVE  Tells(children, marks, <<m>>, l, <<>>, q)
<1>1. m.none = <<>>
  BY DEF IsNamed, HasNone
<1>2. ModeNames(<<m>>) = << <<>> >> /\ ModeNames(<<>>) = <<>>
  BY <1>1 DEF ModeNames
<1>3. <<>> \in Seq({m})
  OBVIOUS
<1>4. Flat(marks, l) = Flat(marks, ModeNames(<<>>)) \o Said(marks, q)
  BY <1>3, ModesSay
<1>5. FlatRule(marks, S) /\ AtomsRule(marks, S) /\ <<>> \in Seq(S)
  BY FlatFacts, AtomsFacts
<1>6. Flat(marks, << <<>> >>) = <<>> /\ Flat(marks, <<>>) = <<>>
  BY <1>5 DEF FlatRule, AtomsRule
<1>7. Flat(marks, l) = Flat(marks, ModeNames(<<m>>)) \o Said(marks, q)
  BY <1>2, <1>4, <1>6
<1>8. ModeNames(<<m>>) \in Seq(Seq(S))
  <2>1. \A x \in Seq(S) : <<x>> \in Seq(Seq(S))
    OBVIOUS
  <2> QED
    BY <1>2, <1>5, <2>1
<1> QED
  BY <1>7, <1>8, NothingTold

\* Wider sets of atoms
LEMMA Wider ==
  ASSUME NEW A, NEW S, A \subseteq S
  PROVE  /\ Seq(A) \subseteq Seq(S) /\ Seq(Seq(A)) \subseteq Seq(Seq(S))
         /\ Toks(A) \subseteq Toks(S) /\ Seq(Toks(A)) \subseteq Seq(Toks(S))
<1>1. Seq(A) \subseteq Seq(S)
  OBVIOUS
<1>2. Toks(A) \subseteq Toks(S)
  BY <1>1 DEF Toks
<1>3. Seq(Seq(A)) \subseteq Seq(Seq(S))
  BY <1>1
<1>4. Seq(Toks(A)) \subseteq Seq(Toks(S))
  BY <1>2
<1> QED
  BY <1>1, <1>2, <1>3, <1>4
-----------------------------------------------------------------------------
\* The whole line

\* What the theorem on the whole line asks of the trees
LineRules(nodes, A) == GroupRules(nodes, A) /\ ModeRules(nodes) /\ SplitOnce(nodes)

\* The line has been parsed to its end: the loop is over.
LineParsed == phase \in {"leaf", "run", "missing", "stages"} \/ answer = "routed"

\* As far as the line has been parsed, the targets and the tokens that are left
\* tell it.
ToldSoFar ==
  ~HasAlias =>
    /\ phase = "loop" \/ LineParsed => Tells(Children, Marks, path, line, targets, args)
    /\ LineParsed => args = <<>>

\* The state in terms of atoms of words and names
Told(S) ==
  /\ NamesTexts(S, Children) /\ ModeNames(path) \in Seq(Seq(S))
  /\ targets \in Seq(TargetsOf(S, IdsOf(Children)))
  /\ args \in Seq(Toks(S)) /\ line \in Seq(Seq(S))
  /\ \A n \in ToSet(Nodes(Children)) : NodeIn(Children, n.id) = n /\ n.id \in IdsOf(Children)

\* The state is made of such atoms.
LEMMA ToldTyped ==
  ASSUME NEW nodes, NEW A, LineRules(nodes, A), Typing(nodes, A), NEW S, S = A \cup STRING
  PROVE  Told(S)
<1>1. A \subseteq S /\ STRING \subseteq S
  OBVIOUS
<1> HIDE DEF Told
<1>2. /\ Seq(A) \subseteq Seq(S) /\ Seq(Seq(A)) \subseteq Seq(Seq(S))
      /\ Toks(A) \subseteq Toks(S) /\ Seq(Toks(A)) \subseteq Seq(Toks(S))
      /\ Seq(STRING) \subseteq Seq(S)
  BY ONLY <1>1, Wider
<1>3. /\ Children \in Seq(nodes) /\ \A n \in nodes : n.children \in Seq(nodes)
      /\ args \in Seq(Words(A)) /\ path \in Seq(Modes(nodes)) /\ line \in Seq(tree.words)
      /\ tree \in Trees /\ targets \in Seq(TargetsOf(A, IdsOf(Children)))
  BY ChildrenTyped DEF Typing, LineRules, GroupRules, TreesOf
<1>4. ToSet(Nodes(Children)) \subseteq nodes
  BY <1>3, ChildAmongNodes
<1>5. \A n \in ToSet(Nodes(Children)) : NodeIn(Children, n.id) = n /\ n.id \in IdsOf(Children)
  <2>1. \A m, n \in ToSet(Nodes(Children)) : m.id = n.id => m = n
    BY ChildrenAreSiblings DEF LineRules, GroupRules, DistinctIds
  <2> QED
    BY <2>1 DEF NodeIn, IdsOf
<1>6. \A n \in nodes, f \in Forms : n[f] \in Seq(S)
  <2>1. \A n \in nodes : n.long \in Seq(STRING) /\ n.short \in Seq(STRING) /\ n.none \in Seq(STRING)
    BY DEF LineRules, GroupRules, LeavesInGroups
  <2>2. \A n \in nodes : n["long"] \in Seq(S) /\ n["short"] \in Seq(S) /\ n["none"] \in Seq(S)
    BY <1>2, <2>1
  <2> QED
    BY <2>2 DEF Forms
<1>7. NamesTexts(S, Children)
  BY <1>4, <1>5, <1>6 DEF NamesTexts, IdsOf
<1>8. ModeNames(path) \in Seq(Seq(S))
  <2>1. \A k \in 1 .. Len(path) : path[k] \in nodes
    BY <1>3 DEF Modes
  <2>2. \A k \in 1 .. Len(path) : path[k].none \in Seq(S)
    <3>1. \A n \in nodes : n["none"] \in Seq(S)
      BY <1>6 DEF Forms
    <3> QED
      BY <2>1, <3>1
  <2>3. ModeNames(path) = [k \in 1 .. Len(path) |-> path[k].none] /\ Len(path) \in Nat
    BY <1>3 DEF ModeNames
  <2> QED
    BY <2>2, <2>3
<1>9. targets \in Seq(TargetsOf(S, IdsOf(Children)))
  <2> DEFINE T == TargetsOf(A, IdsOf(Children))
             U == TargetsOf(S, IdsOf(Children))
  <2>1. T \subseteq U
    BY <1>2 DEF TargetsOf
  <2>2. targets \in Seq(T)
    BY <1>3
  <2> HIDE DEF T, U
  <2>3. targets \in Seq(U)
    BY <2>1, <2>2
  <2> QED
    BY <2>3 DEF U
<1>10. args \in Seq(Toks(S))
  BY <1>2, <1>3, WordsAreTokens
<1>11. line \in Seq(Seq(S))
  <2>1. tree.words \subseteq Seq(S)
    BY <1>2, <1>3 DEF LineRules, GroupRules, TreesOf
  <2> QED
    BY <1>3, <2>1
<1> QED
  BY <1>5, <1>7, <1>8, <1>9, <1>10, <1>11 DEF Told

\* The prefixes, the separator and every node's marker are marks.
LEMMA MarksAll == \A n \in ToSet(Nodes(Children)) : MarksOf(Marks, n)
  BY DEF Marks, MarksOf

\* A match of a leaf goes on telling the line.
LEMMA MatchTells ==
  ASSUME NEW nodes, NEW A, LineRules(nodes, A), Typing(nodes, A), ~HasAlias,
         NEW m \in ToSet(Nodes(Children)), NEW done, NEW verdict, NEW o,
         o = PreParseLeaf(m, Children, done, args, verdict), o.kind = "match",
         Tells(Children, Marks, path, line, targets, args)
  PROVE  Tells(Children, Marks, path, line, targets \o o.targets, o.args)
<1>1. /\ Children \in Seq(nodes) /\ \A n \in nodes : n.children \in Seq(nodes)
      /\ args \in Seq(Words(A))
  BY ChildrenTyped DEF Typing, LineRules, GroupRules, TreesOf
<1>2. m \in nodes
  BY <1>1, ChildAmongNodes
<1>3. Parameters(m) /\ SplitsOnce(m) /\ "alias" \notin m.policies
  BY <1>2 DEF Parameters, LineRules, GroupRules, TreesOf, SplitOnce, SplitsOnce, HasAlias
<1>4. MarksOf(Marks, m)
  BY MarksAll
<1>5. MatchSays(A, Marks, m, args, o)
  BY <1>1, <1>3, <1>4, MatchSaid
<1>6. PICK f \in Forms, values \in Seq(Toks(A)) :
        o.targets = <<Target(m.id, values)>> /\ SaysOf(Marks, m, f, values, args, o.args)
  BY <1>5 DEF MatchSays
<1>7. o.args \in Seq(Toks(A))
  BY <1>1, <1>3, LeafTyped, WordsAreTokens DEF WellTyped
<1> DEFINE S == A \cup STRING
<1>8. Told(S) /\ Seq(Toks(A)) \subseteq Seq(Toks(S))
  <2>1. A \subseteq S
    OBVIOUS
  <2>2. Told(S)
    BY ToldTyped
  <2> HIDE DEF S
  <2>3. Seq(Toks(A)) \subseteq Seq(Toks(S))
    BY ONLY <2>1, Wider
  <2> QED
    BY <2>2, <2>3
<1> HIDE DEF S
<1>9. values \in Seq(Toks(S)) /\ o.args \in Seq(Toks(S))
  BY <1>6, <1>7, <1>8
<1>10. Tells(Children, Marks, path, line, targets \o <<Target(m.id, values)>>, o.args)
  BY <1>6, <1>8, <1>9, TellsMore DEF Told
<1> QED
  BY <1>6, <1>10
-----------------------------------------------------------------------------
\* Steps that leave the line, the targets and the tokens alone
LEMMA ToldKept ==
  ASSUME ToldSoFar, UNCHANGED <<tree, path, line, targets, args>>,
         phase' = "loop" \/ LineParsed' => phase = "loop" \/ LineParsed,
         LineParsed' => LineParsed \/ args = <<>>
  PROVE  ToldSoFar'
<1>1. Children' = Children
  BY DEF Children, Mode
<1>2. HasAlias' = HasAlias /\ Marks' = Marks
  BY <1>1 DEF HasAlias, Marks
<1>3. Tells(Children, Marks, path, line, targets, args)' = Tells(Children, Marks, path, line, targets, args)
  BY <1>1, <1>2
<1> QED
  BY <1>2, <1>3 DEF ToldSoFar

\* A step that adds the targets of a match goes on telling the line.
LEMMA ToldByMatch ==
  ASSUME NEW nodes, NEW A, LineRules(nodes, A), Typing(nodes, A),
         ~HasAlias => Tells(Children, Marks, path, line, targets, args),
         NEW m \in ToSet(Nodes(Children)), NEW done, NEW verdict, NEW o,
         o = PreParseLeaf(m, Children, done, args, verdict), o.kind = "match",
         UNCHANGED <<tree, path, line>>, targets' = targets \o o.targets, args' = o.args,
         LineParsed' => args' = <<>>
  PROVE  ToldSoFar'
<1>1. Children' = Children
  BY DEF Children, Mode
<1>2. HasAlias' = HasAlias /\ Marks' = Marks
  BY <1>1 DEF HasAlias, Marks
<1>3. ~HasAlias => Tells(Children, Marks, path, line, targets \o o.targets, o.args)
  BY MatchTells
<1> QED
  BY <1>1, <1>2, <1>3 DEF ToldSoFar

\* The first mode or leaf
LEMMA ToldAtFirst ==
  ASSUME NEW nodes, NEW A, LineRules(nodes, A), Typing(nodes, A), Entered(path, line, args),
         targets = <<>>
  PROVE  /\ Tells(Children, Marks, path, line, targets, args)
         /\ path = <<>> => \A c, m, n : ~IsNamed(n) => Tells(c, m, <<n>>, line, targets, args)
<1> DEFINE S == A \cup STRING
<1>1. Told(S)
  BY ToldTyped
<1> HIDE DEF S
<1>2. args \in Seq(Toks(S)) /\ line \in Seq(Seq(S)) /\ path \in Seq(Modes(nodes))
  BY <1>1 DEF Told, Typing
<1>3. \A c, m : Tells(c, m, path, line, <<>>, args)
  BY <1>2, EnteredTells
<1>4. path = <<>> => \A c, m, n : ~IsNamed(n) => Tells(c, m, <<n>>, line, <<>>, args)
  BY <1>2, AnonymousTells
<1> QED
  BY <1>3, <1>4

\* Every step of a call goes on telling the line.
LEMMA ToldStep ==
  ASSUME NEW nodes, NEW A, LineRules(nodes, A)
  PROVE  Typing(nodes, A) /\ Running /\ Deep /\ ToldSoFar /\ [Next]_vars => ToldSoFar'
<1> SUFFICES ASSUME Typing(nodes, A), Running, Deep, ToldSoFar, [Next]_vars PROVE ToldSoFar'
  OBVIOUS
<1>1. /\ Children \in Seq(nodes) /\ \A n \in nodes : n.children \in Seq(nodes)
      /\ i <= Len(Children) => i \in DOMAIN Children /\ Child \in ToSet(Nodes(Children))
  <2>1. /\ Children \in Seq(nodes) /\ \A n \in nodes : n.children \in Seq(nodes)
        /\ i <= Len(Children) => Child \in ToSet(Children)
    BY ChildrenTyped DEF LineRules, GroupRules, TreesOf
  <2> QED
    BY <2>1, ChildAmongNodes DEF Typing
<1>2. /\ phase \in {"root", "submode"} => Entered(path, line, args) /\ targets = <<>>
      /\ phase = "root" => path = <<>>
      /\ phase # "idle" => answer = "none"
  BY DEF Deep, EnteredSoFar, Typing, Running
<1>3. ASSUME NextChild PROVE ToldSoFar'
  BY <1>3, ToldKept DEF NextChild, LineParsed
<1>4. ASSUME NEW code, Fail(code) PROVE ToldSoFar'
  BY <1>4, ToldKept DEF Fail, LineParsed
<1>5. CASE RootLeaf
  <2>1. phase = "root" /\ i <= Len(Children)
    BY <1>5 DEF RootLeaf
  <2>2. PICK o : /\ o = PreParseLeaf(Child, Children, {}, args, "accept")
                 /\ \/ o.kind = "none" /\ NextChild
                    \/ o.kind = "error" /\ Fail(o.code)
                    \/ o.kind = "match" /\ o.args # <<>> /\ Fail("unhandled_arguments")
                    \/ /\ o.kind = "match" /\ o.args = <<>> /\ args' = o.args /\ targets' = o.targets
                       /\ UNCHANGED <<tree, line, path>>
    BY <1>5 DEF RootLeaf
  <2>3. CASE /\ o.kind = "match" /\ o.args = <<>> /\ args' = o.args /\ targets' = o.targets
             /\ UNCHANGED <<tree, line, path>>
    <3>1. targets \o o.targets = o.targets
      <4>1. WellTyped(A, Child, Children, o)
        <5>1. Parameters(Child) /\ args \in Seq(Words(A))
          BY <1>1, <2>1, ChildAmongNodes DEF Parameters, LineRules, GroupRules, TreesOf, Typing
        <5> QED
          BY <1>1, <2>2, <5>1, LeafTyped
      <4> DEFINE T == TargetsOf(A, Settable(Child, Children))
      <4>2. o.targets \in Seq(T)
        BY <2>3, <4>1 DEF WellTyped
      <4> HIDE DEF T
      <4>3. \A x \in Seq(T) : <<>> \o x = x
        OBVIOUS
      <4> QED
        BY <1>2, <2>1, <4>2, <4>3
    <3>2. Tells(Children, Marks, path, line, targets, args)
      BY <1>2, <2>1, ToldAtFirst
    <3> QED
      BY <1>1, <2>1, <2>2, <2>3, <3>1, <3>2, ToldByMatch
  <2> QED
    BY <1>3, <1>4, <2>2, <2>3
<1>6. ASSUME NEW rest, Enter(Child, rest, "submode"), phase # "idle" PROVE ToldSoFar'
  BY <1>2, <1>6 DEF Enter, ToldSoFar, LineParsed
<1>7. CASE RootMode
  <2>1. phase = "root" /\ i <= Len(Children) /\ phase # "idle"
    BY <1>7 DEF RootMode
  <2>2. CASE ~IsNamed(Child) /\ Enter(Child, args, "loop")
    <3>1. /\ path' = <<Child>> /\ UNCHANGED <<line, targets, args>> /\ phase' = "loop" /\ answer' = answer
      BY <1>2, <2>1, <2>2 DEF Enter
    <3>2. Tells(Children', Marks', <<Child>>, line, targets, args)
      BY <1>2, <2>1, <2>2, ToldAtFirst
    <3>3. ~LineParsed'
      BY <1>2, <2>1, <3>1 DEF LineParsed
    <3> QED
      BY <3>1, <3>2, <3>3 DEF ToldSoFar
  <2> QED
    BY <1>3, <1>6, <1>7, <2>1, <2>2 DEF RootMode
<1>8. CASE SubMode
  <2>1. phase # "idle"
    BY <1>8 DEF SubMode
  <2> QED
    BY <1>3, <1>6, <1>8, <2>1 DEF SubMode
<1>9. CASE NoSubMode
  <2>1. /\ UNCHANGED <<tree, path, line, targets, args, answer>> /\ phase = "submode" /\ phase' = "loop"
    BY <1>9 DEF NoSubMode
  <2>2. Tells(Children, Marks, path, line, targets, args)
    BY <1>2, <2>1, ToldAtFirst
  <2>3. Children' = Children
    BY <2>1 DEF Children, Mode
  <2>4. Marks' = Marks
    BY <2>3 DEF Marks
  <2>5. ~LineParsed'
    BY <1>2, <2>1 DEF LineParsed
  <2> QED
    BY <2>1, <2>2, <2>3, <2>4, <2>5 DEF ToldSoFar
<1>10. CASE TryChild
  <2>1. i <= Len(Children) /\ phase = "loop"
    BY <1>10 DEF TryChild
  <2>2. CASE Child.kind = "mode"
    BY <1>3, <1>10, <2>2 DEF TryChild
  <2>3. CASE Child.kind # "mode"
    <3>1. PICK r : /\ r = PreParse(Child, Children, Done, args, Selected(Child.id), i \in matched)
                   /\ \/ r.o.kind = "none" /\ NextChild
                      \/ r.o.kind = "error" /\ Fail(r.o.code)
                      \/ /\ r.o.kind = "match"
                         /\ args' = Taken(r.o)
                         /\ targets' = targets \o r.o.targets
                         /\ UNCHANGED <<tree, line, phase, path, answer>>
      BY <1>10, <2>3 DEF TryChild
    <3>2. CASE /\ r.o.kind = "match" /\ args' = Taken(r.o) /\ targets' = targets \o r.o.targets
               /\ UNCHANGED <<tree, line, phase, path, answer>>
      <4>1. /\ Child.children \in Seq(nodes) /\ Child = Children[i] /\ i \in DOMAIN Children
        BY <1>1, <2>1 DEF Child
      <4>2. PICK n \in Leaves(Child) :
              \E verdict : r.o = PreParseLeaf(n, Children, Done, args, verdict)
        <5>1. /\ r = PreParse(Child, Children, Done, args, Selected(Child.id), i \in matched)
              /\ r.o.kind # "none"
          BY <3>1, <3>2
        <5>2. Child.children \in Seq(nodes)
          BY <4>1
        <5> QED
          BY <5>1, <5>2, PreParseTries
      <4>3. PICK verdict : r.o = PreParseLeaf(n, Children, Done, args, verdict)
        BY <4>2
      <4>4. n \in ToSet(Nodes(Children))
        BY <2>3, <4>1, LeavesTyped DEF LineRules
      <4>5. ~HasAlias => Tells(Children, Marks, path, line, targets, args)
        BY <2>1 DEF ToldSoFar
      <4>6. ~LineParsed'
        BY <1>2, <2>1, <3>2 DEF LineParsed
      <4>7. args' = r.o.args
        BY <3>2 DEF Taken
      <4> QED
        BY <3>2, <4>3, <4>4, <4>5, <4>6, <4>7, ToldByMatch
    <3> QED
      BY <1>3, <1>4, <3>1, <3>2
  <2> QED
    BY <2>2, <2>3
<1>11. CASE RootUnknown \/ NoChild
  BY <1>4, <1>11 DEF RootUnknown, NoChild
<1>12. CASE LoopEnd \/ RunEnd \/ MissingEnd
  BY <1>2, <1>12, ToldKept DEF LoopEnd, RunEnd, MissingEnd, LineParsed
<1>13. CASE RunTarget
  <2>1. (\E code : Fail(code)) \/ UNCHANGED <<tree, path, line, targets, args, phase, answer>>
    BY <1>13 DEF RunTarget
  <2> QED
    BY <1>4, <2>1, ToldKept DEF LineParsed
<1>14. CASE Missing
  <2>1. NextChild \/ (\E code : Fail(code)) \/ UNCHANGED <<tree, path, line, targets, args, phase, answer>>
    BY <1>14 DEF Missing
  <2> QED
    BY <1>3, <1>4, <2>1, ToldKept DEF LineParsed
<1>15. CASE StageValidation
  BY <1>3, <1>4, <1>15 DEF StageValidation
<1>16. CASE Route \/ RouteLeaf
  <2>1. /\ (\E code : Fail(code)) \/ UNCHANGED <<tree, path, line, targets, args>>
        /\ phase \in {"leaf", "stages"} /\ ((\E code : Fail(code)) \/ phase' = "idle")
    BY <1>16 DEF Route, RouteLeaf, Finish
  <2> QED
    BY <1>4, <2>1, ToldKept DEF LineParsed
<1>17. ASSUME NEW words \in Lines(tree.words), Call(words) PROVE ToldSoFar'
  BY <1>17 DEF Call, ToldSoFar, LineParsed
<1>18. CASE UNCHANGED vars
  BY <1>18, ToldKept DEF vars, LineParsed
<1> QED
  BY <1>5, <1>7, <1>8, <1>9, <1>10, <1>11, <1>12, <1>13, <1>14, <1>15, <1>16, <1>17, <1>18 DEF Next, Step

\* What the targets tell in the end is the line.
LEMMA ToldIsExplained ==
  ASSUME NEW nodes, NEW A, LineRules(nodes, A), Typing(nodes, A), ToldSoFar
  PROVE  Explained
<1> SUFFICES ASSUME answer = "routed", ~HasAlias
             PROVE  \E form \in [DOMAIN targets -> Forms] :
                      NamedIn(form) /\ Flat(Marks, line) = Flat(Marks, Retyped(form))
  BY DEF Explained
<1>1. Tells(Children, Marks, path, line, targets, args) /\ args = <<>>
  BY DEF ToldSoFar, LineParsed
<1>2. PICK form \in [DOMAIN targets -> Forms] :
        /\ \A k \in DOMAIN targets : HasForm(Children, form[k], targets[k])
        /\ Flat(Marks, line) = Flat(Marks, ModeNames(path) \o RetypedIn(Children, form, targets))
                                 \o Said(Marks, args)
  BY <1>1 DEF Tells
<1>3. \A id : NodeOf(id) = NodeIn(Children, id)
  BY DEF NodeOf, NodeIn
<1>4. Retyped(form) = ModeNames(path) \o RetypedIn(Children, form, targets)
  BY <1>3 DEF Retyped, ModeNames, RetypedIn, Retold
<1>5. NamedIn(form)
  BY <1>2, <1>3 DEF NamedIn, HasForm
<1> DEFINE S == A \cup STRING
           M == ModeNames(path)
           R == RetypedIn(Children, form, targets)
<1>6. Told(S)
  BY ToldTyped
<1> HIDE DEF S
<1>7. M \in Seq(Seq(S)) /\ R \in Seq(Seq(S))
  <2> DEFINE ss == [k \in DOMAIN targets |-> Retold(Children, form[k], targets[k])]
             T == TargetsOf(S, IdsOf(Children))
  <2>1. targets \in Seq(T) /\ NamesTexts(S, Children)
    BY <1>6 DEF Told
  <2>2. \A k \in DOMAIN targets : targets[k] \in T
    <3> HIDE DEF T
    <3> QED
      BY <2>1
  <2>3. \A k \in DOMAIN targets : Retold(Children, form[k], targets[k]) \in Seq(Seq(S))
    BY <2>1, <2>2, RetoldTyped
  <2>4. ss \in Seq(Seq(Seq(S)))
    <3>1. DOMAIN targets = 1 .. Len(targets) /\ Len(targets) \in Nat
      <4> HIDE DEF T
      <4> QED
        BY <2>1
    <3> QED
      BY <2>3, <3>1
  <2>5. R = FlattenSeq(ss)
    BY DEF RetypedIn
  <2> HIDE DEF ss, R
  <2>6. R \in Seq(Seq(S))
    BY <2>4, <2>5, FlattenElements
  <2> QED
    BY <1>6, <2>6 DEF Told
<1>8. FlatRule(Marks, S) /\ SaidRule(Marks, S)
  BY FlatFacts, SaidFacts
<1> HIDE DEF M, R
<1>9. Flat(Marks, M \o R) \in Seq(S)
  <2>1. M \o R \in Seq(Seq(S))
    BY <1>7, ConcatFacts
  <2> QED
    BY <1>8, <2>1 DEF FlatRule
<1>10. Said(Marks, args) = <<>>
  BY <1>1, <1>8 DEF SaidRule
<1>11. \A x \in Seq(S) : x \o <<>> = x
  OBVIOUS
<1>12. Flat(Marks, line) = Flat(Marks, M \o R)
  BY <1>2, <1>9, <1>10, <1>11 DEF M, R
<1> QED
  BY <1>4, <1>5, <1>12 DEF M, R

\* No word of a command line that reaches a router is lost, invented, reordered
\* or split between the wrong nodes (tree_node.hpp:561-667, mode.hpp:285-335,
\* value_separator.hpp:86-122, short_form_expander.hpp:86-109), for every tree
\* whose nodes split a word in one way, and every command line of a mode without
\* aliases.
THEOREM LineIsExplained ==
  ASSUME NEW nodes, NEW A, LineRules(nodes, A)
  PROVE  Spec => []Explained
<1>0. TreesOf(nodes, A) /\ ModeRules(nodes)
  BY DEF LineRules, GroupRules
<1>1. Init => Deep /\ ToldSoFar
  BY DEF Init, Deep, EnteredSoFar, ModeIsDeepest, ToldSoFar, LineParsed
<1>2. Typing(nodes, A) /\ Deep /\ [Next]_vars => Deep'
  BY <1>0, DeepStep
<1>3. Typing(nodes, A) /\ Running /\ Deep /\ ToldSoFar /\ [Next]_vars => ToldSoFar'
  BY ToldStep
<1>4. Typing(nodes, A) /\ ToldSoFar => Explained
  BY ToldIsExplained
<1> QED
  BY <1>0, <1>1, <1>2, <1>3, <1>4, TypingHolds, RunningHolds, PTL DEF Spec
-----------------------------------------------------------------------------
\* What is left of a line

\* The tokens are the last words of the line, behind flags that were split off a
\* collapsed word, if flags may be.
LeftOf(flags, q, l) ==
  \A k \in 1 .. Len(q) :
    \/ flags /\ q[k].pre = "short"
    \/ \A j \in k .. Len(q) :
         /\ j + (Len(l) - Len(q)) \in 1 .. Len(l)
         /\ q[j] = Raw(l[j + (Len(l) - Len(q))])

\* Tokens are taken from the front.
LEMMA LeftOfEnd ==
  ASSUME NEW T, NEW q \in Seq(T), NEW l, Len(l) \in Nat, NEW flags, LeftOf(flags, q, l),
         NEW n \in 0 .. Len(q)
  PROVE  LeftOf(flags, SubSeq(q, n + 1, Len(q)), l)
<1> DEFINE r == SubSeq(q, n + 1, Len(q))
<1>1. Len(q) \in Nat /\ n + 1 \in 1 .. Len(q) + 1 /\ Len(q) \in (n + 1) - 1 .. Len(q)
  OBVIOUS
<1>2. Len(r) = Len(q) - n /\ \A k \in 1 .. Len(q) - n : r[k] = q[k + n]
  <2>1. /\ Len(r) = Len(q) - (n + 1) + 1
        /\ \A k \in 1 .. Len(q) - (n + 1) + 1 : r[k] = q[k + (n + 1) - 1]
    BY <1>1, SubSeqFacts
  <2> HIDE DEF r
  <2> QED
    BY <1>1, <2>1
<1> HIDE DEF r
<1>3. ASSUME NEW k \in 1 .. Len(r), ~(flags /\ r[k].pre = "short"), NEW j \in k .. Len(r)
      PROVE  j + (Len(l) - Len(r)) \in 1 .. Len(l) /\ r[j] = Raw(l[j + (Len(l) - Len(r))])
  <2>1. /\ k + n \in 1 .. Len(q) /\ j + n \in k + n .. Len(q) /\ r[k] = q[k + n] /\ r[j] = q[j + n]
        /\ (j + n) + (Len(l) - Len(q)) = j + (Len(l) - Len(r))
    BY <1>1, <1>2, <1>3
  <2>2. /\ (j + n) + (Len(l) - Len(q)) \in 1 .. Len(l)
        /\ q[j + n] = Raw(l[(j + n) + (Len(l) - Len(q))])
    BY <1>3, <2>1 DEF LeftOf
  <2> QED
    BY <2>1, <2>2
<1> QED
  BY <1>3 DEF LeftOf, r

\* Flags are put in front.
LEMMA FlagsInFront ==
  ASSUME NEW T, NEW q \in Seq(T), NEW r \in Seq(T), \A k \in 1 .. Len(r) : r[k].pre = "short",
         NEW l, Len(l) \in Nat, LeftOf(TRUE, q, l)
  PROVE  LeftOf(TRUE, r \o q, l)
<1> DEFINE s == r \o q
<1>1. /\ Len(q) \in Nat /\ Len(r) \in Nat /\ Len(s) = Len(r) + Len(q)
      /\ \A k \in 1 .. Len(r) + Len(q) : s[k] = IF k <= Len(r) THEN r[k] ELSE q[k - Len(r)]
  BY ConcatFacts
<1> HIDE DEF s
<1>2. ASSUME NEW k \in 1 .. Len(s), s[k].pre # "short", NEW j \in k .. Len(s)
      PROVE  j + (Len(l) - Len(s)) \in 1 .. Len(l) /\ s[j] = Raw(l[j + (Len(l) - Len(s))])
  <2>1. k > Len(r)
    BY <1>1, <1>2
  <2> DEFINE x == k - Len(r)
             y == j - Len(r)
  <2>2. /\ x \in 1 .. Len(q) /\ y \in x .. Len(q) /\ s[k] = q[x] /\ s[j] = q[y]
        /\ y + (Len(l) - Len(q)) = j + (Len(l) - Len(s))
    BY <1>1, <1>2, <2>1
  <2> HIDE DEF x, y
  <2>3. y + (Len(l) - Len(q)) \in 1 .. Len(l) /\ q[y] = Raw(l[y + (Len(l) - Len(q))])
    BY <1>2, <2>2 DEF LeftOf
  <2> QED
    BY <2>2, <2>3
<1> QED
  BY <1>2 DEF LeftOf, s

\* A line of which nothing was split is left if it ends like the line.
LEMMA LeftAlone ==
  ASSUME NEW S, NEW p \in Seq(S), NEW T, NEW l \in Seq(T), NEW U, NEW q \in Seq(U),
         Entered(p, l, q), NEW flags
  PROVE  LeftOf(flags, q, l)
<1>1. /\ Len(p) \in Nat /\ Len(l) \in Nat /\ Len(q) \in Nat
      /\ Len(p) <= Len(l) /\ Len(q) = Len(l) - Len(p)
      /\ \A k \in 1 .. Len(q) : q[k] = Raw(l[Len(p) + k])
  BY DEF Entered
<1>2. ASSUME NEW k \in 1 .. Len(q), NEW j \in k .. Len(q)
      PROVE  j + (Len(l) - Len(q)) \in 1 .. Len(l) /\ q[j] = Raw(l[j + (Len(l) - Len(q))])
  <2>1. j \in 1 .. Len(q) /\ j + (Len(l) - Len(q)) = Len(p) + j /\ Len(p) + j \in 1 .. Len(l)
    BY <1>1, <1>2
  <2> QED
    BY <1>1, <2>1
<1> QED
  BY <1>2 DEF LeftOf

LEMMA TransferLeft ==
  ASSUME NEW A, NEW a \in Adapters(A), NEW it \in Int, NEW l, Len(l) \in Nat, NEW flags,
         LeftOf(flags, a.u, l)
  PROVE  LeftOf(flags, Transfer(a, it).u, l)
<1>1. PICK p \in Seq(Toks(A)), u \in Seq(Words(A)) : a = [p |-> p, u |-> u]
  BY AdapterParts
<1>2. Moved(p, u, it) \in 0 .. Len(u)
  BY TransferMoves
<1>3. Transfer(a, it).u = SubSeq(u, Moved(p, u, it) + 1, Len(u))
  <2>1. Transfer([p |-> p, u |-> u], it)
          = [p |-> p \o SubSeq(u, 1, Moved(p, u, it)), u |-> SubSeq(u, Moved(p, u, it) + 1, Len(u))]
    BY TransferMoves
  <2> QED
    BY <1>1, <2>1
<1>4. LeftOf(flags, u, l)
  BY <1>1
<1> QED
  BY <1>2, <1>3, <1>4, LeftOfEnd

\* The phases keep that.
Keeps(flags, l, s, t) == LeftOf(flags, s.a.u, l) => LeftOf(flags, t.a.u, l)

LEMMA ActsKeep ==
  ASSUME NEW A, NEW ids, NEW s \in States(A, ids), NEW l, NEW flags
  PROVE  /\ s.a \in Adapters(A)
         /\ Keeps(flags, l, s, Valid(s)) /\ Keeps(flags, l, s, SkipNode(s))
         /\ \A code : Keeps(flags, l, s, Error(s, code)) /\ Keeps(flags, l, s, Throw(s, code))
         /\ \A b : (LeftOf(flags, s.a.u, l) => LeftOf(flags, b.u, l))
                     => Keeps(flags, l, s, Valid([s EXCEPT !.a = b]))
<1>1. s.a \in Adapters(A)
  BY DEF States
<1>2. /\ Valid(s).a = s.a /\ SkipNode(s).a = s.a
      /\ \A code : Error(s, code).a = s.a /\ Throw(s, code).a = s.a
  BY DEF States, Valid, SkipNode, Error, Throw
<1>3. \A b : Valid([s EXCEPT !.a = b]).a = b
  BY DEF States, Valid
<1> QED
  BY <1>1, <1>2, <1>3 DEF Keeps

LEMMA SplitKeeps ==
  ASSUME NEW A, NEW ids, NEW node, NEW s \in States(A, ids), NEW l, Len(l) \in Nat, NEW flags
  PROVE  Keeps(flags, l, s, ValueSeparator(node, s))
<1> DEFINE first == First(s.a)
           at    == SelectInSeq(first.name, LAMBDA atom : atom = Separator)
           value == SubSeq(first.name, at + 1, Len(first.name))
           label == SubSeq(first.name, 1, at - 1)
           v     == Token("none", value)
           x     == Token(first.pre, label)
           b     == Insert(s.a, 1, <<v>>)
           c     == SetAt(b, 0, x)
           t     == ValueSeparator(node, s)
<1>0. s.a \in Adapters(A)
  BY ActsKeep
<1>1. \/ t \in {Valid(s), SkipNode(s), Error(s, "missing_value_separator")}
      \/ ~IsEmpty(s.a) /\ at # 0 /\ t = Valid([s EXCEPT !.a = c])
  BY DEF ValueSeparator
<1>2. CASE t \in {Valid(s), SkipNode(s), Error(s, "missing_value_separator")}
  BY <1>2, ActsKeep
<1>3. CASE ~IsEmpty(s.a) /\ t = Valid([s EXCEPT !.a = c])
  <2>1. Size(s.a) # 0
    BY <1>3 DEF IsEmpty
  <2>2. first.name \in Seq(A) /\ v \in Toks(A)
    <3>1. first \in Toks(A)
      BY <1>0, <2>1, FirstTyped
    <3> HIDE DEF first
    <3>2. first.name \in Seq(A)
      BY <3>1 DEF Toks
    <3>3. at \in 0 .. Len(first.name)
      BY <3>2, SeparatorPlace
    <3> HIDE DEF at
    <3>4. value \in Seq(A)
      BY <3>2, <3>3, TextPart
    <3> QED
      BY <3>2, <3>4 DEF Toks, Token
  <2> HIDE DEF v, x, t
  <2>3. b \in Adapters(A)
    BY <1>0, <2>1, <2>2, InsertTyped
  <2>4. c.u = Transfer(b, 0).u
    BY DEF SetAt
  <2>5. b.u = Transfer(s.a, 0).u
    <3>1. 1 # End /\ 1 - 1 = 0
      BY EndAssumption
    <3>2. Prev(1) = 0
      BY <3>1 DEF Prev
    <3>3. b.u = Transfer(s.a, Prev(1)).u
      BY DEF Insert
    <3> QED
      BY <3>2, <3>3
  <2> HIDE DEF b, c
  <2>6. LeftOf(flags, s.a.u, l) => LeftOf(flags, c.u, l)
    <3>1. 0 \in Int
      OBVIOUS
    <3>2. LeftOf(flags, s.a.u, l) => LeftOf(flags, Transfer(s.a, 0).u, l)
      BY <1>0, <3>1, TransferLeft
    <3>3. LeftOf(flags, b.u, l) => LeftOf(flags, Transfer(b, 0).u, l)
      BY <2>3, <3>1, TransferLeft
    <3> QED
      BY <2>4, <2>5, <3>2, <3>3
  <2>7. Keeps(flags, l, s, Valid([s EXCEPT !.a = c]))
    BY <2>6, ActsKeep
  <2> QED
    BY <1>3, <2>7 DEF t
<1> QED
  BY <1>1, <1>2, <1>3

LEMMA RestFlags ==
  ASSUME NEW A, NEW name \in Seq(A)
  PROVE  Rest(name) \in Seq(Words(A)) /\ \A k \in 1 .. Len(Rest(name)) : Rest(name)[k].pre = "short"
<1> DEFINE r == Rest(name)
<1>1. CASE name = <<>>
  <2>1. Len(name) - 1 = -1 /\ 1 .. Len(name) - 1 = 1 .. 0
    BY <1>1
  <2>2. r = <<>>
    BY <2>1 DEF Rest
  <2> HIDE DEF r
  <2> QED
    BY <2>2 DEF r
<1>2. CASE name # <<>>
  <2>1. r \in Seq(Words(A))
    BY <1>2, RestSaid
  <2>2. r = [k \in 1 .. Len(name) - 1 |-> Token("short", <<name[k + 1]>>)]
    BY DEF Rest
  <2>3. \A x : Token("short", x).pre = "short"
    BY DEF Token
  <2>4. \A k \in DOMAIN r : r[k].pre = "short"
    BY <2>2, <2>3
  <2> HIDE DEF r
  <2> QED
    BY <2>1, <2>4 DEF r
<1> QED
  BY <1>1, <1>2

LEMMA ExpanderKeeps ==
  ASSUME NEW A, NEW ids, NEW node, NEW s \in States(A, ids), NEW l, Len(l) \in Nat
  PROVE  Keeps(TRUE, l, s, ShortFormExpander(node, s))
<1> DEFINE first   == AsLabelOf(node, First(s.a))
           label   == Token("short", SubSeq(first.name, 1, Smaller(1, Len(first.name))))
           claimed == Transfer(s.a, 0)
           r       == Rest(first.name)
           b       == Leave(claimed, r)
           c       == SetAt(b, 0, label)
           t       == ShortFormExpander(node, s)
<1>0. s.a \in Adapters(A)
  BY ActsKeep
<1>1. \/ t \in {Valid(s), Throw(s, "length_error")}
      \/ ~IsEmpty(s.a) /\ t = Valid([s EXCEPT !.a = c])
  BY DEF ShortFormExpander
<1>2. CASE t \in {Valid(s), Throw(s, "length_error")}
  BY <1>2, ActsKeep
<1>3. CASE ~IsEmpty(s.a) /\ t = Valid([s EXCEPT !.a = c])
  <2>1. Size(s.a) # 0
    BY <1>3 DEF IsEmpty
  <2>2. first \in Toks(A) /\ first.name \in Seq(A)
    <3>1. First(s.a) \in Toks(A)
      BY <1>0, <2>1, FirstTyped
    <3>2. first \in Toks(A)
      BY <3>1, LabelTyped
    <3> QED
      BY <3>2 DEF Toks
  <2> HIDE DEF first, t
  <2>3. b \in Adapters(A) /\ claimed \in Adapters(A)
    BY <1>0, <2>1, <2>2, LeaveTyped, TransferTyped
  <2>4. c.u = Transfer(b, 0).u /\ b.u = r \o claimed.u
    <3>1. c.u = Transfer(b, 0).u
      BY DEF SetAt
    <3>2. \A a \in Adapters(A) : \A x : Leave(a, x).u = x \o a.u
      BY DEF Adapters, Leave
    <3> HIDE DEF claimed, c, r
    <3>3. b.u = r \o claimed.u
      BY <2>3, <3>2
    <3> QED
      BY <3>1, <3>3
  <2>5. r \in Seq(Words(A)) /\ \A k \in 1 .. Len(r) : r[k].pre = "short"
    BY <2>2, RestFlags
  <2> HIDE DEF b, c, r
  <2>6. claimed.u \in Seq(Words(A))
    BY <2>3 DEF Adapters
  <2>7. LeftOf(TRUE, s.a.u, l) => LeftOf(TRUE, c.u, l)
    <3>0. 0 \in Int
      OBVIOUS
    <3>1. LeftOf(TRUE, s.a.u, l) => LeftOf(TRUE, claimed.u, l)
      BY <1>0, <3>0, TransferLeft
    <3> HIDE DEF claimed
    <3>2. LeftOf(TRUE, claimed.u, l) => LeftOf(TRUE, b.u, l)
      BY <2>4, <2>5, <2>6, FlagsInFront
    <3>3. LeftOf(TRUE, b.u, l) => LeftOf(TRUE, c.u, l)
      <4>1. LeftOf(TRUE, b.u, l) => LeftOf(TRUE, Transfer(b, 0).u, l)
        BY <2>3, <3>0, TransferLeft
      <4> QED
        BY <2>4, <4>1
    <3> QED
      BY <3>1, <3>2, <3>3
  <2>8. Keeps(TRUE, l, s, Valid([s EXCEPT !.a = c]))
    BY <2>7, ActsKeep
  <2> QED
    BY <1>3, <2>8 DEF t
<1> QED
  BY <1>1, <1>2, <1>3

LEMMA LaterKeep ==
  ASSUME NEW A, NEW ids, NEW node, Parameters(node), NEW s \in States(A, ids), NEW children, NEW done,
         NEW l, Len(l) \in Nat, NEW flags
  PROVE  /\ Keeps(flags, l, s, RuntimeEnable(node, s))
         /\ Keeps(flags, l, s, TokenEndMarker(node, s))
         /\ Keeps(flags, l, s, MinMaxCount(node, s))
         /\ Keeps(flags, l, s, Alias(node, children, s))
         /\ Keeps(flags, l, s, Dependent(node, done, s))
<1>0. s.a \in Adapters(A)
  BY ActsKeep
<1>1. \A it \in Int : LeftOf(flags, s.a.u, l) => LeftOf(flags, Transfer(s.a, it).u, l)
  BY <1>0, TransferLeft
<1>2. Keeps(flags, l, s, RuntimeEnable(node, s))
  BY ActsKeep DEF RuntimeEnable
<1>3. Keeps(flags, l, s, TokenEndMarker(node, s))
  <2>1. PICK it \in Nat : TokenEndMarker(node, s) = Valid([s EXCEPT !.a = Erase(Transfer(s.a, it), it)])
    BY MarkErases
  <2> DEFINE b == Transfer(s.a, it)
             c == Erase(b, it)
  <2>2. b \in Adapters(A) /\ Size(b) = Size(s.a) /\ (it < Size(s.a) => Len(b.p) >= it + 1)
    BY <1>0, TransferTyped
  <2>3. c.u = b.u
    <3> HIDE DEF b
    <3>1. PICK p \in Seq(Toks(A)), u \in Seq(Words(A)) :
            b = [p |-> p, u |-> u] /\ Size(b) = Len(p) + Len(u) /\ Len(p) \in Nat /\ Len(u) \in Nat
      BY <2>2, AdapterParts
    <3>2. it # End /\ (it < Size(b) => it < Len(p))
      BY <2>2, <3>1, EndAssumption
    <3>3. CASE it >= Size(b)
      BY <3>3 DEF Erase, IsEnd
    <3>4. CASE ~(it >= Size(b))
      <4>1. it < Len(b.p) /\ ~IsEnd(b, it)
        BY <3>1, <3>2, <3>4 DEF IsEnd
      <4>2. c = [b EXCEPT !.p = Cut(@, it, 1)]
        BY <4>1 DEF Erase
      <4> QED
        BY <3>1, <4>2
    <3> QED
      BY <3>3, <3>4
  <2>4. LeftOf(flags, s.a.u, l) => LeftOf(flags, c.u, l)
    BY <1>1, <2>3
  <2> HIDE DEF b, c
  <2>5. Keeps(flags, l, s, Valid([s EXCEPT !.a = c]))
    BY <2>4, ActsKeep
  <2> QED
    BY <2>1, <2>5 DEF b, c
<1>4. Keeps(flags, l, s, MinMaxCount(node, s))
  <2>1. ASSUME NEW it \in Int PROVE Keeps(flags, l, s, Valid([s EXCEPT !.a = Transfer(s.a, it)]))
    BY <1>1, ActsKeep
  <2>2. \/ MinMaxCount(node, s) = Error(s, "maximum_count_exceeded")
        \/ MinMaxCount(node, s) = Error(s, "minimum_count_not_reached")
        \/ \E it \in Int : MinMaxCount(node, s) = Valid([s EXCEPT !.a = Transfer(s.a, it)])
    BY CountTransfers
  <2>3. /\ Keeps(flags, l, s, Error(s, "maximum_count_exceeded"))
        /\ Keeps(flags, l, s, Error(s, "minimum_count_not_reached"))
    BY ActsKeep
  <2> QED
    BY <2>1, <2>2, <2>3
<1>5. Keeps(flags, l, s, Alias(node, children, s))
  <2> DEFINE c == Transfer(s.a, node.max)
             t == Alias(node, children, s)
             x == [s EXCEPT !.act = "subs", !.subs = @ \o AliasTargets(node, children, c.p),
                            !.a = [c EXCEPT !.p = Cut(@, 0, node.max + 1)]]
  <2>1. t \in {Error(s, "too_few_values_for_alias"), SkipNode(s), x}
    BY DEF Alias
  <2>2. node.max \in Int
    BY DEF Parameters
  <2>3. c \in Adapters(A) /\ (LeftOf(flags, s.a.u, l) => LeftOf(flags, c.u, l))
    BY <1>0, <1>1, <2>2, TransferTyped
  <2>4. x.a.u = c.u
    <3>1. [c EXCEPT !.p = Cut(@, 0, node.max + 1)].u = c.u
      BY <2>3 DEF Adapters
    <3> HIDE DEF c
    <3>2. x.a = [c EXCEPT !.p = Cut(@, 0, node.max + 1)]
      BY DEF States
    <3> QED
      BY <3>1, <3>2
  <2>5. Keeps(flags, l, s, x)
    BY <2>3, <2>4 DEF Keeps
  <2>6. Keeps(flags, l, s, Error(s, "too_few_values_for_alias")) /\ Keeps(flags, l, s, SkipNode(s))
    BY ActsKeep
  <2> HIDE DEF x, t
  <2> QED
    BY <2>1, <2>5, <2>6 DEF t
<1>6. Keeps(flags, l, s, Dependent(node, done, s))
  <2>1. Dependent(node, done, s) \in {Valid(s), Error(s, "dependent_argument_missing")}
    BY DEF Dependent
  <2>2. Keeps(flags, l, s, Valid(s)) /\ Keeps(flags, l, s, Error(s, "dependent_argument_missing"))
    BY ActsKeep
  <2> QED
    BY <2>1, <2>2
<1> QED
  BY <1>2, <1>3, <1>4, <1>5, <1>6

LEMMA AfterKeeps ==
  ASSUME NEW A, NEW ids, NEW node, NEW policy, NEW s \in States(A, ids), NEW t \in States(A, ids),
         NEW l, NEW flags, policy \in node.policies => Keeps(flags, l, s, t)
  PROVE  Keeps(flags, l, s, After(s, policy, node, t))
<1> DEFINE r == After(s, policy, node, t)
<1>1. LeftBy(node, policy, s, t, r)
  BY AfterLeaves
<1> HIDE DEF r
<1>2. r = s \/ (policy \in node.policies /\ r.a = t.a)
  BY <1>1 DEF LeftBy
<1>3. Keeps(flags, l, s, r)
  BY <1>2 DEF Keeps
<1> QED
  BY <1>3 DEF r

\* What a match leaves to the mode is what is left of the line.
LEMMA MatchLeaves ==
  ASSUME NEW A, NEW nodes, \A n \in nodes : n.children \in Seq(nodes),
         NEW children \in Seq(nodes), NEW node, Parameters(node), NEW done,
         NEW args0 \in Seq(Words(A)), NEW verdict, NEW o,
         o = PreParseLeaf(node, children, done, args0, verdict), o.kind = "match",
         NEW l, Len(l) \in Nat, NEW flags \in BOOLEAN,
         "short_form_expander" \in node.policies => flags, LeftOf(flags, args0, l)
  PROVE  LeftOf(flags, o.args, l)
<1> DEFINE ids == Settable(node, children)
           s0 == Begin(args0)
           s1 == Split1(node, s0)
           s2 == Expand1(node, s1)
           s3 == Enable1(node, s2)
           s4 == Mark1(node, s3)
           s5 == Count1(node, s4)
           s6 == Alias1(node, children, s5)
           s7 == Depend1(node, done, s6)
           w  == WithLabelClaimed(node, s7)
<1>0. s7 = Final(node, children, done, args0)
  BY DEF Final, Counted
<1>1. o = Settle(node, s7, verdict)
  BY <1>0, LeafSettles
<1>2. s0 \in States(A, ids) /\ s0.a.u = args0
  BY DEF States, Adapters, Codes, Begin
<1>3. LeftOf(flags, s0.a.u, l)
  BY <1>2
<1> HIDE DEF ids, s0, s1, s2, s3, s4, s5, s6, s7
<1>4. ASSUME NEW s \in States(A, ids), LeftOf(flags, s.a.u, l), NEW t \in States(A, ids), NEW policy,
             policy \in node.policies => Keeps(flags, l, s, t)
      PROVE  /\ After(s, policy, node, t) \in States(A, ids)
             /\ LeftOf(flags, After(s, policy, node, t).a.u, l)
  <2>1. After(s, policy, node, t) \in States(A, ids)
    BY PhaseTyped
  <2>2. Keeps(flags, l, s, After(s, policy, node, t))
    BY <1>4, AfterKeeps
  <2> QED
    BY <1>4, <2>1, <2>2 DEF Keeps
<1>5. ASSUME NEW s \in States(A, ids)
      PROVE  /\ ValueSeparator(node, s) \in States(A, ids) /\ ShortFormExpander(node, s) \in States(A, ids)
             /\ RuntimeEnable(node, s) \in States(A, ids) /\ TokenEndMarker(node, s) \in States(A, ids)
             /\ MinMaxCount(node, s) \in States(A, ids) /\ Alias(node, children, s) \in States(A, ids)
             /\ Dependent(node, done, s) \in States(A, ids)
  BY ValueSeparatorTyped, ShortFormExpanderTyped, RuntimeEnableTyped, TokenEndMarkerTyped,
     MinMaxCountTyped, AliasTyped, DependentTyped DEF ids
<1>6. ASSUME NEW s \in States(A, ids)
      PROVE  /\ Keeps(flags, l, s, ValueSeparator(node, s))
             /\ "short_form_expander" \in node.policies => Keeps(flags, l, s, ShortFormExpander(node, s))
             /\ Keeps(flags, l, s, RuntimeEnable(node, s))
             /\ Keeps(flags, l, s, TokenEndMarker(node, s))
             /\ Keeps(flags, l, s, MinMaxCount(node, s))
             /\ Keeps(flags, l, s, Alias(node, children, s))
             /\ Keeps(flags, l, s, Dependent(node, done, s))
  <2>1. Keeps(flags, l, s, ValueSeparator(node, s))
    BY SplitKeeps
  <2>2. ASSUME "short_form_expander" \in node.policies PROVE Keeps(flags, l, s, ShortFormExpander(node, s))
    <3>1. flags = TRUE
      BY <2>2
    <3>2. Keeps(TRUE, l, s, ShortFormExpander(node, s))
      BY ExpanderKeeps
    <3> QED
      BY <3>1, <3>2
  <2> QED
    BY <2>1, <2>2, LaterKeep
<1>7. s1 \in States(A, ids) /\ LeftOf(flags, s1.a.u, l)
  BY <1>2, <1>3, <1>4, <1>5, <1>6 DEF Split1, s1
<1>8. s2 \in States(A, ids) /\ LeftOf(flags, s2.a.u, l)
  BY <1>7, <1>4, <1>5, <1>6 DEF Expand1, s2
<1>9. s3 \in States(A, ids) /\ LeftOf(flags, s3.a.u, l)
  BY <1>8, <1>4, <1>5, <1>6 DEF Enable1, s3
<1>10. s4 \in States(A, ids) /\ LeftOf(flags, s4.a.u, l)
  BY <1>9, <1>4, <1>5, <1>6 DEF Mark1, s4
<1>11. s5 \in States(A, ids) /\ LeftOf(flags, s5.a.u, l)
  BY <1>10, <1>4, <1>5, <1>6 DEF Count1, s5
<1>12. s6 \in States(A, ids) /\ LeftOf(flags, s6.a.u, l)
  BY <1>11, <1>4, <1>5, <1>6 DEF Alias1, s6
<1>13. s7 \in States(A, ids) /\ LeftOf(flags, s7.a.u, l)
  BY <1>12, <1>4, <1>5, <1>6 DEF Depend1, s7
<1>14. o.args = w.u
  <2>1. o.kind = "match" /\ o = Settle(node, s7, verdict)
    BY <1>1
  <2> QED
    BY ONLY <2>1, MatchSettles
<1>15. LeftOf(flags, w.u, l)
  <2>1. s7.a \in Adapters(A) /\ 0 \in Int
    BY <1>13 DEF States
  <2>2. LeftOf(flags, Transfer(s7.a, 0).u, l)
    BY <1>13, <2>1, TransferLeft
  <2>3. w = s7.a \/ w = Transfer(s7.a, 0)
    BY DEF WithLabelClaimed
  <2> HIDE DEF w
  <2> QED
    BY <1>13, <2>2, <2>3
<1> QED
  BY <1>14, <1>15
-----------------------------------------------------------------------------
\* The values of an alias

Plain(node) ==
  node.policies \cap {"value_separator", "short_form_expander", "token_end_marker"} = {}

\* Without these policies no phase in front of alias changes the tokens.
LEMMA CountedPlain ==
  ASSUME NEW A, NEW node, Parameters(node), Plain(node), NEW args0 \in Seq(Words(A))
  PROVE  Tokens(Counted(node, args0).a) = args0
<1> DEFINE ids == {}
           s0 == Begin(args0)
           s1 == Split1(node, s0)
           s2 == Expand1(node, s1)
           s3 == Enable1(node, s2)
           s4 == Mark1(node, s3)
           s5 == Count1(node, s4)
<1> HIDE DEF ids
<1>1. s0 \in States(A, ids) /\ s0.a = [p |-> <<>>, u |-> args0]
  BY DEF States, Adapters, Codes, Begin
<1>2. Tokens(s0.a) = args0
  BY <1>1, Unclaimed
<1>3. s5 = Counted(node, args0)
  BY DEF Counted
<1> HIDE DEF s0, s1, s2, s3, s4, s5
<1>4. ASSUME NEW s \in States(A, ids), NEW policy, policy \notin node.policies, NEW t \in States(A, ids)
      PROVE  After(s, policy, node, t) = s
  BY <1>4 DEF After
<1>5. s1 = s0
  BY <1>1, <1>4, ValueSeparatorTyped DEF Plain, Split1, s1
<1>6. s2 = s0
  <2>1. ShortFormExpander(node, s1) \in States(A, ids)
    BY <1>1, <1>5, ShortFormExpanderTyped
  <2> QED
    BY <1>1, <1>4, <1>5, <2>1 DEF Plain, Expand1, s2
<1>7. s3 \in States(A, ids) /\ s3.a = s0.a
  <2> DEFINE t == RuntimeEnable(node, s2)
  <2>1. t \in States(A, ids) /\ s2 \in States(A, ids)
    BY <1>1, <1>6, RuntimeEnableTyped
  <2>2. t.a = s2.a
    <3>1. Valid(s2).a = s2.a /\ SkipNode(s2).a = s2.a
      BY <2>1, ActsLight
    <3> QED
      BY <3>1 DEF RuntimeEnable
  <2> HIDE DEF t
  <2> DEFINE r == After(s2, "runtime_enable", node, t)
  <2>3. r \in States(A, ids) /\ LeftBy(node, "runtime_enable", s2, t, r)
    BY <2>1, PhaseTyped, AfterLeaves
  <2> HIDE DEF r
  <2>4. r.a = s0.a
    BY <1>6, <2>2, <2>3 DEF LeftBy
  <2> QED
    BY <2>3, <2>4 DEF Enable1, s3, r, t
<1>8. s4 = s3
  BY <1>7, <1>4, TokenEndMarkerTyped DEF Plain, Mark1, s4
<1>9. Tokens(s5.a) = Tokens(s4.a)
  <2> DEFINE t == MinMaxCount(node, s4)
             r == After(s4, "min_max_count", node, t)
  <2>1. s4 \in States(A, ids)
    BY <1>7, <1>8
  <2>2. t \in States(A, ids) /\ Tokens(t.a) = Tokens(s4.a)
    BY <2>1, MinMaxCountTyped, CountSays
  <2>3. s5 = r
    BY DEF Count1, s5
  <2> HIDE DEF t
  <2>4. LeftBy(node, "min_max_count", s4, t, r)
    BY <2>1, <2>2, AfterLeaves
  <2> HIDE DEF r
  <2>5. r = s4 \/ r.a = t.a
    BY <2>4 DEF LeftBy
  <2> QED
    BY <2>2, <2>3, <2>5
<1> QED
  BY <1>2, <1>3, <1>7, <1>8, <1>9

\* Sequences are told apart by their elements.
LEMMA SameElements ==
  ASSUME NEW S, NEW T, NEW p \in Seq(S), NEW q \in Seq(T), Len(p) = Len(q),
         \A k \in 1 .. Len(p) : p[k] = q[k]
  PROVE  p = q
OBVIOUS

\* The words behind the label of an alias are the values of all of its targets.
GivesWords(A, node, args0, o) ==
  /\ node.max + 1 <= Len(args0)
  /\ args0[1] \in Toks(A) /\ Match(node, AsLabelOf(node, args0[1]))
  /\ \A k \in DOMAIN o.targets : o.targets[k].tokens = SubSeq(args0, 2, node.max + 1)

\* A match of an alias gives them to its targets.
LEMMA AliasGives ==
  ASSUME NEW A, NEW nodes, \A n \in nodes : n.children \in Seq(nodes),
         NEW children \in Seq(nodes), NEW node, Parameters(node), NEW done,
         NEW args0 \in Seq(Words(A)), NEW verdict, NEW o,
         o = PreParseLeaf(node, children, done, args0, verdict), o.kind = "match",
         "alias" \in node.policies, node.alias # {}, node.alias \subseteq IdsOf(children),
         Plain(node)
  PROVE  GivesWords(A, node, args0, o)
<1> DEFINE ids == Settable(node, children)
           s   == Counted(node, args0)
           t6  == Alias(node, children, s)
           s6  == Alias1(node, children, s)
           t7  == Dependent(node, done, s6)
           s7  == Final(node, children, done, args0)
           c   == Transfer(s.a, node.max)
           ts  == AliasTargets(node, children, c.p)
           x   == [s EXCEPT !.act = "subs", !.subs = @ \o ts,
                            !.a = [c EXCEPT !.p = Cut(@, 0, node.max + 1)]]
<1>1. /\ s \in States(A, ids) /\ s.subs = <<>> /\ Tokens(s.a) = args0
      /\ s7 = Depend1(node, done, s6)
  BY CountedTyped, CountedPlain DEF Final
<1>2. o = Settle(node, s7, verdict)
  BY LeafSettles
<1>3. /\ ~Ended(s7)
      /\ o.targets = IF s7.subs = <<>> THEN <<Target(node.id, OwnTokens(node, s7))>> ELSE s7.subs
  <2> HIDE DEF s7
  <2> QED
    BY <1>2, MatchSettles DEF Ended
<1>4. Ids(s7.subs) = node.alias
  <2>1. Ids(s7.subs) = node.alias \cap IdsOf(children)
    BY <1>3, FinalLoad
  <2> QED
    BY <2>1
<1>5. t6 \in States(A, ids) /\ t6 \in {Error(s, "too_few_values_for_alias"), SkipNode(s), x}
  BY <1>1, AliasTyped DEF Alias
<1>6. t6 = x => ~(node.max + 1 > Size(s.a)) /\ Match(node, AsLabelOf(node, First(s.a)))
  <2>1. Error(s, "too_few_values_for_alias").act = "error" /\ SkipNode(s).act = "skip" /\ x.act = "subs"
    BY <1>1 DEF Error, SkipNode, States
  <2>4. Size(s.a) \in Nat /\ node.max \in Nat
    <3>1. s.a \in Adapters(A)
      BY <1>1 DEF States
    <3> QED
      BY <3>1, LoadTyped DEF Parameters
  <2> HIDE DEF x, s
  <2>2. CASE node.max + 1 > Size(s.a)
    BY <2>1, <2>2 DEF Alias
  <2>3. CASE ~(node.max + 1 > Size(s.a)) /\ ~Match(node, AsLabelOf(node, First(s.a)))
    <3>1. t6 = SkipNode(s)
      <4>1. node.max + 1 <= Size(s.a)
        BY <2>3, <2>4
      <4> QED
        BY <2>3, <4>1 DEF Alias
    <3> QED
      BY <2>1, <3>1
  <2> QED
    BY <2>2, <2>3
<1> HIDE DEF ids, s7, s, t6, c, ts, x
<1>7. s6 \in States(A, ids) /\ LeftBy(node, "alias", s, t6, s6)
  BY <1>1, <1>5, PhaseTyped, AfterLeaves DEF Alias1, t6
<1> HIDE DEF s6
<1>8. t7 \in States(A, ids) /\ t7.subs = s6.subs
  BY <1>7, DependentTyped, SubsKept
<1> HIDE DEF t7
<1>9. LeftBy(node, "dependent", s6, t7, s7)
  BY <1>1, <1>7, <1>8, AfterLeaves DEF Depend1, t7
<1>10. ~Ended(t6) /\ s7.subs = t6.subs
  <2>1. ~Ended(s6) /\ s7.subs = s6.subs
    BY <1>3, <1>8, <1>9 DEF LeftBy
  <2> QED
    BY <1>7, <2>1 DEF LeftBy
<1>11. t6 = x
  <2>1. Ended(Error(s, "too_few_values_for_alias")) /\ Ended(SkipNode(s))
    BY <1>1 DEF Ended, Error, SkipNode, States
  <2> QED
    BY <1>5, <1>10, <2>1
<1>12. s.a \in Adapters(A) /\ node.max \in Nat
  BY <1>1 DEF States, Parameters
<1>13. Size(s.a) = Len(args0) /\ Len(args0) \in Nat /\ node.max + 1 <= Size(s.a)
  <2>1. PICK p \in Seq(Toks(A)), u \in Seq(Words(A)) :
          s.a = [p |-> p, u |-> u] /\ Size(s.a) = Len(p) + Len(u) /\ Len(p) \in Nat /\ Len(u) \in Nat
    BY <1>12, AdapterParts
  <2>2. args0 = p \o u
    BY <1>1, <2>1 DEF Tokens
  <2>3. Len(args0) = Len(p) + Len(u)
    BY <2>2
  <2> QED
    BY <1>6, <1>11, <1>12, <2>1, <2>3
<1>14. args0[1] \in Toks(A) /\ Match(node, AsLabelOf(node, args0[1]))
  <2>1. First(s.a) \in Toks(A) /\ First(s.a) = args0[1]
    BY <1>1, <1>12, <1>13, FirstTyped
  <2> QED
    BY <1>6, <1>11, <2>1
<1>15. PICK p \in Seq(Toks(A)), u \in Seq(Words(A)) :
         /\ c = [p |-> p, u |-> u] /\ Len(p) \in Nat /\ Len(u) \in Nat
         /\ Len(p) >= node.max + 1 /\ args0 = p \o u
  <2>1. c \in Adapters(A) /\ Tokens(c) = args0 /\ Len(c.p) >= node.max + 1
    <3>1. node.max \in Int /\ node.max < Size(s.a)
      BY <1>12, <1>13
    <3> QED
      BY <1>1, <1>12, <3>1, TransferTyped DEF c
  <2>2. PICK p \in Seq(Toks(A)), u \in Seq(Words(A)) :
          c = [p |-> p, u |-> u] /\ Len(p) \in Nat /\ Len(u) \in Nat
    BY <2>1, AdapterParts
  <2>3. c.p = p /\ c.u = u /\ Tokens(c) = c.p \o c.u
    BY <2>2 DEF Tokens
  <2> QED
    BY <2>1, <2>2, <2>3
<1>16. SubSeq(p, 2, node.max + 1) = SubSeq(args0, 2, node.max + 1)
  <2>1. Len(args0) = Len(p) + Len(u) /\ \A k \in 1 .. Len(p) : args0[k] = p[k]
    BY <1>15
  <2>2. 2 \in 1 .. Len(p) + 1 /\ node.max + 1 \in 2 - 1 .. Len(p) /\ (node.max + 1) - 2 + 1 = node.max
    BY <1>12, <1>15
  <2>3. /\ SubSeq(p, 2, node.max + 1) \in Seq(Toks(A))
        /\ Len(SubSeq(p, 2, node.max + 1)) = node.max
        /\ \A k \in 1 .. node.max : SubSeq(p, 2, node.max + 1)[k] = p[k + 2 - 1]
    BY <2>2, SubSeqFacts
  <2>4. 2 \in 1 .. Len(args0) + 1 /\ node.max + 1 \in 2 - 1 .. Len(args0)
    BY <1>12, <1>15, <2>1
  <2>5. /\ SubSeq(args0, 2, node.max + 1) \in Seq(Words(A))
        /\ Len(SubSeq(args0, 2, node.max + 1)) = node.max
        /\ \A k \in 1 .. node.max : SubSeq(args0, 2, node.max + 1)[k] = args0[k + 2 - 1]
    BY <2>2, <2>4, SubSeqFacts
  <2>6. \A k \in 1 .. node.max : p[k + 2 - 1] = args0[k + 2 - 1]
    <3>1. \A k \in 1 .. node.max : k + 2 - 1 \in 1 .. Len(p)
      BY <1>12, <1>15
    <3> QED
      BY <2>1, <3>1
  <2> QED
    BY <2>3, <2>5, <2>6, SameElements
<1>17. PICK T : ts \in Seq(T) /\ \A y \in T : y.tokens = SubSeq(args0, 2, node.max + 1)
  <2>1. \E T : /\ AliasTargets(node, children, p) \in Seq(T)
                /\ \A y \in T : y.tokens = SubSeq(p, 2, node.max + 1)
    BY AliasIds
  <2>2. ts = AliasTargets(node, children, p)
    BY <1>15 DEF ts
  <2> QED
    BY Zenon, <1>16, <2>1, <2>2
<1>18. s7.subs = ts
  <2>1. x.subs = s.subs \o ts
    BY <1>1 DEF x, States
  <2>2. <<>> \o ts = ts
    BY <1>17
  <2> QED
    BY <1>1, <1>10, <1>11, <2>1, <2>2
<1>19. o.targets = ts
  <2>1. s7.subs # <<>>
    <3>1. Ids(<<>>) = {}
      BY DEF Ids
    <3> QED
      BY <1>4, <3>1
  <2> QED
    BY <1>3, <1>18, <2>1
<1> QED
  BY <1>13, <1>14, <1>17, <1>19 DEF GivesWords
-----------------------------------------------------------------------------
\* The targets of an alias

\* The match of a leaf of the child whose turn it is adds its targets.
LeafAdds(n, verdict, o) ==
  /\ n \in Leaves(Child) /\ o = PreParseLeaf(n, Children, Done, args, verdict) /\ o.kind = "match"
  /\ args' = o.args /\ targets' = targets \o o.targets /\ matched' = matched \cup {i}

\* What a step that leads to the loop, or stays there, can do
LEMMA StepsInLoop ==
  ASSUME NEW nodes, NEW A, GroupRules(nodes, A), Typing(nodes, A), [Next]_vars, phase' = "loop"
  PROVE  \/ phase = "loop" /\ UNCHANGED <<tree, path, line, args, targets, matched>>
         \/ phase \in {"root", "submode"} /\ UNCHANGED <<tree, line, args, targets, matched>>
         \/ /\ phase = "loop" /\ i \in DOMAIN Children /\ Child.kind # "mode"
            /\ UNCHANGED <<tree, path, line>>
            /\ \E n, verdict, o : LeafAdds(n, verdict, o)
<1>1. /\ Children \in Seq(nodes) /\ \A n \in nodes : n.children \in Seq(nodes)
      /\ i <= Len(Children) => i \in DOMAIN Children /\ Child = Children[i] /\ Child \in nodes
  <2>1. /\ Children \in Seq(nodes) /\ \A n \in nodes : n.children \in Seq(nodes)
        /\ i <= Len(Children) => Child \in nodes
    BY ChildrenTyped DEF GroupRules, TreesOf
  <2> QED
    BY <2>1 DEF Typing, Child
<1>2. CASE RootLeaf \/ RootUnknown
  BY <1>2 DEF RootLeaf, RootUnknown, NextChild, Fail
<1>3. CASE RootMode
  BY <1>3 DEF RootMode, NextChild, Enter
<1>4. CASE SubMode \/ NoSubMode
  BY <1>4 DEF SubMode, NoSubMode, NextChild, Enter
<1>5. CASE TryChild
  <2>1. phase = "loop" /\ i <= Len(Children)
    BY <1>5 DEF TryChild
  <2>2. CASE NextChild
    BY <2>1, <2>2 DEF NextChild
  <2>3. ASSUME NEW code, Fail(code) PROVE FALSE
    BY <2>3 DEF Fail
  <2>4. CASE Child.kind # "mode" /\ ~NextChild
    <3>1. PICK r : /\ r = PreParse(Child, Children, Done, args, Selected(Child.id), i \in matched)
                   /\ \/ r.o.kind = "error" /\ Fail(r.o.code)
                      \/ /\ r.o.kind = "match"
                         /\ args' = r.o.args
                         /\ targets' = targets \o r.o.targets
                         /\ matched' = matched \cup {i}
                         /\ UNCHANGED <<tree, line, phase, path>>
      BY <1>5, <2>4 DEF TryChild, Taken
    <3>2. /\ r.o.kind = "match" /\ args' = r.o.args /\ targets' = targets \o r.o.targets
          /\ matched' = matched \cup {i} /\ UNCHANGED <<tree, line, phase, path>>
      BY <2>3, <3>1
    <3>3. PICK n \in Leaves(Child) : \E verdict : r.o = PreParseLeaf(n, Children, Done, args, verdict)
      <4>1. Child.children \in Seq(nodes)
        BY <1>1, <2>1
      <4>2. r = PreParse(Child, Children, Done, args, Selected(Child.id), i \in matched)
            /\ r.o.kind # "none"
        BY <3>1, <3>2
      <4> QED
        BY <4>1, <4>2, PreParseTries
    <3> QED
      BY <1>1, <2>1, <2>4, <3>2, <3>3 DEF LeafAdds
  <2> QED
    BY <1>5, <2>2, <2>4 DEF TryChild
<1>6. CASE NoChild \/ LoopEnd \/ RunEnd \/ MissingEnd
  BY <1>6 DEF NoChild, LoopEnd, RunEnd, MissingEnd, Fail
<1>7. CASE RunTarget \/ Missing \/ StageValidation
  BY <1>7 DEF RunTarget, Missing, StageValidation, NextChild, Fail
<1>8. CASE Route \/ RouteLeaf
  BY <1>8 DEF Route, RouteLeaf, Finish, Fail
<1>9. \A words : ~Call(words)
  BY DEF Call
<1>10. CASE UNCHANGED vars
  BY <1>10 DEF vars
<1> QED
  BY <1>2, <1>3, <1>4, <1>5, <1>6, <1>7, <1>8, <1>9, <1>10 DEF Next, Step

\* While the mode's loop runs, its tokens are the last words of the line, behind
\* flags of a collapsed word if a node of the mode splits such words.
LineLeft == phase = "loop" => LeftOf(SplitsFlags(Children), args, line)

LEMMA LineLeftStep ==
  ASSUME NEW nodes, NEW A, GroupRules(nodes, A)
  PROVE  Typing(nodes, A) /\ Deep /\ LineLeft /\ [Next]_vars => LineLeft'
<1> SUFFICES ASSUME Typing(nodes, A), Deep, LineLeft, [Next]_vars, phase' = "loop"
             PROVE  LeftOf(SplitsFlags(Children)', args', line')
  BY DEF LineLeft
<1>1. /\ Children \in Seq(nodes) /\ \A n \in nodes : n.children \in Seq(nodes)
      /\ args \in Seq(Words(A)) /\ line \in Seq(tree.words) /\ path \in Seq(Modes(nodes))
      /\ Len(line) \in Nat
  BY ChildrenTyped DEF Typing, GroupRules, TreesOf
<1>2. UNCHANGED <<tree, path>> => SplitsFlags(Children)' = SplitsFlags(Children)
  BY DEF Children, Mode
<1>3. CASE phase = "loop" /\ UNCHANGED <<tree, path, line, args>>
  BY <1>2, <1>3 DEF LineLeft
<1>4. CASE phase \in {"root", "submode"} /\ UNCHANGED <<line, args>>
  <2>1. Entered(path, line, args)
    BY <1>4 DEF Deep, EnteredSoFar
  <2>2. \A flags : LeftOf(flags, args, line)
    BY <1>1, <2>1, LeftAlone
  <2> QED
    BY <1>4, <2>2
<1>5. CASE /\ phase = "loop" /\ i \in DOMAIN Children /\ Child.kind # "mode"
           /\ UNCHANGED <<tree, path, line>>
           /\ \E n, verdict, o : LeafAdds(n, verdict, o)
  <2>1. PICK n, verdict, o : LeafAdds(n, verdict, o)
    BY <1>5
  <2>2. n \in ToSet(Nodes(Children)) /\ Parameters(n)
    <3>1. n \in Leaves(Children[i]) /\ Children[i].kind # "mode"
      BY <1>5, <2>1 DEF LeafAdds, Child
    <3> QED
      BY <1>5, <3>1, LeavesTyped
  <2> DEFINE flags == SplitsFlags(Children)
  <2>3. flags \in BOOLEAN /\ ("short_form_expander" \in n.policies => flags)
    BY <2>2 DEF SplitsFlags
  <2>4. LeftOf(flags, args, line)
    BY <1>5 DEF LineLeft
  <2>5. o = PreParseLeaf(n, Children, Done, args, verdict) /\ o.kind = "match" /\ args' = o.args
    BY <2>1 DEF LeafAdds
  <2> HIDE DEF flags
  <2>6. LeftOf(flags, o.args, line)
    BY <1>1, <2>2, <2>3, <2>4, <2>5, MatchLeaves
  <2> QED
    BY <1>2, <1>5, <2>5, <2>6 DEF flags
<1> QED
  BY <1>3, <1>4, <1>5, StepsInLoop

\* Some elements behind the first m
LEMMA PartBehind ==
  ASSUME NEW T, NEW q \in Seq(T), NEW m \in Nat, NEW n \in Nat, m + n <= Len(q)
  PROVE  /\ SubSeq(q, m + 1, m + n) \in Seq(T) /\ Len(SubSeq(q, m + 1, m + n)) = n
         /\ \A k \in 1 .. n : SubSeq(q, m + 1, m + n)[k] = q[k + m]
<1> DEFINE a == m + 1
           b == m + n
<1>1. a \in 1 .. Len(q) + 1 /\ b \in a - 1 .. Len(q) /\ b - a + 1 = n
  OBVIOUS
<1>2. \A k \in 1 .. n : k + a - 1 = k + m
  OBVIOUS
<1> HIDE DEF a, b
<1>3. /\ SubSeq(q, a, b) \in Seq(T) /\ Len(SubSeq(q, a, b)) = b - a + 1
      /\ \A k \in 1 .. b - a + 1 : SubSeq(q, a, b)[k] = q[k + a - 1]
  BY <1>1, SubSeqFacts
<1>4. /\ SubSeq(q, a, b) \in Seq(T) /\ Len(SubSeq(q, a, b)) = n
      /\ \A k \in 1 .. n : SubSeq(q, a, b)[k] = q[k + m]
  BY <1>1, <1>2, <1>3
<1> QED
  BY <1>4 DEF a, b

\* The values of the alias whose turn it is are words of the line, and so are
\* those of every target of its match.
LEMMA ValuesOnLine ==
  ASSUME NEW nodes, NEW A, GroupRules(nodes, A), Typing(nodes, A),
         NEW node \in ToSet(Nodes(Children)), Named(node), Parameters(node),
         Match(node, AsLabelOf(node, args[1])), node.max + 1 <= Len(args),
         LeftOf(SplitsFlags(Children), args, line), HasShort(node) => ~SplitsFlags(Children)
  PROVE  StandBehind(node, Names(SubSeq(args, 2, node.max + 1)))
<1> DEFINE d == Len(line) - Len(args)
           q == SubSeq(args, 2, node.max + 1)
           l == SubSeq(line, (1 + d) + 1, (1 + d) + node.max)
<1>1. /\ args \in Seq(Words(A)) /\ line \in Seq(tree.words)
      /\ Len(args) \in Nat /\ Len(line) \in Nat /\ node.max \in Nat
  BY DEF Typing, Parameters
<1>2. args[1] \in Words(A) /\ args[1] \in Toks(A)
  <2>1. 1 \in 1 .. Len(args)
    BY <1>1
  <2> QED
    BY <1>1, <2>1, WordsAreTokens
<1>3. ~(SplitsFlags(Children) /\ args[1].pre = "short")
  <2> SUFFICES ASSUME args[1].pre = "short" PROVE HasShort(node)
    OBVIOUS
  <2>1. AsLabelOf(node, args[1]) = args[1]
    BY DEF AsLabelOf
  <2>2. \A name : Token("long", name).pre = "long" /\ Token("none", name).pre = "none"
    BY DEF Token
  <2> QED
    BY <2>1, <2>2 DEF Match
<1>4. \A j \in 1 .. Len(args) : j + d \in 1 .. Len(line) /\ args[j] = Raw(line[j + d])
  <2>1. 1 \in 1 .. Len(args)
    BY <1>1
  <2> QED
    BY <1>3, <2>1 DEF LeftOf
<1>5. d \in Int /\ 1 + d \in 1 .. Len(line) - node.max
  <2>1. PICK m \in Nat, x \in Nat, y \in Nat : m = node.max /\ x = Len(args) /\ y = Len(line)
    BY <1>1
  <2>2. d = y - x /\ d \in Int /\ m + 1 <= x
    BY <2>1
  <2> HIDE DEF d
  <2>3. 1 \in 1 .. x /\ m + 1 \in 1 .. x
    BY ONLY <2>1, <2>2
  <2>4. 1 + d \in 1 .. y /\ (m + 1) + d \in 1 .. y
    BY ONLY <1>4, <2>1, <2>3
  <2>5. 1 + d \in 1 .. y - m
    BY ONLY <2>1, <2>2, <2>4
  <2> QED
    BY ONLY <2>1, <2>2, <2>5
<1>6. NamedBy(node, Raw(line[1 + d]))
  <2>1. args[1] = Raw(line[1 + d])
    BY <1>1, <1>4
  <2> QED
    BY <1>2, <2>1, MatchNames
<1>7. /\ q \in Seq(Words(A)) /\ Len(q) = node.max /\ \A k \in 1 .. node.max : q[k] = args[k + 1]
  <2>1. 1 + node.max <= Len(args) /\ 2 = 1 + 1 /\ node.max + 1 = 1 + node.max /\ 1 \in Nat
    BY <1>1
  <2>2. q = SubSeq(args, 1 + 1, 1 + node.max)
    BY <2>1
  <2> HIDE DEF q
  <2> QED
    BY <1>1, <2>1, <2>2, PartBehind
<1>8. /\ l \in Seq(tree.words) /\ Len(l) = node.max /\ \A k \in 1 .. node.max : l[k] = line[(k + 1) + d]
  <2> DEFINE m == 1 + d
  <2>1. m \in Nat /\ m + node.max <= Len(line)
    BY <1>1, <1>5
  <2>2. l = SubSeq(line, m + 1, m + node.max)
    OBVIOUS
  <2>3. \A k \in 1 .. node.max : k + m = (k + 1) + d
    BY <1>1, <1>5
  <2> HIDE DEF m, l, d
  <2>4. /\ l \in Seq(tree.words) /\ Len(l) = node.max /\ \A k \in 1 .. node.max : l[k] = line[k + m]
    <3>1. PICK n \in Nat : n = node.max
      BY <1>1
    <3>2. /\ SubSeq(line, m + 1, m + n) \in Seq(tree.words) /\ Len(SubSeq(line, m + 1, m + n)) = n
          /\ \A k \in 1 .. n : SubSeq(line, m + 1, m + n)[k] = line[k + m]
      <4>1. m + n <= Len(line)
        BY <2>1, <3>1
      <4> QED
        BY <1>1, <2>1, <4>1, PartBehind
    <3> QED
      BY <2>2, <3>1, <3>2
  <2> QED
    BY <2>3, <2>4
<1> HIDE DEF q, l
<1>9. Names(q) = l
  <2>1. DOMAIN q = 1 .. node.max
    BY <1>7
  <2>2. Names(q) = [k \in 1 .. node.max |-> q[k].name]
    BY <2>1 DEF Names
  <2>3. \A k \in 1 .. node.max : q[k].name = l[k]
    <3> SUFFICES ASSUME NEW k \in 1 .. node.max PROVE q[k].name = l[k]
      OBVIOUS
    <3>1. k + 1 \in 1 .. Len(args)
      BY <1>1
    <3>2. q[k] = Raw(line[(k + 1) + d])
      BY <1>4, <1>7, <3>1
    <3> QED
      BY <1>8, <3>2 DEF Raw, Token
  <2>4. l = [k \in 1 .. node.max |-> l[k]]
    BY <1>8
  <2> QED
    BY <2>2, <2>3, <2>4
<1> QED
  BY <1>5, <1>6, <1>9 DEF StandBehind, l, q

\* A match of an alias makes a target of every node it stands for, with the words
\* behind its label.
LEMMA AliasAdds ==
  ASSUME NEW nodes, NEW A, GroupRules(nodes, A), AliasValues(nodes), Typing(nodes, A),
         phase = "loop", LineLeft, i \in DOMAIN Children, Child.kind # "mode",
         "alias" \in Child.policies, NEW n, NEW verdict, NEW o, LeafAdds(n, verdict, o),
         NEW id \in Child.alias
  PROVE  \E t \in DOMAIN o.targets :
            /\ o.targets[t].node = id
            /\ Child.max > 0 => StandBehind(Child, Names(o.targets[t].tokens))
<1>1. /\ Children \in Seq(nodes) /\ \A m \in nodes : m.children \in Seq(nodes)
      /\ args \in Seq(Words(A)) /\ Child = Children[i] /\ Child \in ToSet(Children)
  <2>1. Children \in Seq(nodes) /\ \A m \in nodes : m.children \in Seq(nodes)
    BY ChildrenTyped DEF GroupRules, TreesOf
  <2> QED
    BY <2>1 DEF Typing, Child, ToSet
<1>2. n = Child
  <2>1. Child \in nodes
    BY <1>1
  <2>2. Child.kind \notin {"one_of", "alias_group"}
    BY <2>1 DEF AliasValues
  <2> QED
    BY <2>2 DEF LeafAdds, Leaves
<1>3. /\ Child \in ToSet(Nodes(Children)) /\ Parameters(Child) /\ Named(Child)
      /\ Child.alias \subseteq IdsOf(Children)
  <2>1. n \in Leaves(Children[i])
    BY <1>1 DEF LeafAdds
  <2> QED
    BY <1>1, <1>2, <2>1, LeavesTyped
<1>4. o = PreParseLeaf(Child, Children, Done, args, verdict) /\ o.kind = "match"
  BY <1>2 DEF LeafAdds
<1>5. Ids(o.targets) = Child.alias
  <2>1. MatchOf(Child, Done, verdict, o)
    BY <1>1, <1>3, <1>4, MatchFacts
  <2> QED
    BY <2>1 DEF MatchOf
<1>6. PICK t \in DOMAIN o.targets : o.targets[t].node = id
  BY <1>5 DEF Ids
<1>7. ASSUME Child.max > 0 PROVE StandBehind(Child, Names(o.targets[t].tokens))
  <2>1. Plain(Child) /\ (HasShort(Child) => ~SplitsFlags(Children))
    BY <1>3, <1>7, ChildrenAreSiblings DEF AliasValues, Plain
  <2>2. /\ Child.max + 1 <= Len(args) /\ Match(Child, AsLabelOf(Child, args[1]))
        /\ \A k \in DOMAIN o.targets : o.targets[k].tokens = SubSeq(args, 2, Child.max + 1)
    <3>1. Child.alias # {} /\ "alias" \in Child.policies
      OBVIOUS
    <3>2. GivesWords(A, Child, args, o)
      BY <1>1, <1>3, <1>4, <2>1, <3>1, AliasGives
    <3> QED
      BY <3>2 DEF GivesWords
  <2>3. StandBehind(Child, Names(SubSeq(args, 2, Child.max + 1)))
    BY <1>3, <2>1, <2>2, ValuesOnLine DEF LineLeft
  <2> QED
    BY <1>6, <2>2, <2>3
<1> QED
  BY <1>6, <1>7

\* Every node that a child stands for has a target with the words behind the
\* child's label.
Brought(k) ==
  \A id \in Children[k].alias : \E t \in DOMAIN targets :
     /\ targets[t].node = id
     /\ Children[k].max > 0 => StandBehind(Children[k], Names(targets[t].tokens))

\* The aliases that have matched have brought targets.
AliasSoFar ==
  phase = "loop" \/ Parsing =>
    \A k \in matched : "alias" \in Children[k].policies => Brought(k)

\* While the line stays, more targets only bring more.
LEMMA BroughtKept ==
  ASSUME UNCHANGED <<tree, path, line>>,
         DOMAIN targets \subseteq DOMAIN targets', \A t \in DOMAIN targets : targets'[t] = targets[t]
  PROVE  Children' = Children /\ \A k : Brought(k) => Brought(k)'
<1>1. Children' = Children
  BY DEF Children, Mode
<1>2. \A node, texts : StandBehind(node, texts)' = StandBehind(node, texts)
  BY DEF StandBehind
<1> SUFFICES ASSUME NEW k, Brought(k) PROVE Brought(k)'
  BY <1>1
<1> QED
  BY <1>1, <1>2 DEF Brought

LEMMA AliasSoFarStep ==
  ASSUME NEW nodes, NEW A, GroupRules(nodes, A), AliasValues(nodes)
  PROVE  Typing(nodes, A) /\ Running /\ LineLeft /\ AliasSoFar /\ [Next]_vars => AliasSoFar'
<1> SUFFICES ASSUME Typing(nodes, A), Running, LineLeft, AliasSoFar, [Next]_vars,
                    phase' = "loop" \/ Parsing',
                    NEW k \in matched', "alias" \in Children'[k].policies
             PROVE  Brought(k)'
  BY DEF AliasSoFar
<1>1. CASE /\ phase = "loop" \/ Parsing
           /\ UNCHANGED <<tree, path, line, targets, matched>>
  <2>1. Children' = Children /\ (Brought(k) => Brought(k)')
    BY <1>1, BroughtKept
  <2> QED
    BY <1>1, <2>1 DEF AliasSoFar
<1>2. CASE Parsing'
  <2>1. CASE UNCHANGED vars
    <3>1. UNCHANGED <<phase, answer, path>>
      BY <2>1 DEF vars
    <3>2. Parsing
      BY <1>2, <3>1 DEF Parsing
    <3> QED
      BY <1>1, <2>1, <3>2 DEF vars
  <2>2. CASE LoopEnd
    BY <1>1, <2>2 DEF LoopEnd
  <2>3. CASE Parsing /\ (RunTarget \/ RunEnd \/ Missing \/ MissingEnd \/ StageValidation \/ Route)
    <3>1. UNCHANGED <<tree, path, line, targets, matched>>
      BY <2>3 DEF RunTarget, RunEnd, Missing, MissingEnd, StageValidation, Route, Finish, Fail, NextChild
    <3> QED
      BY <1>1, <2>3, <3>1
  <2> QED
    BY <1>2, <2>1, <2>2, <2>3, StepsOfParsing
<1>3. CASE phase' = "loop"
  <2>1. CASE phase = "loop" /\ UNCHANGED <<tree, path, line, args, targets, matched>>
    BY <1>1, <2>1
  <2>2. CASE phase \in {"root", "submode"} /\ UNCHANGED <<tree, line, args, targets, matched>>
    BY <2>2 DEF Typing
  <2>3. CASE /\ phase = "loop" /\ i \in DOMAIN Children /\ Child.kind # "mode"
             /\ UNCHANGED <<tree, path, line>>
             /\ \E n, verdict, o : LeafAdds(n, verdict, o)
    <3>1. PICK n, verdict, o : LeafAdds(n, verdict, o)
      BY <2>3
    <3>2. \E T : o.targets \in Seq(T) /\ targets \in Seq(T)
      <4>1. /\ Children \in Seq(nodes) /\ \A m \in nodes : m.children \in Seq(nodes)
            /\ args \in Seq(Words(A))
        BY ChildrenTyped DEF GroupRules, TreesOf, Typing
      <4>2. n \in ToSet(Nodes(Children)) /\ Parameters(n)
        <5>1. n \in Leaves(Children[i]) /\ Children[i].kind # "mode"
          BY <2>3, <3>1 DEF LeafAdds, Child
        <5> QED
          BY <2>3, <5>1, LeavesTyped
      <4>3. WellTyped(A, n, Children, o)
        BY <3>1, <4>1, <4>2, LeafTyped DEF LeafAdds
      <4>4. \E T : o.targets \in Seq(T)
        BY <3>1, <4>3 DEF WellTyped, LeafAdds
      <4>5. PICK T : o.targets \in Seq(T)
        BY <4>4
      <4>6. PICK U : targets \in Seq(U)
        BY DEF Typing
      <4>7. o.targets \in Seq(T \cup U) /\ targets \in Seq(T \cup U)
        BY <4>5, <4>6
      <4> QED
        BY <4>7
    <3>3. /\ Len(targets) \in Nat /\ DOMAIN targets = 1 .. Len(targets)
          /\ DOMAIN o.targets = 1 .. Len(o.targets) /\ Len(o.targets) \in Nat
          /\ DOMAIN targets' = 1 .. Len(targets) + Len(o.targets)
          /\ \A t \in 1 .. Len(targets) + Len(o.targets) :
               targets'[t] = IF t <= Len(targets) THEN targets[t] ELSE o.targets[t - Len(targets)]
      <4>1. targets' = targets \o o.targets
        BY <3>1 DEF LeafAdds
      <4>2. PICK T : o.targets \in Seq(T) /\ targets \in Seq(T)
        BY <3>2
      <4> DEFINE b == targets \o o.targets
      <4>3. /\ b \in Seq(T) /\ Len(b) = Len(targets) + Len(o.targets)
            /\ \A t \in 1 .. Len(targets) + Len(o.targets) :
                 b[t] = IF t <= Len(targets) THEN targets[t] ELSE o.targets[t - Len(targets)]
        BY <4>2, ConcatFacts
      <4> HIDE DEF b
      <4>4. DOMAIN b = 1 .. Len(b)
        BY <4>3
      <4>5. /\ Len(targets) \in Nat /\ DOMAIN targets = 1 .. Len(targets)
            /\ DOMAIN o.targets = 1 .. Len(o.targets) /\ Len(o.targets) \in Nat
        BY <4>2
      <4> QED
        BY <4>1, <4>3, <4>4, <4>5 DEF b
    <3>4. Children' = Children /\ (Brought(k) => Brought(k)')
      <4>1. DOMAIN targets \subseteq DOMAIN targets' /\ \A t \in DOMAIN targets : targets'[t] = targets[t]
        BY <3>3
      <4> QED
        BY <2>3, <4>1, BroughtKept
    <3>5. CASE k \in matched
      BY <2>3, <3>4, <3>5 DEF AliasSoFar
    <3>6. CASE k = i
      <4>1. Child = Children[k] /\ "alias" \in Child.policies
        BY <3>4, <3>6 DEF Child
      <4> SUFFICES ASSUME NEW id \in Child.alias
                   PROVE  \E t \in DOMAIN targets' :
                            /\ targets'[t].node = id
                            /\ Child.max > 0 => StandBehind(Child, Names(targets'[t].tokens))
        <5>1. \A node, texts : StandBehind(node, texts)' = StandBehind(node, texts)
          BY <2>3 DEF StandBehind
        <5> QED
          BY <3>4, <4>1, <5>1 DEF Brought
      <4>2. PICK t \in DOMAIN o.targets :
              /\ o.targets[t].node = id
              /\ Child.max > 0 => StandBehind(Child, Names(o.targets[t].tokens))
        BY <2>3, <3>1, <4>1, AliasAdds
      <4>3. Len(targets) + t \in DOMAIN targets' /\ targets'[Len(targets) + t] = o.targets[t]
        <5>1. /\ Len(targets) + t \in 1 .. Len(targets) + Len(o.targets)
              /\ ~(Len(targets) + t <= Len(targets)) /\ Len(targets) + t - Len(targets) = t
          BY <3>3, <4>2
        <5> QED
          BY <3>3, <5>1
      <4> QED
        BY <4>2, <4>3
    <3> QED
      BY <3>1, <3>5, <3>6 DEF LeafAdds
  <2> QED
    BY <1>3, <2>1, <2>2, <2>3, StepsInLoop
<1> QED
  BY <1>2, <1>3

\* The only target of a child gives it its value.
LEMMA OnlyTarget ==
  ASSUME NEW nodes, NEW A, Typing(nodes, A), NEW c, NEW t \in DOMAIN targets, OwnerOf(t) = c,
         \A j \in DOMAIN targets : OwnerOf(j) = c => j = t
  PROVE  TextsFor(c)[Len(targets)] = Parsed(NodeOf(targets[t].node), targets[t]).list
<1> DEFINE L == Len(targets)
           x == Parsed(NodeOf(targets[t].node), targets[t]).list
           f == TextsFor(c)
           T == {j \in 0 .. L : f[j] = IF j < t THEN <<>> ELSE x}
<1>1. L \in Nat /\ DOMAIN targets = 1 .. L /\ t \in 1 .. L
  BY DEF Typing
<1>2. <<>> \o x = x
  <2>1. \E S : x \in Seq(S)
    BY ParsedIsList
  <2> HIDE DEF x
  <2>2. PICK S : x \in Seq(S)
    BY <2>1
  <2> QED
    BY <2>2
<1>3. f[0] = <<>> /\ \A j \in 1 .. L : f[j] = Added(c, j, f[j - 1])
  BY TextsGathered
<1>4. \A j \in 1 .. L : Added(c, j, f[j - 1]) = IF j = t THEN f[j - 1] \o x ELSE f[j - 1]
  BY <1>1 DEF Added
<1> HIDE DEF f, x
<1>5. 0 \in T
  BY <1>1, <1>3
<1>6. ASSUME NEW j \in 1 .. L, j - 1 \in T PROVE j \in T
  <2>1. f[j - 1] = IF j - 1 < t THEN <<>> ELSE x
    BY <1>6
  <2>2. f[j] = IF j = t THEN f[j - 1] \o x ELSE f[j - 1]
    BY <1>3, <1>4
  <2>3. j \in 0 .. L /\ (j = t => j - 1 < t /\ ~(j < t)) /\ (j # t => (j - 1 < t <=> j < t))
    BY <1>1
  <2> QED
    BY <1>2, <2>1, <2>2, <2>3
<1> HIDE DEF T
<1>7. L \in T
  <2>1. \A j \in 0 .. L : j \in T
    BY <1>1, <1>5, <1>6, UpTo
  <2> QED
    BY <1>1, <2>1
<1>8. f[L] = x
  <2>1. ~(L < t)
    BY <1>1
  <2> QED
    BY <1>7, <2>1 DEF T
<1> QED
  BY <1>8 DEF f, x

\* What the aliases have brought reaches the router.
LEMMA BroughtIsDelivered ==
  ASSUME NEW nodes, NEW A, GroupRules(nodes, A), AliasValues(nodes), Typing(nodes, A), Running,
         SetSoFar, ByTarget, DeliveredSoFar, NoneOfModes, AliasSoFar
  PROVE  AliasDelivered
<1> SUFFICES ASSUME answer = "routed", path # <<>>, NEW k \in matched,
                    "alias" \in Children[k].policies, NEW id \in Children[k].alias
             PROVE  /\ SetByUser(id)
                    /\ Children[k].max > 0 => StandBehind(Children[k], results[Owner(id)].list)
  BY DEF AliasDelivered
<1>1. /\ Parsing /\ phase = "idle" /\ Behind = Len(targets) /\ DOMAIN targets = 1 .. Len(targets)
      /\ Len(targets) \in Nat /\ k \in DOMAIN Children
  BY DEF Running, Parsing, Typing, Behind
<1>2. PICK t \in DOMAIN targets :
        /\ targets[t].node = id
        /\ Children[k].max > 0 => StandBehind(Children[k], Names(targets[t].tokens))
  BY <1>1 DEF AliasSoFar, Brought
<1> DEFINE c == Owner(id)
<1>3. /\ OwnerOf(t) = c /\ c \in DOMAIN Children
      /\ NodeOf(id) \in ToSet(Nodes(<<Children[c]>>)) /\ NodeOf(id).id = id
  <2>1. DistinctIds(nodes) /\ TreesOf(nodes, A)
    BY DEF GroupRules
  <2> QED
    BY <1>2, <2>1, Ownership DEF OwnerOf
<1> HIDE DEF c
<1>4. /\ Children[k].max > 0 => NodeOf(id).kind # "flag" /\ ~Multi(c)
      /\ Children[c].children # <<>> => ~Multi(c)
      /\ Valued(c)
  <2>1. Children[k] \in ToSet(Nodes(Children)) /\ Children[c] \in ToSet(Children)
    <3>1. Children[k] \in ToSet(Children) /\ Children[c] \in ToSet(Children)
      BY <1>1, <1>3 DEF ToSet
    <3>2. Children \in Seq(nodes) /\ \A n \in nodes : n.children \in Seq(nodes)
      BY ChildrenTyped DEF GroupRules, TreesOf
    <3> QED
      BY <3>1, <3>2, ChildAmongNodes
  <2>2. Children \in Siblings(nodes)
    BY ChildrenAreSiblings
  <2>3. /\ Children[k].max > 0 => NodeOf(id).kind # "flag"
        /\ Children[c].children # <<>> \/ Children[k].max > 0 =>
             \A x \in ToSet(Nodes(<<Children[c]>>)) : ~x.multi_stage
        /\ "alias" \notin Children[c].policies
    BY <1>3, <2>1, <2>2 DEF AliasValues
  <2>4. Children[c].kind # "mode"
    BY <1>3 DEF NoneOfModes
  <2> QED
    BY <2>3, <2>4 DEF Multi, Valued, HasResult
<1>5. SetByUser(id)
  <2>1. c \in DOMAIN results
    BY <1>1, <1>3 DEF SetSoFar
  <2>2. Single(OwnerOf(t))
    BY <1>3, <1>4 DEF Single
  <2>3. results[c].by = id
    BY <1>1, <1>2, <1>3, <2>2 DEF ByTarget
  <2> QED
    BY <2>1, <2>3 DEF SetByUser
<1>6. ASSUME Children[k].max > 0 PROVE results[c].list = Names(targets[t].tokens)
  <2>1. \A j \in DOMAIN targets : OwnerOf(j) = c => j = t
    BY <1>1, <1>3, <1>4, <1>6 DEF SetSoFar
  <2>2. TextsFor(c)[Len(targets)] = Parsed(NodeOf(id), targets[t]).list
    BY <1>2, <1>3, <2>1, OnlyTarget
  <2>3. t \in OwnAmong(c, Behind)
    BY <1>1, <1>3 DEF OwnAmong
  <2>4. MadeOfTargets(c)
    BY <1>1, <1>3, <1>4, <2>3 DEF DeliveredSoFar, Made, MadeOfNothing
  <2>5. results[c].list = TextsFor(c)[Len(targets)]
    BY <1>1, <2>4 DEF MadeOfTargets, Value
  <2>6. Parsed(NodeOf(id), targets[t]).list = Names(targets[t].tokens)
    BY <1>4, <1>6 DEF Parsed, Value
  <2> QED
    BY <2>2, <2>5, <2>6
<1> QED
  BY <1>2, <1>5, <1>6 DEF c

\* An alias on the command line sets every node it stands for, and each reaches
\* the router with the words behind the alias's own label (alias.hpp:60-152,
\* mode.hpp:285-335, 340-416), for every tree whose child modes are apart and
\* whose aliases stand for no aliases and have plain values of their own: no phase
\* in front of alias moves tokens or splits the label off a collapsed word, and no
\* value of the nodes they stand for is merged.
THEOREM AliasesDeliver ==
  ASSUME NEW nodes, NEW A, GroupRules(nodes, A), ModeRules(nodes), AliasValues(nodes),
         ModesApart(nodes)
  PROVE  Spec => []AliasDelivered
<1>0. TreesOf(nodes, A) /\ DistinctIds(nodes)
  BY DEF GroupRules
<1>1. Init => Deep /\ LineLeft /\ AliasSoFar /\ SetSoFar /\ ByTarget /\ DeliveredSoFar /\ NoneOfModes
  <2>1. Init => targets = <<>> /\ ~Parsing /\ phase = "idle"
    BY DEF Init, Parsing
  <2>2. phase = "idle" => Deep /\ LineLeft
    BY DEF Deep, EnteredSoFar, ModeIsDeepest, LineLeft
  <2> QED
    BY <2>1, <2>2 DEF AliasSoFar, SetSoFar, ByTarget, DeliveredSoFar, NoneOfModes
<1>2. Typing(nodes, A) /\ Deep /\ [Next]_vars => Deep'
  BY <1>0, DeepStep
<1>3. Typing(nodes, A) /\ Deep /\ LineLeft /\ [Next]_vars => LineLeft'
  BY LineLeftStep
<1>4. Typing(nodes, A) /\ Running /\ LineLeft /\ AliasSoFar /\ [Next]_vars => AliasSoFar'
  BY AliasSoFarStep
<1>5. Typing(nodes, A) /\ Running /\ SetSoFar /\ [Next]_vars => SetSoFar'
  BY <1>0, SetSoFarStep
<1>6. Typing(nodes, A) /\ Running /\ SetSoFar /\ ByTarget /\ [Next]_vars => ByTarget'
  BY <1>0, ByTargetStep
<1>7. Typing(nodes, A) /\ Running /\ DeliveredSoFar /\ [Next]_vars => DeliveredSoFar'
  BY <1>0, DeliveredSoFarStep
<1>8. Typing(nodes, A) /\ Running /\ SetSoFar /\ ByTarget /\ DeliveredSoFar /\ NoneOfModes /\ AliasSoFar
        => AliasDelivered
  BY BroughtIsDelivered
<1>9. Spec => []Typing(nodes, A)
  BY <1>0, TypingHolds
<1>10. Typing(nodes, A) /\ NoneOfModes /\ [Next]_vars => NoneOfModes'
  BY <1>0, NoneOfModesStep
<1> QED
  BY <1>1, <1>2, <1>3, <1>4, <1>5, <1>6, <1>7, <1>8, <1>9, <1>10, RunningHolds, PTL DEF Spec
=============================================================================
