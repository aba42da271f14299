----------------------------- MODULE BasicProofs -----------------------------
(***************************************************************************)
(* Lemmas the other proofs rest on: proofs by the least counterexample,    *)
(* for what recursive functions are and compute, and the vector edits of   *)
(* SeqOps when the vector is cut in two, as dynamic_token_adapter cuts its *)
(* token list.                                                             *)
(***************************************************************************)
EXTENDS Integers, Sequences, SeqOps, SequenceTheorems, WellFoundedInduction, TLAPS

\* A set of natural numbers has a least one.
LEMMA LeastOfNumbers ==
  ASSUME NEW T \in SUBSET Nat, T # {}
  PROVE  \E m \in T : \A k \in T : m <= k
<1>1. PICK m \in T : \A k \in T : ~ (<<k, m>> \in OpToRel(<, Nat))
  BY WFMin, NatLessThanWellFounded
<1>2. \A k \in T : k < m => <<k, m>> \in OpToRel(<, Nat)
  BY DEF OpToRel
<1>3. \A k \in T : ~ (k < m)
  BY Zenon, <1>1, <1>2
<1> QED
  BY <1>3

\* What holds at 0 and goes from each number to the next holds up to n: T is
\* the set of the numbers at which it holds.
LEMMA UpTo ==
  ASSUME NEW n \in Nat, NEW T, 0 \in T, \A k \in 1 .. n : k - 1 \in T => k \in T
  PROVE  \A k \in 0 .. n : k \in T
<1> DEFINE Bad == {k \in 0 .. n : k \notin T}
<1>1. SUFFICES ASSUME Bad # {} PROVE FALSE
  OBVIOUS
<1>2. PICK m \in Bad : \A k \in Bad : m <= k
  BY <1>1, LeastOfNumbers, Bad \in SUBSET Nat
<1>3. m \in 1 .. n /\ m - 1 \in 0 .. n /\ m - 1 \notin Bad
  BY <1>2
<1> QED
  BY <1>2, <1>3
-----------------------------------------------------------------------------
\* Concatenation is associative.
LEMMA Assoc ==
  ASSUME NEW T, NEW a \in Seq(T), NEW b \in Seq(T), NEW c \in Seq(T)
  PROVE  (a \o b) \o c = a \o (b \o c)
OBVIOUS

\* What a concatenation holds at each index.
LEMMA ConcatFacts ==
  ASSUME NEW T, NEW a \in Seq(T), NEW b \in Seq(T)
  PROVE  /\ a \o b \in Seq(T)
         /\ Len(a \o b) = Len(a) + Len(b)
         /\ \A k \in 1 .. Len(a) + Len(b) :
              (a \o b)[k] = IF k <= Len(a) THEN a[k] ELSE b[k - Len(a)]
OBVIOUS

\* What a part of a sequence holds at each index.
LEMMA SubSeqFacts ==
  ASSUME NEW T, NEW q \in Seq(T), NEW m \in 1 .. Len(q) + 1, NEW n \in m - 1 .. Len(q)
  PROVE  /\ SubSeq(q, m, n) \in Seq(T)
         /\ Len(SubSeq(q, m, n)) = n - m + 1
         /\ \A k \in 1 .. n - m + 1 : SubSeq(q, m, n)[k] = q[k + m - 1]
OBVIOUS

\* A sequence is the concatenation of a front and a back that agree with it.
LEMMA Parts ==
  ASSUME NEW T, NEW u \in Seq(T), NEW a \in Seq(T), NEW b \in Seq(T),
         NEW n \in 0 .. Len(u), Len(a) = n, Len(b) = Len(u) - n,
         \A k \in 1 .. n : a[k] = u[k],
         \A k \in 1 .. Len(u) - n : b[k] = u[k + n]
  PROVE  a \o b = u
<1>1. /\ a \o b \in Seq(T) /\ Len(a \o b) = Len(u)
      /\ \A k \in 1 .. Len(u) :
              (a \o b)[k] = IF k <= n THEN a[k] ELSE b[k - n]
  BY ConcatFacts
<1>2. ASSUME NEW k \in 1 .. Len(u) PROVE (a \o b)[k] = u[k]
  <2>1. k \in Nat /\ n \in Nat /\ Len(u) \in Nat /\ k <= Len(u) /\ k >= 1
    OBVIOUS
  <2>2. CASE k <= n
    BY ONLY <1>1, <2>1, <2>2, \A j \in 1 .. n : a[j] = u[j]
  <2>3. CASE k > n
    <3>1. k - n \in 1 .. Len(u) - n /\ (k - n) + n = k
      BY ONLY <2>1, <2>3
    <3>2. QED
      BY ONLY <1>1, <2>1, <2>3, <3>1, \A j \in 1 .. Len(u) - n : b[j] = u[j + n]
  <2>4. QED
    BY <2>1, <2>2, <2>3
<1>3. QED
  BY ONLY <1>1, <1>2, u \in Seq(T), SeqEqual

\* Splitting a vector at n and joining the halves gives the vector back.
LEMMA Split ==
  ASSUME NEW T, NEW u \in Seq(T), NEW n \in 0 .. Len(u)
  PROVE  SubSeq(u, 1, n) \o SubSeq(u, n + 1, Len(u)) = u
<1>1. /\ SubSeq(u, 1, n) \in Seq(T) /\ SubSeq(u, n + 1, Len(u)) \in Seq(T)
      /\ Len(SubSeq(u, 1, n)) = n /\ Len(SubSeq(u, n + 1, Len(u))) = Len(u)-n
      /\ \A k \in 1..n : SubSeq(u, 1, n)[k] = u[k]
      /\ \A k \in 1..Len(u)-n : SubSeq(u, n+1, Len(u))[k] = u[k+n]
  BY SubSeqFacts
<1>2. QED
  BY ONLY <1>1, u \in Seq(T), n \in 0 .. Len(u), Parts

\* The front of two vectors, cut within the first one.
LEMMA FrontOfConcat ==
  ASSUME NEW T, NEW p \in Seq(T), NEW u \in Seq(T), NEW i \in 0 .. Len(p)
  PROVE  SubSeq(p \o u, 1, i) = SubSeq(p, 1, i)
<1>1. /\ p \o u \in Seq(T) /\ Len(p \o u) = Len(p) + Len(u)
      /\ \A k \in 1 .. Len(p) : (p \o u)[k] = p[k]
  BY ConcatFacts
<1>2. ASSUME NEW q \in Seq(T), Len(q) >= i
      PROVE  /\ SubSeq(q, 1, i) \in Seq(T)
             /\ Len(SubSeq(q, 1, i)) = i
             /\ \A k \in 1 .. i : SubSeq(q, 1, i)[k] = q[k]
  BY <1>2, SubSeqFacts
<1>3. \A k \in 1 .. i : (p \o u)[k] = p[k]
  BY ONLY <1>1, p \in Seq(T), i \in 0 .. Len(p)
<1>4. Len(p \o u) >= i /\ Len(p) >= i
  BY <1>1
<1>5. /\ SubSeq(p, 1, i) \in Seq(T) /\ SubSeq(p \o u, 1, i) \in Seq(T)
      /\ Len(SubSeq(p, 1, i)) = i /\ Len(SubSeq(p \o u, 1, i)) = i
      /\ \A k \in 1 .. i : SubSeq(p, 1, i)[k] = p[k]
      /\ \A k \in 1 .. i : SubSeq(p \o u, 1, i)[k] = (p \o u)[k]
  BY ONLY <1>1, <1>2, <1>4, p \in Seq(T)
<1>6. QED
  BY ONLY <1>3, <1>5, SeqEqual

\* The back of two vectors, cut within the first one.
LEMMA BackOfConcat ==
  ASSUME NEW T, NEW p \in Seq(T), NEW u \in Seq(T), NEW i \in 0 .. Len(p)
  PROVE  SubSeq(p \o u, i + 1, Len(p \o u)) = SubSeq(p, i + 1, Len(p)) \o u
<1>1. /\ p \o u \in Seq(T) /\ Len(p \o u) = Len(p) + Len(u)
      /\ \A k \in 1 .. Len(p) + Len(u) :
              (p \o u)[k] = IF k <= Len(p) THEN p[k] ELSE u[k - Len(p)]
  BY ConcatFacts
<1>2. ASSUME NEW q \in Seq(T), Len(q) >= i
      PROVE  /\ SubSeq(q, i + 1, Len(q)) \in Seq(T)
             /\ Len(SubSeq(q, i + 1, Len(q))) = Len(q) - i
             /\ \A k \in 1 .. Len(q) - i : SubSeq(q, i + 1, Len(q))[k] = q[k + i]
  BY <1>2, SubSeqFacts
<1>3. Len(p \o u) >= i /\ Len(p) >= i
  BY <1>1
<1>4. /\ SubSeq(p \o u, i + 1, Len(p \o u)) \in Seq(T)
      /\ Len(SubSeq(p \o u, i + 1, Len(p \o u))) = Len(p \o u) - i
      /\ \A k \in 1 .. Len(p \o u) - i :
           SubSeq(p \o u, i + 1, Len(p \o u))[k] = (p \o u)[k + i]
  BY ONLY <1>1, <1>2, <1>3
<1>5. /\ SubSeq(p, i + 1, Len(p)) \in Seq(T)
      /\ Len(SubSeq(p, i + 1, Len(p))) = Len(p) - i
      /\ \A k \in 1 .. Len(p) - i : SubSeq(p, i + 1, Len(p))[k] = p[k + i]
  BY ONLY <1>2, <1>3, p \in Seq(T)
<1>6. ASSUME NEW w \in Seq(T), NEW f \in Seq(T),
             Len(w) = Len(p \o u) - i, Len(f) = Len(p) - i,
             \A k \in 1 .. Len(p \o u) - i : w[k] = (p \o u)[k + i],
             \A k \in 1 .. Len(p) - i : f[k] = p[k + i]
      PROVE  f \o u = w
  <2>1. Len(f) \in 0 .. Len(w) /\ Len(u) = Len(w) - Len(f)
    BY ONLY <1>1, <1>6, u \in Seq(T), p \in Seq(T), i \in 0 .. Len(p)
  <2>2. \A k \in 1 .. Len(f) : f[k] = w[k]
    BY ONLY <1>1, <1>6, u \in Seq(T), p \in Seq(T), i \in 0 .. Len(p)
  <2>3. ASSUME NEW k \in 1 .. Len(w) - Len(f)
        PROVE  u[k] = w[k + Len(f)]
    <3>1. /\ k + Len(f) \in 1 .. Len(p \o u) - i
          /\ (k + Len(f)) + i = k + Len(p)
          /\ k + Len(p) \in 1 .. Len(p) + Len(u)
          /\ ~ (k + Len(p) <= Len(p))
          /\ (k + Len(p)) - Len(p) = k
      BY ONLY <1>1, <1>6, u \in Seq(T), p \in Seq(T), i \in 0 .. Len(p), <2>1,
              k \in 1 .. Len(w) - Len(f)
    <3>2. w[k + Len(f)] = (p \o u)[k + Len(p)]
      BY ONLY <1>6, <3>1
    <3>3. QED
      BY ONLY <1>1, <3>1, <3>2
  <2>4. QED BY ONLY <2>1, <2>2, <2>3, Parts, u \in Seq(T), w \in Seq(T), f \in Seq(T)
<1>7. QED
  BY ONLY <1>4, <1>5, <1>6

\* An insertion into the first of two vectors is one into the whole list.
LEMMA SpliceConcat ==
  ASSUME NEW T, NEW p \in Seq(T), NEW u \in Seq(T), NEW s \in Seq(T),
         NEW i \in 0 .. Len(p)
  PROVE  Splice(p \o u, i, s) = Splice(p, i, s) \o u
<1>1. SubSeq(p, 1, i) \in Seq(T) /\ SubSeq(p, i + 1, Len(p)) \in Seq(T)
  BY SubSeqFacts
<1>2. ASSUME NEW f \in Seq(T), NEW b \in Seq(T)
      PROVE  f \o s \o (b \o u) = (f \o s \o b) \o u
  <2>1. f \o s \in Seq(T)
    BY ConcatFacts
  <2>2. ASSUME NEW g \in Seq(T)
        PROVE  g \o (b \o u) = (g \o b) \o u
    BY ONLY g \in Seq(T), b \in Seq(T), u \in Seq(T)
  <2>3. QED
    BY ONLY <2>1, <2>2
<1>3. /\ SubSeq(p \o u, 1, i) = SubSeq(p, 1, i)
      /\ SubSeq(p \o u, i + 1, Len(p \o u)) = SubSeq(p, i + 1, Len(p)) \o u
  BY FrontOfConcat, BackOfConcat
<1>4. QED
  BY ONLY <1>1, <1>2, <1>3 DEF Splice

\* An insertion keeps a vector a vector, and makes it longer.
LEMMA SpliceType ==
  ASSUME NEW T, NEW p \in Seq(T), NEW s \in Seq(T), NEW i \in 0 .. Len(p)
  PROVE  /\ Splice(p, i, s) \in Seq(T)
         /\ Len(Splice(p, i, s)) = Len(p) + Len(s)
<1>1. /\ SubSeq(p, 1, i) \in Seq(T) /\ Len(SubSeq(p, 1, i)) = i
      /\ SubSeq(p, i + 1, Len(p)) \in Seq(T)
      /\ Len(SubSeq(p, i + 1, Len(p))) = Len(p) - i
  BY SubSeqFacts
<1>2. ASSUME NEW f \in Seq(T), NEW b \in Seq(T), Len(f) = i, Len(b) = Len(p) - i
      PROVE  f \o s \o b \in Seq(T) /\ Len(f \o s \o b) = Len(p) + Len(s)
  <2>1. f \o s \in Seq(T) /\ Len(f \o s) = Len(f) + Len(s)
    BY ONLY ConcatFacts, f \in Seq(T), s \in Seq(T)
  <2>2. f \o s \o b \in Seq(T) /\ Len(f \o s \o b) = Len(f \o s) + Len(b)
    BY ONLY ConcatFacts, <2>1, b \in Seq(T)
  <2>3. QED
    BY <1>2, <2>1, <2>2
<1>3. QED
  BY ONLY <1>1, <1>2 DEF Splice

\* A removal within the first of two vectors is one from the whole list.
LEMMA CutFront ==
  ASSUME NEW T, NEW p \in Seq(T), NEW u \in Seq(T),
         NEW i \in Nat, NEW n \in Nat, i + n <= Len(p)
  PROVE  Cut(p \o u, i, n) = Cut(p, i, n) \o u
<1>1. i \in 0 .. Len(p) /\ i + n \in 0 .. Len(p)
  OBVIOUS
<1>2. SubSeq(p, 1, i) \in Seq(T) /\ SubSeq(p, i + n + 1, Len(p)) \in Seq(T)
  BY <1>1, SubSeqFacts
<1>3. /\ SubSeq(p \o u, 1, i) = SubSeq(p, 1, i)
      /\ SubSeq(p \o u, (i + n) + 1, Len(p \o u)) = SubSeq(p, (i + n) + 1, Len(p)) \o u
  BY <1>1, FrontOfConcat, BackOfConcat
<1>4. ASSUME NEW f \in Seq(T), NEW b \in Seq(T)
      PROVE  f \o (b \o u) = (f \o b) \o u
  BY Assoc
<1>5. QED
  BY ONLY <1>2, <1>3, <1>4 DEF Cut

\* A removal keeps a vector a vector, and makes it shorter.
LEMMA CutType ==
  ASSUME NEW T, NEW p \in Seq(T), NEW i \in Nat, NEW n \in Nat, i + n <= Len(p)
  PROVE  Cut(p, i, n) \in Seq(T) /\ Len(Cut(p, i, n)) = Len(p) - n
<1>1. /\ SubSeq(p, 1, i) \in Seq(T) /\ Len(SubSeq(p, 1, i)) = i
      /\ SubSeq(p, i + n + 1, Len(p)) \in Seq(T)
      /\ Len(SubSeq(p, i + n + 1, Len(p))) = Len(p) - (i + n)
  BY SubSeqFacts
<1>2. ASSUME NEW f \in Seq(T), NEW b \in Seq(T),
             Len(f) = i, Len(b) = Len(p) - (i + n)
      PROVE  f \o b \in Seq(T) /\ Len(f \o b) = Len(p) - n
  <2>1. f \o b \in Seq(T) /\ Len(f \o b) = Len(f) + Len(b)
    BY ONLY ConcatFacts, f \in Seq(T), b \in Seq(T)
  <2>2. Len(p) \in Nat
    OBVIOUS
  <2>3. QED
    BY ONLY <1>2, <2>1, <2>2, i \in Nat, n \in Nat
<1>3. QED
  BY ONLY <1>1, <1>2 DEF Cut

\* An insertion between two vectors is one at the end of the first.
LEMMA SpliceBetween ==
  ASSUME NEW T, NEW p \in Seq(T), NEW u \in Seq(T), NEW s \in Seq(T)
  PROVE  Splice(p \o u, Len(p), s) = p \o (s \o u)
<1>1. Len(p) \in 0 .. Len(p)
  OBVIOUS
<1>2. Splice(p \o u, Len(p), s) = Splice(p, Len(p), s) \o u
  BY <1>1, SpliceConcat
<1>3. SubSeq(p, 1, Len(p)) = p /\ SubSeq(p, Len(p) + 1, Len(p)) = << >>
  BY ONLY p \in Seq(T)
<1>4. p \o s \o << >> = p \o s
  BY ONLY p \in Seq(T), s \in Seq(T)
<1>5. Splice(p, Len(p), s) = p \o s
  BY ONLY <1>3, <1>4 DEF Splice
<1>6. (p \o s) \o u = p \o (s \o u)
  BY ONLY p \in Seq(T), s \in Seq(T), u \in Seq(T)
<1>7. QED
  BY ONLY <1>2, <1>5, <1>6

\* What an insertion leaves in front of it, and what it puts at its place.
LEMMA SpliceFacts ==
  ASSUME NEW T, NEW q \in Seq(T), NEW s \in Seq(T), NEW i \in 0 .. Len(q)
  PROVE  /\ \A k \in 1 .. i : Splice(q, i, s)[k] = q[k]
         /\ \A k \in 1 .. Len(s) : Splice(q, i, s)[i + k] = s[k]
<1>1. /\ SubSeq(q, 1, i) \in Seq(T) /\ Len(SubSeq(q, 1, i)) = i
      /\ SubSeq(q, i + 1, Len(q)) \in Seq(T)
      /\ \A k \in 1 .. i : SubSeq(q, 1, i)[k] = q[k]
  BY SubSeqFacts
<1>2. ASSUME NEW f \in Seq(T), NEW b \in Seq(T), Len(f) = i,
             \A k \in 1 .. i : f[k] = q[k]
      PROVE  /\ \A k \in 1 .. i : (f \o s \o b)[k] = q[k]
             /\ \A k \in 1 .. Len(s) : (f \o s \o b)[i + k] = s[k]
  <2>1. /\ f \o s \in Seq(T) /\ Len(f \o s) = i + Len(s)
        /\ \A k \in 1 .. i + Len(s) :
              (f \o s)[k] = IF k <= i THEN f[k] ELSE s[k - i]
    BY ONLY <1>2, ConcatFacts, f \in Seq(T), s \in Seq(T)
  <2>2. \A k \in 1 .. Len(f \o s) : (f \o s \o b)[k] = (f \o s)[k]
    <3>1. ASSUME NEW g \in Seq(T), NEW k \in 1 .. Len(g) PROVE (g \o b)[k] = g[k]
      BY ONLY g \in Seq(T), b \in Seq(T), k \in 1 .. Len(g)
    <3>2. QED
      BY ONLY <2>1, <3>1
  <2>3. Len(s) \in Nat /\ i \in Nat
    OBVIOUS
  <2>4. ASSUME NEW k \in 1 .. i PROVE (f \o s \o b)[k] = q[k]
    <3>1. k \in 1 .. i + Len(s) /\ k <= i
      BY ONLY <2>3, k \in 1 .. i
    <3>2. QED
      BY ONLY <1>2, <2>1, <2>2, <3>1, k \in 1 .. i
  <2>5. ASSUME NEW k \in 1 .. Len(s) PROVE (f \o s \o b)[i + k] = s[k]
    <3>1. i + k \in 1 .. i + Len(s) /\ ~ (i + k <= i) /\ (i + k) - i = k
      BY ONLY <2>3, k \in 1 .. Len(s)
    <3>2. QED
      BY ONLY <2>1, <2>2, <3>1
  <2>6. QED
    BY ONLY <2>4, <2>5
<1>3. QED
  BY ONLY <1>1, <1>2 DEF Splice

\* What is left after a removal.
LEMMA CutFacts ==
  ASSUME NEW T, NEW q \in Seq(T), NEW i \in Nat, NEW n \in Nat, i + n <= Len(q)
  PROVE  \A k \in 1 .. Len(q) - n : Cut(q, i, n)[k] = IF k <= i THEN q[k] ELSE q[k + n]
<1>1. /\ SubSeq(q, 1, i) \in Seq(T) /\ Len(SubSeq(q, 1, i)) = i
      /\ SubSeq(q, i + n + 1, Len(q)) \in Seq(T)
      /\ Len(SubSeq(q, i + n + 1, Len(q))) = Len(q) - (i + n)
      /\ \A k \in 1 .. i : SubSeq(q, 1, i)[k] = q[k]
      /\ \A k \in 1 .. Len(q) - (i + n) :
           SubSeq(q, i + n + 1, Len(q))[k] = q[k + (i + n)]
  BY SubSeqFacts
<1>2. ASSUME NEW f \in Seq(T), NEW b \in Seq(T),
             Len(f) = i, Len(b) = Len(q) - (i + n),
             \A k \in 1 .. i : f[k] = q[k],
             \A k \in 1 .. Len(q) - (i + n) : b[k] = q[k + (i + n)],
             NEW k \in 1 .. Len(q) - n
      PROVE  (f \o b)[k] = IF k <= i THEN q[k] ELSE q[k + n]
  <2>1. \A j \in 1 .. Len(f) + Len(b) :
              (f \o b)[j] = IF j <= Len(f) THEN f[j] ELSE b[j - Len(f)]
    BY ONLY ConcatFacts, f \in Seq(T), b \in Seq(T)
  <2>2. Len(q) \in Nat /\ k \in 1 .. Len(f) + Len(b)
    BY ONLY <1>2, q \in Seq(T), i \in Nat, n \in Nat
  <2>3. CASE k <= i
    <3>1. k \in 1 .. i /\ k <= Len(f)
      BY ONLY <1>2, <2>2, <2>3, i \in Nat, n \in Nat
    <3>2. QED
      BY ONLY <1>2, <2>1, <2>2, <2>3, <3>1
  <2>4. CASE ~ (k <= i)
    <3>1. /\ k - i \in 1 .. Len(q) - (i + n) /\ (k - i) + (i + n) = k + n
          /\ ~ (k <= Len(f)) /\ k - Len(f) = k - i
      BY ONLY <1>2, <2>2, <2>4, i \in Nat, n \in Nat
    <3>2. b[k - i] = q[k + n]
      BY ONLY <1>2, <3>1
    <3>3. QED
      BY ONLY <2>1, <2>2, <2>4, <3>1, <3>2
  <2>5. QED
    BY <2>3, <2>4
<1>3. QED
  BY ONLY <1>1, <1>2 DEF Cut

\* A removal within the second of two vectors is one from the whole list.
LEMMA CutBack ==
  ASSUME NEW T, NEW p \in Seq(T), NEW u \in Seq(T), NEW j \in Nat, j + 1 <= Len(u)
  PROVE  Cut(p \o u, Len(p) + j, 1) = p \o Cut(u, j, 1)
<1>1. /\ p \o u \in Seq(T) /\ Len(p \o u) = Len(p) + Len(u)
      /\ \A k \in 1 .. Len(p) + Len(u) :
              (p \o u)[k] = IF k <= Len(p) THEN p[k] ELSE u[k - Len(p)]
  BY ConcatFacts
<1>2. Len(p) \in Nat /\ Len(u) \in Nat
  OBVIOUS
<1>3. /\ Cut(u, j, 1) \in Seq(T) /\ Len(Cut(u, j, 1)) = Len(u) - 1
      /\ \A k \in 1 .. Len(u) - 1 :
           Cut(u, j, 1)[k] = IF k <= j THEN u[k] ELSE u[k + 1]
  BY CutType, CutFacts
<1>4. Len(p) + j \in Nat /\ (Len(p) + j) + 1 <= Len(p \o u) /\ 1 \in Nat
  BY ONLY <1>1, <1>2, j \in Nat, j + 1 <= Len(u)
<1>5. /\ Cut(p \o u, Len(p) + j, 1) \in Seq(T)
      /\ Len(Cut(p \o u, Len(p) + j, 1)) = Len(p \o u) - 1
      /\ \A k \in 1 .. Len(p \o u) - 1 :
           Cut(p \o u, Len(p) + j, 1)[k]
             = IF k <= Len(p) + j THEN (p \o u)[k] ELSE (p \o u)[k + 1]
  <2>1. ASSUME NEW q \in Seq(T), NEW i \in Nat, i + 1 <= Len(q)
        PROVE  /\ Cut(q, i, 1) \in Seq(T)
               /\ Len(Cut(q, i, 1)) = Len(q) - 1
               /\ \A k \in 1 .. Len(q) - 1 :
                    Cut(q, i, 1)[k] = IF k <= i THEN q[k] ELSE q[k + 1]
    BY <2>1, CutType, CutFacts
  <2>2. QED
    BY ONLY <1>1, <1>4, <2>1
<1>6. ASSUME NEW c \in Seq(T), NEW w \in Seq(T),
             Len(c) = Len(u) - 1, Len(w) = Len(p \o u) - 1,
             \A k \in 1 .. Len(u) - 1 : c[k] = IF k <= j THEN u[k] ELSE u[k + 1],
             \A k \in 1 .. Len(p \o u) - 1 :
               w[k] = IF k <= Len(p) + j THEN (p \o u)[k] ELSE (p \o u)[k + 1]
      PROVE  w = p \o c
  <2>1. Len(p) \in 0 .. Len(w) /\ Len(c) = Len(w) - Len(p)
    BY ONLY <1>1, <1>2, <1>6, j \in Nat, j + 1 <= Len(u)
  <2>2. \A k \in 1 .. Len(p) : p[k] = w[k]
    BY ONLY <1>1, <1>2, <1>6, j \in Nat, j + 1 <= Len(u)
  <2>3. ASSUME NEW k \in 1 .. Len(w) - Len(p)
        PROVE  c[k] = w[k + Len(p)]
    <3>1. /\ k \in 1 .. Len(u) - 1 /\ k + Len(p) \in 1 .. Len(p \o u) - 1
          /\ (k + Len(p)) - Len(p) = k /\ ((k + Len(p)) + 1) - Len(p) = k + 1
          /\ k + Len(p) \in 1 .. Len(p) + Len(u)
          /\ (k + Len(p)) + 1 \in 1 .. Len(p) + Len(u)
          /\ ~ (k + Len(p) <= Len(p)) /\ ~ ((k + Len(p)) + 1 <= Len(p))
          /\ (k <= j) <=> (k + Len(p) <= Len(p) + j)
      BY ONLY <1>1, <1>2, <1>6, <2>1, j \in Nat, k \in 1 .. Len(w) - Len(p)
    <3>2. (p \o u)[k + Len(p)] = u[k] /\ (p \o u)[(k + Len(p)) + 1] = u[k + 1]
      BY ONLY <1>1, <3>1
    <3>3. QED
      BY ONLY <1>6, <3>1, <3>2
  <2>4. QED
    BY ONLY <2>1, <2>2, <2>3, Parts, p \in Seq(T), c \in Seq(T), w \in Seq(T)
<1>7. QED
  BY ONLY <1>3, <1>5, <1>6

\* A token of the first vector overwritten is one of the whole list.
LEMMA RewriteConcat ==
  ASSUME NEW T, NEW p \in Seq(T), NEW u \in Seq(T), NEW k \in 1 .. Len(p), NEW v \in T
  PROVE  /\ [p EXCEPT ![k] = v] \in Seq(T)
         /\ Len([p EXCEPT ![k] = v]) = Len(p)
         /\ [p EXCEPT ![k] = v] \o u = [(p \o u) EXCEPT ![k] = v]
<1>1. /\ p \o u \in Seq(T) /\ Len(p \o u) = Len(p) + Len(u)
      /\ \A j \in 1 .. Len(p) + Len(u) :
              (p \o u)[j] = IF j <= Len(p) THEN p[j] ELSE u[j - Len(p)]
  BY ConcatFacts
<1>2. ASSUME NEW q \in Seq(T), NEW i \in 1 .. Len(q)
      PROVE  /\ [q EXCEPT ![i] = v] \in Seq(T)
             /\ Len([q EXCEPT ![i] = v]) = Len(q)
             /\ \A j \in 1 .. Len(q) :
                  [q EXCEPT ![i] = v][j] = IF j = i THEN v ELSE q[j]
  BY ExceptSeq
<1>3. Len(p) \in Nat /\ Len(u) \in Nat /\ k \in 1 .. Len(p \o u)
  BY ONLY <1>1, p \in Seq(T), u \in Seq(T), k \in 1 .. Len(p)
<1>4. /\ [p EXCEPT ![k] = v] \in Seq(T) /\ Len([p EXCEPT ![k] = v]) = Len(p)
      /\ \A j \in 1 .. Len(p) :
           [p EXCEPT ![k] = v][j] = IF j = k THEN v ELSE p[j]
      /\ [(p \o u) EXCEPT ![k] = v] \in Seq(T)
      /\ Len([(p \o u) EXCEPT ![k] = v]) = Len(p \o u)
      /\ \A j \in 1 .. Len(p \o u) :
           [(p \o u) EXCEPT ![k] = v][j] = IF j = k THEN v ELSE (p \o u)[j]
  BY ONLY <1>1, <1>2, <1>3, p \in Seq(T), k \in 1 .. Len(p)
<1>5. ASSUME NEW f \in Seq(T), NEW w \in Seq(T),
             Len(f) = Len(p), Len(w) = Len(p \o u),
             \A j \in 1 .. Len(p) : f[j] = IF j = k THEN v ELSE p[j],
             \A j \in 1 .. Len(p \o u) : w[j] = IF j = k THEN v ELSE (p \o u)[j]
      PROVE  f \o u = w
  <2>1. Len(f) \in 0 .. Len(w) /\ Len(u) = Len(w) - Len(f)
    BY ONLY <1>1, <1>3, <1>5
  <2>2. \A j \in 1 .. Len(f) : f[j] = w[j]
    BY ONLY <1>1, <1>3, <1>5
  <2>3. ASSUME NEW j \in 1 .. Len(w) - Len(f)
        PROVE  u[j] = w[j + Len(f)]
    <3>1. /\ j + Len(p) \in 1 .. Len(p) + Len(u) /\ j + Len(p) # k
          /\ ~ (j + Len(p) <= Len(p)) /\ (j + Len(p)) - Len(p) = j
      BY ONLY <1>1, <1>3, <1>5, k \in 1 .. Len(p), j \in 1 .. Len(w) - Len(f)
    <3>2. QED
      BY ONLY <1>1, <1>5, <3>1
  <2>4. QED
    BY ONLY <2>1, <2>2, <2>3, Parts, u \in Seq(T), f \in Seq(T), w \in Seq(T)
<1>6. QED
  BY ONLY <1>4, <1>5

\* Moving a front of the second vector to the first changes no token.
LEMMA MoveFront ==
  ASSUME NEW T, NEW p \in Seq(T), NEW u \in Seq(T), NEW n \in 0 .. Len(u)
  PROVE  (p \o SubSeq(u, 1, n)) \o SubSeq(u, n + 1, Len(u)) = p \o u
<1>1. SubSeq(u, 1, n) \in Seq(T) /\ SubSeq(u, n + 1, Len(u)) \in Seq(T)
  BY SubSeqFacts
<1>2. SubSeq(u, 1, n) \o SubSeq(u, n + 1, Len(u)) = u
  BY Split
<1>3. ASSUME NEW f \in Seq(T), NEW b \in Seq(T), f \o b = u
      PROVE  (p \o f) \o b = p \o u
  <2>1. (p \o f) \o b = p \o (f \o b)
    BY ONLY p \in Seq(T), f \in Seq(T), b \in Seq(T)
  <2>2. QED
    BY ONLY <1>3, <2>1
<1>4. QED
  BY ONLY <1>1, <1>2, <1>3

\* The lengths of the two vectors after that move.
LEMMA MoveFrontType ==
  ASSUME NEW T, NEW p \in Seq(T), NEW u \in Seq(T), NEW n \in 0 .. Len(u)
  PROVE  /\ p \o SubSeq(u, 1, n) \in Seq(T)
         /\ SubSeq(u, n + 1, Len(u)) \in Seq(T)
         /\ Len(p \o SubSeq(u, 1, n)) = Len(p) + n
         /\ Len(SubSeq(u, n + 1, Len(u))) = Len(u) - n
<1>1. /\ SubSeq(u, 1, n) \in Seq(T) /\ Len(SubSeq(u, 1, n)) = n
      /\ SubSeq(u, n + 1, Len(u)) \in Seq(T)
      /\ Len(SubSeq(u, n + 1, Len(u))) = Len(u) - n
  BY SubSeqFacts
<1>2. ASSUME NEW f \in Seq(T), Len(f) = n
      PROVE  p \o f \in Seq(T) /\ Len(p \o f) = Len(p) + n
  BY ONLY p \in Seq(T), f \in Seq(T), Len(f) = n, ConcatFacts
<1>3. QED
  BY ONLY <1>1, <1>2
=============================================================================
