----------------------------- MODULE TreeProofs -----------------------------
(***************************************************************************)
(* What a node of a parse tree can make of a command line, for every node, *)
(* every tree and every text: the types of the outcome of an attempt, and  *)
(* the nodes whose targets it may add.                                     *)
(***************************************************************************)
EXTENDS TreeNode, BasicProofs

-----------------------------------------------------------------------------
\* What FlattenSeq computes

\* The first n of the sequences ss, put together
Together(ss, n, g) ==
  g = [k \in 1 .. n |-> IF k = 1 THEN ss[k] ELSE g[k - 1] \o ss[k]]

LEMMA TogetherExists ==
  ASSUME NEW ss, NEW n \in Nat
  PROVE  \E g : Together(ss, n, g)
<1> DEFINE T == {m \in 0 .. n : \E g : Together(ss, m, g)}
<1>1. 0 \in T
  <2>1. Together(ss, 0, [k \in 1 .. 0 |-> 0])
    BY DEF Together
  <2> QED
    BY <2>1
<1>2. ASSUME NEW m \in 1 .. n, m - 1 \in T PROVE m \in T
  <2>1. PICK g : Together(ss, m - 1, g)
    BY <1>2
  <2> DEFINE h == [k \in 1 .. m |-> IF k = m THEN IF m = 1 THEN ss[m] ELSE g[m - 1] \o ss[m]
                                             ELSE g[k]]
  <2>2. \A k \in 1 .. m - 1 : g[k] = IF k = 1 THEN ss[k] ELSE g[k - 1] \o ss[k]
    BY <2>1 DEF Together
  <2>3. \A k \in 1 .. m : h[k] = IF k = 1 THEN ss[k] ELSE h[k - 1] \o ss[k]
    BY <2>2
  <2>4. Together(ss, m, h)
    BY <2>3 DEF Together
  <2> QED
    BY <2>4
<1> HIDE DEF T
<1>3. n \in T
  BY <1>1, <1>2, UpTo
<1> QED
  BY <1>3 DEF T

\* FlattenSeq makes one sequence of the elements of all.
LEMMA FlattenElements ==
  ASSUME NEW S, NEW ss \in Seq(Seq(S))
  PROVE  /\ FlattenSeq(ss) \in Seq(S)
         /\ ToSet(FlattenSeq(ss)) = UNION {ToSet(ss[k]) : k \in DOMAIN ss}
<1>1. CASE ss = <<>>
  BY <1>1 DEF FlattenSeq, ToSet
<1>2. CASE ss # <<>>
  <2> DEFINE n == Len(ss)
             f == CHOOSE g : Together(ss, n, g)
  <2>1. n \in Nat \ {0} /\ DOMAIN ss = 1 .. n
    BY <1>2
  <2>2. Together(ss, n, f)
    BY <2>1, TogetherExists
  <2>3. FlattenSeq(ss) = f[n]
    BY <2>1 DEF FlattenSeq, Together
  <2> HIDE DEF f, n
  <2>4. \A k \in 1 .. n : f[k] = IF k = 1 THEN ss[k] ELSE f[k - 1] \o ss[k]
    BY <2>2 DEF Together
  <2> DEFINE T == {k \in 0 .. n : k > 0 =>
                     /\ f[k] \in Seq(S)
                     /\ ToSet(f[k]) = UNION {ToSet(ss[j]) : j \in 1 .. k}}
  <2>5. 0 \in T
    BY <2>1
  <2>6. ASSUME NEW k \in 1 .. n, k - 1 \in T PROVE k \in T
    <3>1. CASE k = 1
      <4>1. f[1] = ss[1] /\ ss[1] \in Seq(S)
        BY <2>1, <2>4
      <4>2. UNION {ToSet(ss[j]) : j \in 1 .. 1} = ToSet(ss[1])
        OBVIOUS
      <4> QED
        BY <2>1, <3>1, <4>1, <4>2
    <3>2. CASE k # 1
      <4>1. k - 1 \in 1 .. n /\ k \in 0 .. n
        BY <2>1, <3>2
      <4>2. f[k - 1] \in Seq(S) /\ ToSet(f[k - 1]) = UNION {ToSet(ss[j]) : j \in 1 .. k - 1}
        BY <2>6, <4>1
      <4>3. f[k] = f[k - 1] \o ss[k] /\ ss[k] \in Seq(S)
        <5>1. k \in 1 .. n /\ k \in DOMAIN ss
          BY <2>1
        <5>2. f[k] = f[k - 1] \o ss[k]
          BY ONLY <2>4, <3>2, k \in 1 .. n
        <5> QED
          BY <5>1, <5>2
      <4>4. f[k] \in Seq(S)
        BY <4>2, <4>3
      <4>5. ToSet(f[k]) = ToSet(f[k - 1]) \cup ToSet(ss[k])
        <5>1. ASSUME NEW p \in Seq(S), NEW q \in Seq(S)
              PROVE  ToSet(p \o q) = ToSet(p) \cup ToSet(q)
          <6>1. /\ p \o q \in Seq(S) /\ Len(p \o q) = Len(p) + Len(q)
                /\ \A j \in 1 .. Len(p) + Len(q) :
                     (p \o q)[j] = IF j <= Len(p) THEN p[j] ELSE q[j - Len(p)]
            BY ConcatFacts
          <6>2. \A j \in 1 .. Len(p) : (p \o q)[j] = p[j]
            BY <6>1
          <6>3. \A j \in 1 .. Len(q) : (p \o q)[j + Len(p)] = q[j]
            BY <6>1
          <6>4. DOMAIN p = 1 .. Len(p) /\ DOMAIN q = 1 .. Len(q) /\ DOMAIN (p \o q) = 1 .. Len(p) + Len(q)
            BY <6>1
          <6>5. ToSet(p) \subseteq ToSet(p \o q)
            BY <6>2, <6>4 DEF ToSet
          <6>6. ToSet(q) \subseteq ToSet(p \o q)
            <7> SUFFICES ASSUME NEW j \in 1 .. Len(q) PROVE \E m \in 1 .. Len(p) + Len(q) : q[j] = (p \o q)[m]
              BY <6>4 DEF ToSet
            <7>1. j + Len(p) \in 1 .. Len(p) + Len(q)
              OBVIOUS
            <7> QED
              BY <6>3, <7>1
          <6>7. ToSet(p \o q) \subseteq ToSet(p) \cup ToSet(q)
            <7> SUFFICES ASSUME NEW j \in 1 .. Len(p) + Len(q)
                         PROVE  (p \o q)[j] \in ToSet(p) \cup ToSet(q)
              BY <6>4 DEF ToSet
            <7>1. CASE j <= Len(p)
              BY <6>1, <6>4, <7>1 DEF ToSet
            <7>2. CASE j > Len(p)
              <8>1. j - Len(p) \in 1 .. Len(q) /\ (p \o q)[j] = q[j - Len(p)]
                BY <6>1, <7>2
              <8> QED
                BY <6>4, <8>1 DEF ToSet
            <7> QED
              BY <7>1, <7>2
          <6> QED
            BY <6>5, <6>6, <6>7
        <5> QED
          BY <4>2, <4>3, <5>1
      <4>6. UNION {ToSet(ss[j]) : j \in 1 .. k}
              = (UNION {ToSet(ss[j]) : j \in 1 .. k - 1}) \cup ToSet(ss[k])
        <5>1. 1 .. k = 1 .. k - 1 \cup {k}
          BY <4>1
        <5> QED
          BY <5>1
      <4> QED
        BY <4>1, <4>2, <4>4, <4>5, <4>6
    <3> QED
      BY <3>1, <3>2
  <2> HIDE DEF T
  <2>7. n \in T
    <3>1. \A k \in 0 .. n : k \in T
      BY <2>1, <2>5, <2>6, UpTo
    <3> QED
      BY <2>1, <3>1
  <2> QED
    BY <2>1, <2>3, <2>7 DEF T
<1> QED
  BY <1>1, <1>2

\* The nodes of a tree are its children and theirs.
LEMMA NodesAre ==
  ASSUME NEW nodes, \A n \in nodes : n.children \in Seq(nodes), NEW children \in Seq(nodes)
  PROVE  /\ Nodes(children) \in Seq(nodes)
         /\ ToSet(Nodes(children))
              = UNION {{children[k]} \cup ToSet(children[k].children) : k \in DOMAIN children}
<1> DEFINE ss == [k \in DOMAIN children |-> <<children[k]>> \o children[k].children]
<1>1. \A k \in DOMAIN children : children[k] \in nodes /\ children[k].children \in Seq(nodes)
  OBVIOUS
<1>2. ASSUME NEW k \in DOMAIN children
      PROVE  /\ ss[k] \in Seq(nodes)
             /\ ToSet(ss[k]) = {children[k]} \cup ToSet(children[k].children)
  <2>1. ASSUME NEW n \in nodes, NEW q \in Seq(nodes)
        PROVE  <<n>> \o q \in Seq(nodes) /\ ToSet(<<n>> \o q) = {n} \cup ToSet(q)
    <3>1. /\ <<n>> \in Seq(nodes) /\ <<n>> \o q \in Seq(nodes) /\ Len(<<n>> \o q) = 1 + Len(q)
          /\ (<<n>> \o q)[1] = n /\ \A j \in 1 .. Len(q) : (<<n>> \o q)[j + 1] = q[j]
      BY Z3
    <3>2. DOMAIN q = 1 .. Len(q) /\ DOMAIN (<<n>> \o q) = 1 .. 1 + Len(q) /\ Len(q) \in Nat
      BY <3>1
    <3>3. ToSet(<<n>> \o q) \subseteq {n} \cup ToSet(q)
      <4> SUFFICES ASSUME NEW j \in 1 .. 1 + Len(q), j # 1
                   PROVE  (<<n>> \o q)[j] \in ToSet(q)
        BY <3>1, <3>2 DEF ToSet
      <4>1. j - 1 \in 1 .. Len(q) /\ (j - 1) + 1 = j
        BY <3>2
      <4> QED
        BY <3>1, <3>2, <4>1 DEF ToSet
    <3>4. ToSet(q) \subseteq ToSet(<<n>> \o q)
      <4> SUFFICES ASSUME NEW j \in 1 .. Len(q) PROVE q[j] \in ToSet(<<n>> \o q)
        BY <3>2 DEF ToSet
      <4>1. j + 1 \in 1 .. 1 + Len(q)
        BY <3>2
      <4> QED
        BY <3>1, <3>2, <4>1 DEF ToSet
    <3>5. n \in ToSet(<<n>> \o q)
      BY <3>1, <3>2 DEF ToSet
    <3> QED
      BY <3>1, <3>3, <3>4, <3>5
  <2> QED
    BY <1>1, <2>1
<1>3. ss \in Seq(Seq(nodes)) /\ DOMAIN ss = DOMAIN children
  <2>1. DOMAIN ss = 1 .. Len(children) /\ Len(children) \in Nat
    OBVIOUS
  <2>2. ss = [k \in 1 .. Len(children) |-> ss[k]] /\ \A k \in 1 .. Len(children) : ss[k] \in Seq(nodes)
    BY <1>2, <2>1
  <2> HIDE DEF ss
  <2>3. ss \in [1 .. Len(children) -> Seq(nodes)]
    BY <2>2
  <2> QED
    BY <2>1, <2>3
<1>4. Nodes(children) = FlattenSeq(ss)
  BY DEF Nodes
<1> HIDE DEF ss
<1>5. ToSet(FlattenSeq(ss)) = UNION {ToSet(ss[k]) : k \in DOMAIN ss} /\ FlattenSeq(ss) \in Seq(nodes)
  BY <1>3, FlattenElements
<1> QED
  BY <1>2, <1>3, <1>4, <1>5
-----------------------------------------------------------------------------
\* The types of tokens over an alphabet A, of adapters and of phase states

Toks(A)  == [pre : {"none", "short", "long"}, name : Seq(A)]
Words(A) == [pre : {"none", "short"}, name : Seq(A)]

Adapters(A) == [p : Seq(Toks(A)), u : Seq(Words(A))]

TargetsOf(A, ids) == [node : ids, tokens : Seq(Toks(A))]

Codes == {"", "missing_value_separator", "length_error", "minimum_count_not_reached",
          "maximum_count_exceeded", "too_few_values_for_alias", "dependent_argument_missing"}

States(A, ids) == [a : Adapters(A), act : {"valid", "skip", "subs", "error", "throw"},
                   code : Codes, subs : Seq(TargetsOf(A, ids))]

LEMMA AdapterParts ==
  ASSUME NEW A, NEW a \in Adapters(A)
  PROVE  \E p \in Seq(Toks(A)), u \in Seq(Words(A)) :
           /\ a = [p |-> p, u |-> u]
           /\ Size(a) = Len(p) + Len(u)
           /\ Len(p) \in Nat /\ Len(u) \in Nat
<1>1. a.p \in Seq(Toks(A)) /\ a.u \in Seq(Words(A)) /\ a = [p |-> a.p, u |-> a.u]
  BY DEF Adapters
<1> QED
  BY <1>1 DEF Size

LEMMA WordsAreTokens == \A A : Words(A) \subseteq Toks(A) /\ Seq(Words(A)) \subseteq Seq(Toks(A))
<1> SUFFICES ASSUME NEW A PROVE Words(A) \subseteq Toks(A) /\ Seq(Words(A)) \subseteq Seq(Toks(A))
  OBVIOUS
<1>1. Words(A) \subseteq Toks(A)
  BY DEF Words, Toks
<1> QED
  BY <1>1

\* How many tokens transfer() moves from the unprocessed ones u behind the
\* processed ones p
Moved(p, u, it) ==
  IF it >= Len(p) + Len(u) THEN Len(u) ELSE IF it < Len(p) THEN 0 ELSE it + 1 - Len(p)

LEMMA TransferMoves ==
  ASSUME NEW A, NEW p \in Seq(Toks(A)), NEW u \in Seq(Words(A)), NEW it \in Int
  PROVE  /\ Moved(p, u, it) \in 0 .. Len(u)
         /\ Transfer([p |-> p, u |-> u], it)
              = [p |-> p \o SubSeq(u, 1, Moved(p, u, it)),
                 u |-> SubSeq(u, Moved(p, u, it) + 1, Len(u))]
<1> DEFINE i == IF it = End \/ it >= Len(p) + Len(u) THEN Len(p) + Len(u) - 1 ELSE it
           n == i + 1 - Len(p)
           m == Moved(p, u, it)
<1>1. Transfer([p |-> p, u |-> u], it)
        = IF i < Len(p) THEN [p |-> p, u |-> u]
          ELSE [p |-> p \o SubSeq(u, 1, n), u |-> SubSeq(u, n + 1, Len(u))]
  BY DEF Transfer, IsEnd, Size
<1>2. /\ Len(p) \in Nat /\ Len(u) \in Nat
      /\ i = IF it >= Len(p) + Len(u) THEN Len(p) + Len(u) - 1 ELSE it
  BY EndAssumption
<1> HIDE DEF i
<1>3. m \in 0 .. Len(u) /\ (~(i < Len(p)) => n = m) /\ (i < Len(p) => m = 0)
  BY ONLY <1>2, it \in Int DEF Moved
<1> HIDE DEF m, n
<1>4. p \o SubSeq(u, 1, 0) = p /\ SubSeq(u, 0 + 1, Len(u)) = u
  <2>1. SubSeq(u, 1, 0) = <<>> /\ SubSeq(u, 0 + 1, Len(u)) = u
    BY ONLY u \in Seq(Words(A))
  <2>2. p \o <<>> = p
    BY ONLY p \in Seq(Toks(A))
  <2> QED
    BY <2>1, <2>2
<1> QED
  BY ONLY <1>1, <1>3, <1>4 DEF m

\* What is left for other nodes are words, or flags of a collapsed one; no
\* token is lost, and those up to it are claimed.
LEMMA TransferTyped ==
  ASSUME NEW A, NEW a \in Adapters(A), NEW it \in Int
  PROVE  /\ Transfer(a, it) \in Adapters(A)
         /\ it < Size(a) => Len(Transfer(a, it).p) >= it + 1
         /\ Tokens(Transfer(a, it)) = Tokens(a)
         /\ Size(Transfer(a, it)) = Size(a)
         /\ Len(Transfer(a, it).p) = Len(a.p) + Moved(a.p, a.u, it)
<1>1. PICK p \in Seq(Toks(A)), u \in Seq(Words(A)) :
        /\ a = [p |-> p, u |-> u]
        /\ Size(a) = Len(p) + Len(u)
        /\ Len(p) \in Nat /\ Len(u) \in Nat
  BY AdapterParts
<1>2. PICK n \in 0 .. Len(u) :
        /\ Transfer(a, it) = [p |-> p \o SubSeq(u, 1, n), u |-> SubSeq(u, n + 1, Len(u))]
        /\ n = Moved(p, u, it)
  BY <1>1, TransferMoves
<1>3. /\ p \o SubSeq(u, 1, n) \in Seq(Toks(A))
      /\ Len(p \o SubSeq(u, 1, n)) = Len(p) + n
      /\ (p \o SubSeq(u, 1, n)) \o SubSeq(u, n + 1, Len(u)) = p \o u
  <2>1. u \in Seq(Toks(A))
    BY WordsAreTokens
  <2> QED
    BY <2>1, MoveFrontType, MoveFront
<1>4. /\ SubSeq(u, n + 1, Len(u)) \in Seq(Words(A))
      /\ Len(SubSeq(u, n + 1, Len(u))) = Len(u) - n
  BY ONLY n \in 0 .. Len(u), u \in Seq(Words(A)), MoveFrontType, <<>> \in Seq(Words(A))
<1>5. PICK q \in Seq(Toks(A)), w \in Seq(Words(A)) :
        /\ Transfer(a, it) = [p |-> q, u |-> w]
        /\ q \o w = p \o u /\ Len(q) = Len(p) + n /\ Len(w) = Len(u) - n
  BY ONLY <1>2, <1>3, <1>4
<1>6. Transfer(a, it) \in Adapters(A)
  BY <1>5 DEF Adapters
<1>7. /\ Tokens(Transfer(a, it)) = q \o w /\ Tokens(a) = p \o u
      /\ Transfer(a, it).p = q /\ a.p = p /\ a.u = u
      /\ Size(Transfer(a, it)) = Len(q) + Len(w)
  <2>1. \A x, y : /\ Tokens([p |-> x, u |-> y]) = x \o y
                  /\ Size([p |-> x, u |-> y]) = Len(x) + Len(y)
                  /\ [p |-> x, u |-> y].p = x /\ [p |-> x, u |-> y].u = y
    BY DEF Tokens, Size
  <2> QED
    BY ONLY <1>1, <1>5, <2>1
<1>8. it < Size(a) => Len(q) >= it + 1
  BY ONLY <1>1, <1>2, <1>5, it \in Int DEF Moved
<1>9. Len(q) + Len(w) = Size(a)
  BY ONLY <1>1, <1>5, n \in 0 .. Len(u)
<1> QED
  BY ONLY <1>2, <1>5, <1>6, <1>7, <1>8, <1>9

LEMMA SizePositive ==
  ASSUME NEW A, NEW a \in Adapters(A), Size(a) # 0
  PROVE  0 < Size(a) /\ Size(a) \in Nat
<1>1. PICK p \in Seq(Toks(A)), u \in Seq(Words(A)) :
        /\ Size(a) = Len(p) + Len(u)
        /\ Len(p) \in Nat /\ Len(u) \in Nat
  BY AdapterParts
<1> QED
  BY ONLY <1>1, Size(a) # 0

\* The first token, if there is one
LEMMA FirstTyped ==
  ASSUME NEW A, NEW a \in Adapters(A), Size(a) # 0
  PROVE  First(a) \in Toks(A) /\ First(a) = Tokens(a)[1]
<1>1. PICK p \in Seq(Toks(A)), u \in Seq(Words(A)) :
        /\ a = [p |-> p, u |-> u]
        /\ Size(a) = Len(p) + Len(u)
        /\ Len(p) \in Nat /\ Len(u) \in Nat
  BY AdapterParts
<1>2. First(a) = IF 0 >= Len(p) THEN u[0 - Len(p) + 1] ELSE p[1]
  BY <1>1 DEF First, At
<1>3. Tokens(a)[1] = IF 1 <= Len(p) THEN p[1] ELSE u[1 - Len(p)]
  <2>1. Tokens(a) = p \o u
    BY <1>1 DEF Tokens
  <2>2. u \in Seq(Toks(A)) /\ 1 \in 1 .. Len(p) + Len(u)
    BY <1>1, WordsAreTokens
  <2>3. (p \o u)[1] = IF 1 <= Len(p) THEN p[1] ELSE u[1 - Len(p)]
    BY ONLY <2>2, ConcatFacts, p \in Seq(Toks(A))
  <2> QED
    BY <2>1, <2>3
<1>4. CASE 0 >= Len(p)
  <2>1. 0 - Len(p) + 1 = 1 /\ 1 - Len(p) = 1 /\ 1 \in 1 .. Len(u) /\ ~(1 <= Len(p))
    BY ONLY <1>1, <1>4, Size(a) # 0
  <2>2. u[1] \in Toks(A)
    BY <2>1, WordsAreTokens
  <2> QED
    BY <1>2, <1>3, <1>4, <2>1, <2>2
<1>5. CASE ~(0 >= Len(p))
  <2>1. 1 \in 1 .. Len(p) /\ 1 <= Len(p)
    BY ONLY <1>1, <1>5
  <2> QED
    BY <1>2, <1>3, <1>5, <2>1
<1> QED
  BY <1>4, <1>5

\* The first token stays the first one, and there is one.
LEMMA FirstKept ==
  ASSUME NEW A, NEW a \in Adapters(A), Size(a) # 0, NEW it \in Int
  PROVE  Size(Transfer(a, it)) # 0 /\ First(Transfer(a, it)) = First(a)
<1>1. /\ Transfer(a, it) \in Adapters(A) /\ Size(Transfer(a, it)) # 0
      /\ Tokens(Transfer(a, it)) = Tokens(a)
  BY TransferTyped
<1> QED
  BY <1>1, FirstTyped

LEMMA SetAtTyped ==
  ASSUME NEW A, NEW a \in Adapters(A), Size(a) # 0, NEW v \in Toks(A)
  PROVE  /\ SetAt(a, 0, v) \in Adapters(A)
         /\ Size(SetAt(a, 0, v)) # 0
         /\ First(SetAt(a, 0, v)) = v
<1>1. Transfer(a, 0) \in Adapters(A) /\ Len(Transfer(a, 0).p) >= 1
  BY SizePositive, TransferTyped
<1>2. PICK p \in Seq(Toks(A)), u \in Seq(Words(A)) :
        Transfer(a, 0) = [p |-> p, u |-> u] /\ Len(p) \in Nat /\ Len(u) \in Nat
  BY <1>1, AdapterParts
<1>3. SetAt(a, 0, v) = [p |-> [p EXCEPT ![1] = v], u |-> u]
  BY <1>2 DEF SetAt
<1>4. /\ [p EXCEPT ![1] = v] \in Seq(Toks(A))
      /\ Len([p EXCEPT ![1] = v]) = Len(p) /\ Len(p) >= 1
      /\ [p EXCEPT ![1] = v][1] = v
  <2>1. Len(p) >= 1 /\ 1 \in 1 .. Len(p)
    BY <1>1, <1>2
  <2> QED
    BY <2>1, WordsAreTokens, RewriteConcat
<1>5. \A q : Size([p |-> q, u |-> u]) = Len(q) + Len(u)
             /\ (~(0 >= Len(q)) => First([p |-> q, u |-> u]) = q[1])
  BY DEF Size, First, At
<1>6. Len(p) + Len(u) # 0 /\ ~(0 >= Len(p))
  BY ONLY <1>2, <1>4
<1>7. SetAt(a, 0, v) \in Adapters(A)
  <2>1. \A q \in Seq(Toks(A)) : [p |-> q, u |-> u] \in Adapters(A)
    BY DEF Adapters
  <2> QED
    BY ONLY <1>3, <1>4, <2>1
<1> QED
  BY ONLY <1>3, <1>4, <1>5, <1>6, <1>7

\* The flags behind the first of a collapsed word become words of their own.
LEMMA LeaveTyped ==
  ASSUME NEW A, NEW a \in Adapters(A), Size(a) # 0, NEW name \in Seq(A)
  PROVE  /\ Leave(Transfer(a, 0), Rest(name)) \in Adapters(A)
         /\ Size(Leave(Transfer(a, 0), Rest(name))) # 0
<1>1. Transfer(a, 0) \in Adapters(A) /\ Len(Transfer(a, 0).p) >= 1
  BY SizePositive, TransferTyped
<1>2. PICK p \in Seq(Toks(A)), u \in Seq(Words(A)) :
        Transfer(a, 0) = [p |-> p, u |-> u] /\ Len(p) \in Nat /\ Len(u) \in Nat
  BY <1>1, AdapterParts
<1>3. Rest(name) \in Seq(Words(A))
  <2>1. ASSUME NEW k \in 1 .. Len(name) - 1
        PROVE  Token("short", <<name[k + 1]>>) \in Words(A)
    <3>1. name[k + 1] \in A
      OBVIOUS
    <3> QED
      BY <3>1 DEF Token, Words
  <2>2. Rest(name) \in [1 .. Len(name) - 1 -> Words(A)]
    BY <2>1 DEF Rest
  <2>3. CASE Len(name) = 0
    <3>1. 1 .. Len(name) - 1 = 1 .. 0
      BY <2>3
    <3>2. Rest(name) \in [1 .. 0 -> Words(A)]
      BY ONLY <2>2, <3>1
    <3> QED
      BY ONLY <3>2
  <2>4. CASE Len(name) # 0
    <3>1. Len(name) - 1 \in Nat
      BY <2>4
    <3> QED
      BY ONLY <2>2, <3>1
  <2> QED
    BY <2>3, <2>4
<1>4. Leave(Transfer(a, 0), Rest(name)) = [p |-> p, u |-> Rest(name) \o u]
  <2>1. \A q, w, x : [[p |-> q, u |-> w] EXCEPT !.u = x] = [p |-> q, u |-> x]
    OBVIOUS
  <2>2. Leave(Transfer(a, 0), Rest(name)) = [Transfer(a, 0) EXCEPT !.u = Rest(name) \o u]
    <3>1. Transfer(a, 0).u = u
      BY <1>2
    <3> QED
      BY ONLY <3>1 DEF Leave
  <2> QED
    BY ONLY <1>2, <2>1, <2>2
<1>5. Rest(name) \o u \in Seq(Words(A)) /\ Len(Rest(name) \o u) \in Nat
  BY <1>3
<1>6. \A w : Size([p |-> p, u |-> w]) = Len(p) + Len(w)
  BY DEF Size
<1>7. Len(p) >= 1
  BY <1>1, <1>2
<1>8. Size(Leave(Transfer(a, 0), Rest(name))) # 0
  BY ONLY <1>2, <1>4, <1>5, <1>6, <1>7
<1>9. \A w \in Seq(Words(A)) : [p |-> p, u |-> w] \in Adapters(A)
  BY DEF Adapters
<1> QED
  BY ONLY <1>4, <1>5, <1>8, <1>9

\* An insertion behind the first token
LEMMA InsertTyped ==
  ASSUME NEW A, NEW a \in Adapters(A), Size(a) # 0, NEW v \in Toks(A)
  PROVE  Insert(a, 1, <<v>>) \in Adapters(A) /\ Size(Insert(a, 1, <<v>>)) # 0
<1>1. Transfer(a, 0) \in Adapters(A) /\ Len(Transfer(a, 0).p) >= 1
  BY SizePositive, TransferTyped
<1>2. PICK p \in Seq(Toks(A)), u \in Seq(Words(A)) :
        /\ Transfer(a, 0) = [p |-> p, u |-> u]
        /\ Len(p) \in Nat /\ Len(u) \in Nat
  BY <1>1, AdapterParts
<1> DEFINE at == IF IsEnd([p |-> p, u |-> u], 1) THEN Len(p) ELSE 1
<1>3. Insert(a, 1, <<v>>) = [p |-> Splice(p, at, <<v>>), u |-> u]
  BY <1>2, EndAssumption DEF Insert, Prev
<1>4. at \in 0 .. Len(p)
  <2>1. Len(p) >= 1
    BY <1>1, <1>2
  <2> QED
    BY ONLY <1>2, <2>1
<1> HIDE DEF at
<1>5. <<v>> \in Seq(Toks(A)) /\ Len(<<v>>) = 1
  OBVIOUS
<1>6. Splice(p, at, <<v>>) \in Seq(Toks(A)) /\ Len(Splice(p, at, <<v>>)) = Len(p) + 1
  BY <1>4, <1>5, SpliceType
<1>7. Len(p) + 1 + Len(u) # 0
  BY ONLY <1>2
<1>8. Insert(a, 1, <<v>>) \in Adapters(A)
  BY <1>3, <1>6 DEF Adapters
<1>9. Size(Insert(a, 1, <<v>>)) = Len(p) + 1 + Len(u)
  <2>1. \A q, w : Size([p |-> q, u |-> w]) = Len(q) + Len(w)
    BY DEF Size
  <2> QED
    BY ONLY <1>3, <1>6, <2>1
<1> QED
  BY <1>7, <1>8, <1>9

\* erase() behind the first token, or of none
LEMMA EraseTyped ==
  ASSUME NEW A, NEW a \in Adapters(A), NEW it \in Nat
  PROVE  /\ Erase(a, it) \in Adapters(A)
         /\ Size(a) # 0 /\ it # 0 => Size(Erase(a, it)) # 0 /\ First(Erase(a, it)) = First(a)
<1>1. PICK p \in Seq(Toks(A)), u \in Seq(Words(A)) :
        /\ a = [p |-> p, u |-> u]
        /\ Size(a) = Len(p) + Len(u)
        /\ Len(p) \in Nat /\ Len(u) \in Nat
  BY AdapterParts
<1>0. \A q, w : /\ Size([p |-> q, u |-> w]) = Len(q) + Len(w)
                /\ First([p |-> q, u |-> w])
                     = IF 0 >= Len(q) THEN w[0 - Len(q) + 1] ELSE q[1]
  BY DEF Size, First, At
<1>2. CASE IsEnd(a, it)
  BY <1>2 DEF Erase
<1>3. CASE ~IsEnd(a, it) /\ it < Len(p)
  <2>1. Cut(p, it, 1) \in Seq(Toks(A)) /\ Len(Cut(p, it, 1)) = Len(p) - 1
        /\ \A k \in 1 .. Len(p) - 1 : Cut(p, it, 1)[k] = IF k <= it THEN p[k] ELSE p[k + 1]
    <3>1. it + 1 <= Len(p) /\ 1 \in Nat
      BY ONLY <1>1, <1>3, it \in Nat
    <3> QED
      BY ONLY <3>1, CutType, CutFacts, p \in Seq(Toks(A)), it \in Nat
  <2>2. Erase(a, it) = [p |-> Cut(p, it, 1), u |-> u]
    BY <1>1, <1>3 DEF Erase
  <2>3. ASSUME it # 0 PROVE Len(p) - 1 + Len(u) # 0 /\ 1 \in 1 .. Len(p) - 1 /\ 1 <= it
    BY ONLY <1>1, <1>3, <2>3, it \in Nat
  <2>4. it # 0 => Size(Erase(a, it)) # 0
    BY ONLY <1>0, <2>1, <2>2, <2>3
  <2>5. it # 0 => First(Erase(a, it)) = p[1] /\ First(a) = p[1]
    <3> SUFFICES ASSUME it # 0 PROVE First(Erase(a, it)) = p[1] /\ First(a) = p[1]
      OBVIOUS
    <3>1. ~(0 >= Len(p)) /\ ~(0 >= Len(p) - 1)
      BY <1>1, <2>3
    <3>2. First(a) = p[1]
      BY ONLY <1>0, <1>1, <3>1
    <3>3. First(Erase(a, it)) = Cut(p, it, 1)[1]
      BY ONLY <1>0, <2>1, <2>2, <3>1
    <3> QED
      BY ONLY <2>1, <2>3, <3>2, <3>3, it # 0
  <2>6. Erase(a, it) \in Adapters(A)
    BY <2>1, <2>2 DEF Adapters
  <2> QED
    BY <2>4, <2>5, <2>6
<1>4. CASE ~IsEnd(a, it) /\ ~(it < Len(p))
  <2>1. ~(it >= Len(p) + Len(u))
    BY <1>1, <1>4 DEF IsEnd
  <2> DEFINE j == it - Len(p)
  <2>2. j \in Nat /\ j + 1 <= Len(u)
    BY ONLY <1>1, <1>4, <2>1, it \in Nat
  <2>3. Cut(u, j, 1) \in Seq(Words(A)) /\ Len(Cut(u, j, 1)) = Len(u) - 1
        /\ \A k \in 1 .. Len(u) - 1 : Cut(u, j, 1)[k] = IF k <= j THEN u[k] ELSE u[k + 1]
    <3> HIDE DEF j
    <3>1. 1 \in Nat
      OBVIOUS
    <3> QED
      BY ONLY <2>2, <3>1, CutType, CutFacts, u \in Seq(Words(A))
  <2>4. Erase(a, it) = [p |-> p, u |-> Cut(u, j, 1)]
    BY <1>1, <1>4 DEF Erase
  <2>5. it # 0 => Size(Erase(a, it)) # 0
    <3>1. it # 0 => Len(p) + (Len(u) - 1) # 0
      BY ONLY <1>1, <2>2, it \in Nat DEF j
    <3> QED
      BY ONLY <1>0, <2>3, <2>4, <3>1
  <2>6. it # 0 => First(Erase(a, it)) = First(a)
    <3>1. First(a) = IF 0 >= Len(p) THEN u[0 - Len(p) + 1] ELSE p[1]
      BY ONLY <1>0, <1>1
    <3>2. First(Erase(a, it)) = IF 0 >= Len(p) THEN Cut(u, j, 1)[0 - Len(p) + 1] ELSE p[1]
      BY ONLY <1>0, <2>4
    <3>3. it # 0 /\ 0 >= Len(p) => 0 - Len(p) + 1 = 1 /\ 1 \in 1 .. Len(u) - 1 /\ 1 <= j
      BY ONLY <1>1, <2>2, it \in Nat DEF j
    <3> QED
      BY ONLY <2>3, <3>1, <3>2, <3>3
  <2>7. Erase(a, it) \in Adapters(A)
    BY <2>3, <2>4 DEF Adapters
  <2> QED
    BY <2>5, <2>6, <2>7
<1> QED
  BY <1>2, <1>3, <1>4
-----------------------------------------------------------------------------
\* The phases

\* The least of a set of numbers is one of them.
LEMMA MinIn ==
  ASSUME NEW T \in SUBSET Nat, T # {}
  PROVE  Min(T) \in T
<1>1. \E m \in T : \A k \in T : m <= k
  BY LeastOfNumbers
<1> QED
  BY <1>1 DEF Min

LEMMA ActsTyped ==
  ASSUME NEW A, NEW ids, NEW s \in States(A, ids)
  PROVE  /\ Valid(s) \in States(A, ids)
         /\ SkipNode(s) \in States(A, ids) /\ SkipNode(s).act = "skip"
         /\ \A code \in Codes : Error(s, code) \in States(A, ids) /\ Throw(s, code) \in States(A, ids)
  BY DEF States, Valid, SkipNode, Error, Throw

LEMMA ReplacedTyped ==
  ASSUME NEW A, NEW ids, NEW s \in States(A, ids), NEW b \in Adapters(A)
  PROVE  [s EXCEPT !.a = b] \in States(A, ids)
  BY DEF States

\* A part of a text is a text.
LEMMA TextPart ==
  ASSUME NEW A, NEW q \in Seq(A), NEW m \in Nat, NEW n \in Nat, m >= 1, n <= Len(q)
  PROVE  SubSeq(q, m, n) \in Seq(A)
  OBVIOUS

LEMMA ValueSeparatorTyped ==
  ASSUME NEW A, NEW ids, NEW node, NEW s \in States(A, ids)
  PROVE  ValueSeparator(node, s) \in States(A, ids)
<1> DEFINE first == First(s.a)
           at    == SelectInSeq(first.name, LAMBDA atom : atom = Separator)
           value == SubSeq(first.name, at + 1, Len(first.name))
           label == SubSeq(first.name, 1, at - 1)
           asked == IF first.pre = "none" THEN GetTokenType(first.name) ELSE first
           b     == Insert(s.a, 1, <<Token("none", value)>>)
           c     == SetAt(b, 0, Token(first.pre, label))
<1>1. s.a \in Adapters(A)
  BY DEF States
<1>2. {Valid(s), SkipNode(s), Error(s, "missing_value_separator")} \subseteq States(A, ids)
  <2>1. "missing_value_separator" \in Codes
    BY DEF Codes
  <2> QED
    BY <2>1, ActsTyped
<1>3. CASE IsEmpty(s.a)
  BY <1>2, <1>3 DEF ValueSeparator
<1>4. CASE ~IsEmpty(s.a) /\ at = 0
  BY <1>2, <1>4 DEF ValueSeparator
<1>5. CASE ~IsEmpty(s.a) /\ at # 0
  <2>1. first \in Toks(A) /\ Size(s.a) # 0
    BY <1>1, <1>5, FirstTyped DEF IsEmpty
  <2> HIDE DEF first
  <2>2. first.name \in Seq(A) /\ Len(first.name) \in Nat /\ first.pre \in {"none", "short", "long"}
    BY <2>1 DEF Toks
  <2>3. at \in 1 .. Len(first.name)
    <3> DEFINE I == {k \in 1 .. Len(first.name) : first.name[k] = Separator}
    <3>1. at = IF I # {} THEN Min(I) ELSE 0
      BY DEF SelectInSeq
    <3>2. I \in SUBSET Nat
      OBVIOUS
    <3> QED
      BY <1>5, <3>1, <3>2, MinIn
  <2> HIDE DEF at
  <2>4. /\ at + 1 \in Nat /\ at + 1 >= 1 /\ at - 1 \in Nat /\ at - 1 <= Len(first.name)
    BY <2>2, <2>3
  <2>5. value \in Seq(A) /\ label \in Seq(A)
    BY <2>2, <2>4, TextPart
  <2>6. Token("none", value) \in Toks(A) /\ Token(first.pre, label) \in Toks(A)
    BY <2>2, <2>5 DEF Toks, Token
  <2>7. b \in Adapters(A) /\ Size(b) # 0
    BY <1>1, <2>1, <2>6, InsertTyped
  <2> HIDE DEF b, value, label
  <2>8. c \in Adapters(A)
    BY <2>6, <2>7, SetAtTyped
  <2> HIDE DEF c
  <2>9. Valid([s EXCEPT !.a = c]) \in States(A, ids)
    BY <2>8, ReplacedTyped, ActsTyped
  <2>10. ValueSeparator(node, s) \in {SkipNode(s), Valid([s EXCEPT !.a = c])}
    BY <1>5 DEF ValueSeparator, first, at, value, label, b, c
  <2> QED
    BY <1>2, <2>9, <2>10
<1> QED
  BY <1>3, <1>4, <1>5

\* The type of a label
LEMMA LabelTyped ==
  ASSUME NEW A, NEW node, NEW tok \in Toks(A)
  PROVE  AsLabelOf(node, tok) \in Toks(A)
<1>1. tok.name \in Seq(A) /\ tok.pre \in {"none", "short", "long"}
  BY DEF Toks
<1>2. ASSUME NEW pre \in {"none", "short", "long"}, NEW name \in Seq(A)
      PROVE  Token(pre, name) \in Toks(A)
  BY DEF Token, Toks
<1>3. tok.name # <<>> => Tail(tok.name) \in Seq(A)
  BY <1>1
<1>4. GetTokenTypeFor(node, tok.name) \in Toks(A)
  BY <1>1, <1>2, <1>3 DEF GetTokenTypeFor, StartsWith, Raw
<1> QED
  BY <1>4 DEF AsLabelOf

LEMMA ShortFormExpanderTyped ==
  ASSUME NEW A, NEW ids, NEW node, NEW s \in States(A, ids)
  PROVE  ShortFormExpander(node, s) \in States(A, ids)
<1> DEFINE first   == AsLabelOf(node, First(s.a))
           label   == Token("short", SubSeq(first.name, 1, Smaller(1, Len(first.name))))
           claimed == Transfer(s.a, 0)
           left    == Leave(claimed, Rest(first.name))
           a       == SetAt(left, 0, label)
<1>1. s.a \in Adapters(A)
  BY DEF States
<1>2. Valid(s) \in States(A, ids) /\ Throw(s, "length_error") \in States(A, ids)
  <2>1. "length_error" \in Codes
    BY DEF Codes
  <2> QED
    BY <2>1, ActsTyped
<1>3. CASE IsEmpty(s.a)
  BY <1>2, <1>3 DEF ShortFormExpander
<1>4. CASE ~IsEmpty(s.a)
  <2>1. first \in Toks(A)
    <3>1. First(s.a) \in Toks(A)
      BY <1>1, <1>4, FirstTyped DEF IsEmpty
    <3> QED
      BY <3>1, LabelTyped
  <2> HIDE DEF first
  <2>2. first.name \in Seq(A) /\ Len(first.name) \in Nat
    BY <2>1 DEF Toks
  <2>3. label \in Toks(A)
    <3>1. Smaller(1, Len(first.name)) \in Nat /\ Smaller(1, Len(first.name)) <= Len(first.name)
      BY <2>2 DEF Smaller
    <3>2. SubSeq(first.name, 1, Smaller(1, Len(first.name))) \in Seq(A)
      BY <2>2, <3>1, TextPart
    <3> QED
      BY <3>2 DEF Token, Toks
  <2>8. left \in Adapters(A) /\ Size(left) # 0
    BY <1>1, <1>4, <2>2, LeaveTyped DEF IsEmpty
  <2> HIDE DEF label
  <2> HIDE DEF left
  <2>9. a \in Adapters(A)
    BY <2>3, <2>8, SetAtTyped
  <2> HIDE DEF a
  <2>10. Valid([s EXCEPT !.a = a]) \in States(A, ids)
    BY <2>9, ReplacedTyped, ActsTyped
  <2>11. ShortFormExpander(node, s) \in {Valid(s), Throw(s, "length_error"), Valid([s EXCEPT !.a = a])}
    BY <1>4 DEF ShortFormExpander, first, label, claimed, left, a
  <2> QED
    BY <1>2, <2>10, <2>11
<1> QED
  BY <1>3, <1>4

LEMMA RuntimeEnableTyped ==
  ASSUME NEW A, NEW ids, NEW node, NEW s \in States(A, ids)
  PROVE  /\ RuntimeEnable(node, s) \in States(A, ids)
         /\ ~node.enabled => RuntimeEnable(node, s).act = "skip"
  BY ActsTyped DEF RuntimeEnable

\* token_end_marker takes a token away behind the label, or none.
LEMMA MarkErases ==
  ASSUME NEW A, NEW ids, NEW node, NEW s \in States(A, ids)
  PROVE  \E it \in Nat :
           /\ TokenEndMarker(node, s) = Valid([s EXCEPT !.a = Erase(Transfer(s.a, it), it)])
           /\ Size(s.a) # 0 => it >= NamedOffset(node)
<1> DEFINE at == SelectInSubSeq(Tokens(s.a), NamedOffset(node) + 1, Size(s.a),
                                LAMBDA t : t.name = <<node.marker>>)
           it == IF at = 0 THEN Size(s.a) ELSE at - 1
<1>1. Size(s.a) \in Nat /\ NamedOffset(node) \in 0 .. 1
  <2>1. s.a \in Adapters(A)
    BY DEF States
  <2>2. PICK p \in Seq(Toks(A)), u \in Seq(Words(A)) :
          Size(s.a) = Len(p) + Len(u) /\ Len(p) \in Nat /\ Len(u) \in Nat
    BY <2>1, AdapterParts
  <2> QED
    BY <2>2 DEF NamedOffset
<1>2. at = 0 \/ at \in NamedOffset(node) + 1 .. Size(s.a)
  <2> DEFINE I == {k \in NamedOffset(node) + 1 .. Size(s.a) : Tokens(s.a)[k].name = <<node.marker>>}
  <2>1. at = IF I # {} THEN Min(I) ELSE 0
    BY DEF SelectInSubSeq
  <2>2. I \in SUBSET Nat
    BY <1>1
  <2>3. I # {} => Min(I) \in I
    BY <2>2, MinIn
  <2>4. I \subseteq NamedOffset(node) + 1 .. Size(s.a)
    OBVIOUS
  <2> HIDE DEF I, at
  <2> QED
    BY <2>1, <2>3, <2>4
<1>3. TokenEndMarker(node, s) = Valid([s EXCEPT !.a = Erase(Transfer(s.a, it), it)])
  BY DEF TokenEndMarker
<1> HIDE DEF at
<1>4. it \in Nat /\ (Size(s.a) # 0 => it >= NamedOffset(node))
  BY ONLY <1>1, <1>2 DEF it
<1> QED
  BY <1>3, <1>4

LEMMA TokenEndMarkerTyped ==
  ASSUME NEW A, NEW ids, NEW node, NEW s \in States(A, ids)
  PROVE  TokenEndMarker(node, s) \in States(A, ids)
<1>1. PICK it \in Nat : TokenEndMarker(node, s) = Valid([s EXCEPT !.a = Erase(Transfer(s.a, it), it)])
  BY MarkErases
<1>2. s.a \in Adapters(A)
  BY DEF States
<1> DEFINE a == Erase(Transfer(s.a, it), it)
<1>3. a \in Adapters(A)
  BY <1>2, TransferTyped, EraseTyped
<1> HIDE DEF a
<1> QED
  BY <1>1, <1>3, ReplacedTyped, ActsTyped DEF a

\* The parameters of a node's policies
Parameters(node) == node.min \in Nat /\ node.max \in Nat

\* min_max_count fails, or it transfers tokens.
LEMMA CountTransfers ==
  ASSUME NEW A, NEW ids, NEW node, Parameters(node), NEW s \in States(A, ids)
  PROVE  \/ MinMaxCount(node, s) = Error(s, "maximum_count_exceeded")
         \/ MinMaxCount(node, s) = Error(s, "minimum_count_not_reached")
         \/ \E it \in Int : MinMaxCount(node, s) = Valid([s EXCEPT !.a = Transfer(s.a, it)])
<1> DEFINE num  == IF "token_end_marker" \in node.policies THEN Len(s.a.p) ELSE Size(s.a)
           mx   == WithLabel(node.max, node)
           last == AsOffset(Smaller(MinusOne(mx), MinusOne(num)))
<1>1. num \in Nat
  <2>1. s.a \in Adapters(A)
    BY DEF States
  <2>2. PICK p \in Seq(Toks(A)), u \in Seq(Words(A)) :
          /\ s.a = [p |-> p, u |-> u]
          /\ Size(s.a) = Len(p) + Len(u) /\ Len(p) \in Nat /\ Len(u) \in Nat
    BY <2>1, AdapterParts
  <2>3. Len(s.a.p) \in Nat /\ Size(s.a) \in Nat
    BY <2>2
  <2> QED
    BY <2>3
<1>2. mx \in Nat
  BY DEF WithLabel, SizeMax, NamedOffset, Parameters
<1> HIDE DEF num, mx
<1>3. last \in Int
  <2>1. \A n \in Nat : MinusOne(n) \in 0 .. 255
    BY DEF MinusOne, SizeMax
  <2>2. Smaller(MinusOne(mx), MinusOne(num)) \in 0 .. 255
    BY <1>1, <1>2, <2>1 DEF Smaller
  <2>3. \A n \in 0 .. 255 : AsOffset(n) \in Int
    BY DEF AsOffset, SizeMax
  <2> QED
    BY <2>2, <2>3
<1> HIDE DEF last
<1>4. MinMaxCount(node, s) \in {Error(s, "maximum_count_exceeded"), Error(s, "minimum_count_not_reached"),
                                Valid([s EXCEPT !.a = Transfer(s.a, last)])}
  BY DEF MinMaxCount, num, mx, last
<1> QED
  BY <1>3, <1>4

LEMMA MinMaxCountTyped ==
  ASSUME NEW A, NEW ids, NEW node, Parameters(node), NEW s \in States(A, ids)
  PROVE  MinMaxCount(node, s) \in States(A, ids)
<1>1. "maximum_count_exceeded" \in Codes /\ "minimum_count_not_reached" \in Codes
  BY DEF Codes
<1>2. s.a \in Adapters(A)
  BY DEF States
<1>3. \A it \in Int : Valid([s EXCEPT !.a = Transfer(s.a, it)]) \in States(A, ids)
  BY <1>2, TransferTyped, ReplacedTyped, ActsTyped
<1>4. {Error(s, "maximum_count_exceeded"), Error(s, "minimum_count_not_reached")} \subseteq States(A, ids)
  BY <1>1, ActsTyped
<1>5. \/ MinMaxCount(node, s) \in {Error(s, "maximum_count_exceeded"), Error(s, "minimum_count_not_reached")}
      \/ \E it \in Int : MinMaxCount(node, s) = Valid([s EXCEPT !.a = Transfer(s.a, it)])
  BY CountTransfers
<1> QED
  BY Zenon, <1>3, <1>4, <1>5

\* The nodes whose targets a node may add: itself, and those it stands for
Settable(node, children) ==
  {node.id} \cup {n.id : n \in {m \in ToSet(Nodes(children)) : m.id \in node.alias}}

LEMMA AliasTyped ==
  ASSUME NEW A, NEW nodes, \A n \in nodes : n.children \in Seq(nodes),
         NEW children \in Seq(nodes), NEW node, Parameters(node),
         NEW s \in States(A, Settable(node, children))
  PROVE  Alias(node, children, s) \in States(A, Settable(node, children))
<1> DEFINE ids     == Settable(node, children)
           claimed == Transfer(s.a, node.max)
           values  == SubSeq(claimed.p, 2, node.max + 1)
           all     == Nodes(children)
           Of(n)   == IF n.id \in node.alias THEN <<Target(n.id, values)>> ELSE <<>>
           ss      == [k \in DOMAIN all |-> Of(all[k])]
           rest    == Cut(claimed.p, 0, node.max + 1)
           t       == [s EXCEPT !.act = "subs", !.subs = @ \o AliasTargets(node, children, claimed.p),
                                !.a = [claimed EXCEPT !.p = rest]]
<1>1. s.a \in Adapters(A) /\ s.subs \in Seq(TargetsOf(A, ids)) /\ node.max \in Nat
  BY DEF States, Parameters
<1>2. Error(s, "too_few_values_for_alias") \in States(A, ids) /\ SkipNode(s) \in States(A, ids)
  <2>1. "too_few_values_for_alias" \in Codes
    BY DEF Codes
  <2> QED
    BY <2>1, ActsTyped
<1>3. CASE node.max + 1 > Size(s.a)
  BY <1>2, <1>3 DEF Alias
<1>4. CASE ~(node.max + 1 > Size(s.a))
  <2>1. node.max < Size(s.a)
    <3>1. Size(s.a) \in Int
      <4>1. PICK p \in Seq(Toks(A)), u \in Seq(Words(A)) :
              Size(s.a) = Len(p) + Len(u) /\ Len(p) \in Nat /\ Len(u) \in Nat
        BY <1>1, AdapterParts
      <4> QED
        BY <4>1
    <3> QED
      BY <1>1, <1>4, <3>1
  <2>2. claimed \in Adapters(A) /\ Len(claimed.p) >= node.max + 1
    BY <1>1, <2>1, TransferTyped
  <2> HIDE DEF claimed
  <2>3. PICK p \in Seq(Toks(A)), u \in Seq(Words(A)) :
          claimed = [p |-> p, u |-> u] /\ Len(p) \in Nat
    BY <2>2, AdapterParts
  <2>4. claimed.p = p /\ Len(p) >= node.max + 1
    BY <2>2, <2>3
  <2>5. values \in Seq(Toks(A))
    BY <1>1, <2>3, <2>4
  <2>6. rest \in Seq(Toks(A))
    <3>1. Cut(p, 0, node.max + 1) \in Seq(Toks(A))
      BY <1>1, <2>3, <2>4, CutType
    <3> QED
      BY <2>4, <3>1
  <2> HIDE DEF values, rest
  <2>7. AliasTargets(node, children, claimed.p) = FlattenSeq(ss)
    BY DEF AliasTargets, values
  <2>8. all \in Seq(nodes)
    BY NodesAre
  <2>9. \A k \in DOMAIN all : ss[k] \in Seq(TargetsOf(A, ids))
    <3> SUFFICES ASSUME NEW k \in DOMAIN all PROVE Of(all[k]) \in Seq(TargetsOf(A, ids))
      OBVIOUS
    <3>1. CASE all[k].id \in node.alias
      <4>1. all[k].id \in ids
        BY <3>1 DEF Settable, ToSet
      <4>2. Target(all[k].id, values) \in TargetsOf(A, ids)
        BY <2>5, <4>1 DEF Target, TargetsOf
      <4> QED
        BY <3>1, <4>2
    <3>2. CASE all[k].id \notin node.alias
      BY <3>2
    <3> QED
      BY <3>1, <3>2
  <2> HIDE DEF ids
  <2>10. ss \in Seq(Seq(TargetsOf(A, ids)))
    <3>1. DOMAIN all = 1 .. Len(all) /\ Len(all) \in Nat
      BY <2>8
    <3>2. ss \in [1 .. Len(all) -> Seq(TargetsOf(A, ids))]
      BY <2>9, <3>1
    <3> QED
      BY <3>1, <3>2
  <2> HIDE DEF ss
  <2>11. FlattenSeq(ss) \in Seq(TargetsOf(A, ids))
    BY <2>10, FlattenElements
  <2>12. s.subs \o AliasTargets(node, children, claimed.p) \in Seq(TargetsOf(A, ids))
    BY <1>1, <2>7, <2>11
  <2>13. [claimed EXCEPT !.p = rest] \in Adapters(A)
    BY <2>2, <2>6 DEF Adapters
  <2>14. t \in States(A, ids)
    BY <2>12, <2>13 DEF States, ids
  <2> HIDE DEF t
  <2>15. Alias(node, children, s) \in {SkipNode(s), t}
    BY <1>4 DEF Alias, t, rest, claimed
  <2> QED
    BY <1>2, <2>14, <2>15 DEF ids
<1> QED
  BY <1>3, <1>4

LEMMA DependentTyped ==
  ASSUME NEW A, NEW ids, NEW node, NEW done, NEW s \in States(A, ids)
  PROVE  Dependent(node, done, s) \in States(A, ids)
<1>1. "dependent_argument_missing" \in Codes
  BY DEF Codes
<1> QED
  BY <1>1, ActsTyped DEF Dependent

\* The phases behind these three acts do not run.
Ended(s) == s.act \in {"skip", "error", "throw"}

LEMMA PhaseTyped ==
  ASSUME NEW A, NEW ids, NEW node, NEW policy, NEW s \in States(A, ids), NEW t \in States(A, ids)
  PROVE  /\ After(s, policy, node, t) \in States(A, ids)
         /\ Ended(s) => After(s, policy, node, t) = s
<1>1. KeepSubs(s, t) \in {t, [t EXCEPT !.act = "subs"]}
  <2>1. t = [t EXCEPT !.act = t.act]
    BY DEF States
  <2> QED
    BY <2>1 DEF KeepSubs
<1>2. [t EXCEPT !.act = "subs"] \in States(A, ids)
  BY DEF States
<1> QED
  BY <1>1, <1>2 DEF After, Ended

\* The phases of a node, each by its policy, and the state they begin with
Begin(args)  == [a |-> [p |-> <<>>, u |-> args], act |-> "valid", code |-> "", subs |-> <<>>]
Split1(node, s)  == After(s, "value_separator", node, ValueSeparator(node, s))
Expand1(node, s) == After(s, "short_form_expander", node, ShortFormExpander(node, s))
Enable1(node, s) == After(s, "runtime_enable", node, RuntimeEnable(node, s))
Mark1(node, s)   == After(s, "token_end_marker", node, TokenEndMarker(node, s))
Count1(node, s)  == After(s, "min_max_count", node, MinMaxCount(node, s))
Alias1(node, children, s) == After(s, "alias", node, Alias(node, children, s))
Depend1(node, done, s)    == After(s, "dependent", node, Dependent(node, done, s))

\* The states in which the phases leave the adapter to the ones that replace
\* targets, and in which all of them end
Counted(node, args) == Count1(node, Mark1(node, Enable1(node, Expand1(node, Split1(node, Begin(args))))))
Final(node, children, done, args) == Depend1(node, done, Alias1(node, children, Counted(node, args)))

LEMMA PhasesInTurn ==
  \A node, children, done, args :
     RunPhases(node, children, done, args) = {Final(node, children, done, args)}
<1> SUFFICES ASSUME NEW node, NEW children, NEW done, NEW args
             PROVE  RunPhases(node, children, done, args) = {Final(node, children, done, args)}
  OBVIOUS
<1>1. RunPhases(node, children, done, args)
        = {Depend1(node, done, x6) : x6 \in {Alias1(node, children, x5) :
           x5 \in {Count1(node, x4) : x4 \in {Mark1(node, x3) : x3 \in {Enable1(node, x2) :
           x2 \in {Expand1(node, x1) : x1 \in {Split1(node, x0) : x0 \in {Begin(args)}}}}}}}}
  BY DEF RunPhases, Begin, Split1, Expand1, Enable1, Mark1, Count1, Alias1, Depend1
<1> QED
  BY ONLY <1>1 DEF Final, Counted

\* What a leaf makes of the line
LEMMA LeafSettles ==
  \A node, children, done, args, verdict :
     PreParseLeaf(node, children, done, args, verdict)
       = Settle(node, Final(node, children, done, args), verdict)
<1>1. \A node, s, verdict : (CHOOSE o \in {Settle(node, x, verdict) : x \in {s}} : TRUE)
                              = Settle(node, s, verdict)
  OBVIOUS
<1> QED
  BY <1>1, PhasesInTurn DEF PreParseLeaf

\* A disabled node's phases end in a state that stops it.
LEMMA FinalTyped ==
  ASSUME NEW A, NEW nodes, \A n \in nodes : n.children \in Seq(nodes),
         NEW children \in Seq(nodes), NEW node, Parameters(node), NEW done,
         NEW args \in Seq(Words(A))
  PROVE  LET s == Final(node, children, done, args)
         IN  /\ s \in States(A, Settable(node, children))
             /\ "runtime_enable" \in node.policies /\ ~node.enabled => Ended(s)
<1> DEFINE ids  == Settable(node, children)
           s0 == Begin(args)
           s1 == Split1(node, s0)
           s2 == Expand1(node, s1)
           s3 == Enable1(node, s2)
           s4 == Mark1(node, s3)
           s5 == Count1(node, s4)
           s6 == Alias1(node, children, s5)
           s7 == Depend1(node, done, s6)
<1>2. s0 \in States(A, ids)
  BY DEF States, Adapters, Codes, Begin
<1> HIDE DEF s0
<1>3. ASSUME NEW s \in States(A, ids)
      PROVE  /\ Split1(node, s) \in States(A, ids)
             /\ Expand1(node, s) \in States(A, ids)
             /\ Enable1(node, s) \in States(A, ids)
             /\ Mark1(node, s) \in States(A, ids) /\ (Ended(s) => Mark1(node, s) = s)
             /\ Count1(node, s) \in States(A, ids) /\ (Ended(s) => Count1(node, s) = s)
             /\ Alias1(node, children, s) \in States(A, ids) /\ (Ended(s) => Alias1(node, children, s) = s)
             /\ Depend1(node, done, s) \in States(A, ids) /\ (Ended(s) => Depend1(node, done, s) = s)
  <2>1. Alias(node, children, s) \in States(A, ids)
    BY AliasTyped
  <2> HIDE DEF ids
  <2>2. /\ ValueSeparator(node, s) \in States(A, ids)
        /\ ShortFormExpander(node, s) \in States(A, ids)
        /\ RuntimeEnable(node, s) \in States(A, ids)
        /\ TokenEndMarker(node, s) \in States(A, ids)
        /\ MinMaxCount(node, s) \in States(A, ids)
        /\ Dependent(node, done, s) \in States(A, ids)
    BY ValueSeparatorTyped, ShortFormExpanderTyped, RuntimeEnableTyped, TokenEndMarkerTyped,
       MinMaxCountTyped, DependentTyped
  <2> QED
    BY <2>1, <2>2, PhaseTyped DEF Split1, Expand1, Enable1, Mark1, Count1, Alias1, Depend1
<1>4. ASSUME NEW s \in States(A, ids), "runtime_enable" \in node.policies, ~node.enabled
      PROVE  Ended(Enable1(node, s))
  <2>1. CASE Ended(s)
    BY <2>1 DEF After, Ended, Enable1
  <2>2. CASE ~Ended(s)
    <3> DEFINE t == RuntimeEnable(node, s)
    <3>1. t.act = "skip" /\ t \in States(A, ids)
      BY <1>4, RuntimeEnableTyped
    <3> HIDE DEF t, ids
    <3>2. KeepSubs(s, t).act = "skip"
      BY <3>1 DEF KeepSubs, States
    <3>3. Enable1(node, s) = KeepSubs(s, t)
      BY <1>4, <2>2 DEF After, Ended, t, Enable1
    <3> QED
      BY <3>2, <3>3 DEF Ended
  <2> QED
    BY <2>1, <2>2
<1> HIDE DEF ids
<1>5. s1 \in States(A, ids) /\ s2 \in States(A, ids) /\ s3 \in States(A, ids)
      /\ s4 \in States(A, ids) /\ s5 \in States(A, ids) /\ s6 \in States(A, ids)
      /\ s7 \in States(A, ids)
  BY <1>2, <1>3
<1>6. ASSUME "runtime_enable" \in node.policies, ~node.enabled PROVE Ended(s7)
  <2>1. Ended(s3)
    BY <1>4, <1>5, <1>6
  <2> HIDE DEF s3
  <2>2. s4 = s3 /\ s5 = s3 /\ s6 = s3 /\ s7 = s3
    BY <1>3, <1>5, <2>1
  <2> QED
    BY <2>1, <2>2
<1>7. s7 = Final(node, children, done, args)
  BY DEF Final, Counted, s0
<1> HIDE DEF s7
<1> QED
  BY <1>5, <1>6, <1>7 DEF ids
-----------------------------------------------------------------------------
\* The outcomes

\* What a match of node leaves and adds; a disabled node has none.
WellTyped(A, node, children, o) ==
  o.kind = "match" => /\ o.args \in Seq(Words(A))
                      /\ o.targets \in Seq(TargetsOf(A, Settable(node, children)))
                      /\ "runtime_enable" \in node.policies => node.enabled

LEMMA LeafTyped ==
  ASSUME NEW A, NEW nodes, \A n \in nodes : n.children \in Seq(nodes),
         NEW children \in Seq(nodes), NEW node, Parameters(node), NEW done,
         NEW args \in Seq(Words(A)), NEW verdict
  PROVE  WellTyped(A, node, children, PreParseLeaf(node, children, done, args, verdict))
<1> DEFINE ids == Settable(node, children)
           s   == Final(node, children, done, args)
<1>1. /\ s \in States(A, ids)
      /\ "runtime_enable" \in node.policies /\ ~node.enabled => Ended(s)
  BY FinalTyped
<1> HIDE DEF s
<1>2. PreParseLeaf(node, children, done, args, verdict) = Settle(node, s, verdict)
  BY LeafSettles DEF s
<1> DEFINE a      == WithLabelClaimed(node, s)
           values == IF IsNamed(node) /\ a.p # <<>> THEN Tail(a.p) ELSE a.p
           own    == <<Target(node.id, values)>>
           o      == Outcome("match", "", a.u, IF s.subs = <<>> THEN own ELSE s.subs, TRUE)
<1>3. a \in Adapters(A) /\ s.subs \in Seq(TargetsOf(A, ids))
  BY <1>1, TransferTyped DEF WithLabelClaimed, States
<1> HIDE DEF a
<1>4. own \in Seq(TargetsOf(A, ids))
  <2>1. a.p \in Seq(Toks(A))
    BY <1>3 DEF Adapters
  <2>2. values \in Seq(Toks(A))
    BY <2>1
  <2> HIDE DEF values
  <2>3. node.id \in ids
    BY DEF Settable
  <2>4. Target(node.id, values) \in TargetsOf(A, ids)
    BY <2>2, <2>3 DEF Target, TargetsOf
  <2> QED
    BY <2>4
<1> HIDE DEF own
<1>5. a.u \in Seq(Words(A))
  BY <1>3 DEF Adapters
<1>6. CASE Ended(s)
  <2>1. Settle(node, s, verdict).kind \in {"none", "error"}
    BY <1>6 DEF Ended, Settle, Outcome, NotThisNode
  <2> QED
    BY <1>2, <2>1 DEF WellTyped
<1>7. CASE ~Ended(s)
  <2>1. Settle(node, s, verdict).kind = "match" => Settle(node, s, verdict) = o
    BY DEF Settle, Outcome, NotThisNode, a, own
  <2>2. o.args = a.u /\ o.targets = IF s.subs = <<>> THEN own ELSE s.subs
    BY DEF Outcome
  <2> HIDE DEF o
  <2>3. o.args \in Seq(Words(A)) /\ o.targets \in Seq(TargetsOf(A, ids))
    BY <1>3, <1>4, <1>5, <2>2
  <2> QED
    BY <1>1, <1>2, <1>7, <2>1, <2>3 DEF WellTyped
<1> QED
  BY <1>6, <1>7

-----------------------------------------------------------------------------
\* The children of a group in turn: what a search that stops at the first
\* outcome makes of the line is what one of the children makes of it.

\* A leaf that is not the one has asked its caller only if that rejects it.
LEMMA AskedOnly ==
  ASSUME NEW node, NEW children, NEW done, NEW args, NEW verdict, verdict # "reject",
         PreParseLeaf(node, children, done, args, verdict).kind = "none"
  PROVE  ~PreParseLeaf(node, children, done, args, verdict).asked
<1> DEFINE s == Final(node, children, done, args)
           o == Settle(node, s, verdict)
<1>1. PreParseLeaf(node, children, done, args, verdict) = o
  BY LeafSettles
<1> HIDE DEF s
<1>2. o.kind = "none" => ~o.asked
  BY DEF Settle, Outcome, NotThisNode
<1> QED
  BY <1>1, <1>2

\* The verdict of one_of on its child n, when sel is the selected one
Verdict(n, sel, already) == OneOfVerdict(n, sel, VerifyMatch(n, already))

\* r is what one_of makes of the attempt of n.
OneOfTried(r, n, sel, children, done, args, already) ==
  /\ r.o = PreParseLeaf(n, children, done, args, Verdict(n, sel, already))
  /\ r.selected = IF r.o.asked THEN Selects(n, sel) ELSE sel

LEMMA OneOfTries ==
  ASSUME NEW S, NEW group, group.children \in Seq(S), NEW children, NEW done, NEW args,
         NEW selected, NEW already
  PROVE  LET r == PreParseOneOf(group, children, done, args, selected, already)
         IN  /\ r.o.kind = "none" /\ (selected # "none" \/ ~already) => r.selected = selected
             /\ r.o.kind # "none" =>
                  \E n \in ToSet(group.children) : \E sel :
                     /\ OneOfTried(r, n, sel, children, done, args, already)
                     /\ selected # "none" \/ ~already => sel = selected
<1> DEFINE Leaf(child, sel) == PreParseLeaf(child, children, done, args, Verdict(child, sel, already))
           Try(child, sel) ==
             LET o == Leaf(child, sel)
             IN  [o |-> o, selected |-> IF o.asked THEN Selects(child, sel) ELSE sel]
           Then(r, child) == IF r.o.kind = "none" THEN Try(child, r.selected) ELSE r
           first == [o |-> NotThisNode, selected |-> selected]
           L == Len(group.children)
           After1(m, g) == g = [k \in 0 .. m |-> IF k = 0 THEN first
                                                ELSE Then(g[k - 1], group.children[k])]
           f == CHOOSE g : After1(L, g)
           stays == selected # "none" \/ ~already
<1>1. L \in Nat /\ DOMAIN group.children = 1 .. L
  OBVIOUS
<1>2. PreParseOneOf(group, children, done, args, selected, already) = f[L]
  BY DEF PreParseOneOf, Verdict
<1>3. ASSUME NEW child, NEW sel
      PROVE  /\ Try(child, sel).o = Leaf(child, sel)
             /\ OneOfTried(Try(child, sel), child, sel, children, done, args, already)
             /\ Try(child, sel).o.kind = "none" /\ (sel # "none" \/ ~already) =>
                  Try(child, sel).selected = sel
  <2>1. Try(child, sel).o = Leaf(child, sel)
        /\ Try(child, sel).selected = IF Leaf(child, sel).asked THEN Selects(child, sel) ELSE sel
    OBVIOUS
  <2>2. ASSUME Leaf(child, sel).kind = "none", sel = "none", ~already PROVE ~Leaf(child, sel).asked
    <3>1. Verdict(child, sel, already) # "reject"
      BY <2>2 DEF Verdict, OneOfVerdict, VerifyMatch
    <3> QED
      BY <2>2, <3>1, AskedOnly
  <2> HIDE DEF Try
  <2> QED
    BY <2>1, <2>2 DEF OneOfTried, Selects
<1> HIDE DEF Try, Leaf, L, After1
<1>5. After1(L, f)
  <2> DEFINE T == {m \in 0 .. L : \E g : After1(m, g)}
  <2>1. 0 \in T
    <3>1. After1(0, [k \in 0 .. 0 |-> first])
      BY DEF After1
    <3> QED
      BY <1>1, <3>1
  <2>2. ASSUME NEW m \in 1 .. L, m - 1 \in T PROVE m \in T
    <3>1. PICK g : After1(m - 1, g)
      BY <2>2
    <3> DEFINE h == [k \in 0 .. m |-> IF k = m THEN Then(g[m - 1], group.children[m]) ELSE g[k]]
    <3>2. \A k \in 0 .. m - 1 : g[k] = IF k = 0 THEN first ELSE Then(g[k - 1], group.children[k])
      BY <3>1 DEF After1
    <3> HIDE DEF Then, first
    <3>3. \A k \in 0 .. m : h[k] = IF k = 0 THEN first ELSE Then(h[k - 1], group.children[k])
      BY <3>2
    <3>4. After1(m, h)
      BY <3>3 DEF After1
    <3> QED
      BY <1>1, <3>4
  <2> HIDE DEF T
  <2>3. L \in T
    <3>1. \A m \in 0 .. L : m \in T
      BY <1>1, <2>1, <2>2, UpTo
    <3> QED
      BY <1>1, <3>1
  <2> QED
    BY <2>3 DEF T
<1> HIDE DEF f
<1>6. \A k \in 0 .. L : f[k] = IF k = 0 THEN first ELSE Then(f[k - 1], group.children[k])
  BY <1>5 DEF After1
<1> DEFINE Tried(r) == \E n \in ToSet(group.children) : \E sel :
                         /\ OneOfTried(r, n, sel, children, done, args, already)
                         /\ stays => sel = selected
           Known(r) == /\ r.o.kind = "none" /\ stays => r.selected = selected
                       /\ r.o.kind # "none" => Tried(r)
           T == {k \in 0 .. L : Known(f[k])}
<1>7. 0 \in T
  <2>1. f[0] = first /\ first.selected = selected
    BY <1>1, <1>6
  <2>2. first.o.kind = "none"
    BY DEF NotThisNode, Outcome
  <2> HIDE DEF first
  <2> QED
    BY <1>1, <2>1, <2>2
<1>8. ASSUME NEW k \in 1 .. L, k - 1 \in T PROVE k \in T
  <2>1. f[k] = Then(f[k - 1], group.children[k])
    BY <1>1, <1>6
  <2>2. group.children[k] \in ToSet(group.children)
    BY <1>1 DEF ToSet
  <2>3. CASE f[k - 1].o.kind = "none"
    <3>1. f[k] = Try(group.children[k], f[k - 1].selected)
      BY <2>1, <2>3
    <3>2. stays => f[k - 1].selected = selected
      BY <1>8, <2>3
    <3>3. /\ OneOfTried(f[k], group.children[k], f[k - 1].selected, children, done, args, already)
          /\ f[k].o.kind = "none" /\ stays => f[k].selected = selected
      BY <1>3, <3>1, <3>2
    <3>4. Tried(f[k])
      BY <2>2, <3>2, <3>3
    <3> HIDE DEF Tried
    <3> QED
      BY <1>1, <3>3, <3>4
  <2>4. CASE f[k - 1].o.kind # "none"
    <3> HIDE DEF Tried
    <3> QED
      BY <1>1, <1>8, <2>1, <2>4
  <2> QED
    BY <2>3, <2>4
<1> HIDE DEF T
<1>9. L \in T
  <2>1. \A k \in 0 .. L : k \in T
    BY <1>1, <1>7, <1>8, UpTo
  <2> QED
    BY <1>1, <2>1
<1> QED
  BY <1>2, <1>9 DEF T

LEMMA AliasGroupTries ==
  ASSUME NEW S, NEW group, group.children \in Seq(S), NEW children, NEW done, NEW args, NEW already
  PROVE  LET o == PreParseAliasGroup(group, children, done, args, already)
         IN  o.kind # "none" =>
               \E n \in ToSet(group.children) :
                  o = PreParseLeaf(n, children, done, args, VerifyMatch(n, already))
<1> DEFINE Try(child) == PreParseLeaf(child, children, done, args, VerifyMatch(child, already))
           Then(o, child) == IF o.kind = "none" THEN Try(child) ELSE o
           L == Len(group.children)
           After1(m, g) == g = [k \in 0 .. m |-> IF k = 0 THEN NotThisNode
                                                ELSE Then(g[k - 1], group.children[k])]
           f == CHOOSE g : After1(L, g)
<1>1. L \in Nat /\ DOMAIN group.children = 1 .. L
  OBVIOUS
<1>2. PreParseAliasGroup(group, children, done, args, already) = f[L]
  BY DEF PreParseAliasGroup
<1> HIDE DEF Try, L, After1
<1>4. After1(L, f)
  <2> DEFINE T == {m \in 0 .. L : \E g : After1(m, g)}
  <2>1. 0 \in T
    <3>1. After1(0, [k \in 0 .. 0 |-> NotThisNode])
      BY DEF After1
    <3> QED
      BY <1>1, <3>1
  <2>2. ASSUME NEW m \in 1 .. L, m - 1 \in T PROVE m \in T
    <3>1. PICK g : After1(m - 1, g)
      BY <2>2
    <3> DEFINE h == [k \in 0 .. m |-> IF k = m THEN Then(g[m - 1], group.children[m]) ELSE g[k]]
    <3>2. \A k \in 0 .. m - 1 : g[k] = IF k = 0 THEN NotThisNode
                                       ELSE Then(g[k - 1], group.children[k])
      BY <3>1 DEF After1
    <3> HIDE DEF Then
    <3>3. \A k \in 0 .. m : h[k] = IF k = 0 THEN NotThisNode
                                   ELSE Then(h[k - 1], group.children[k])
      BY <3>2
    <3>4. After1(m, h)
      BY <3>3 DEF After1
    <3> QED
      BY <1>1, <3>4
  <2> HIDE DEF T
  <2>3. L \in T
    <3>1. \A m \in 0 .. L : m \in T
      BY <1>1, <2>1, <2>2, UpTo
    <3> QED
      BY <1>1, <3>1
  <2> QED
    BY <2>3 DEF T
<1> HIDE DEF f
<1>5. \A k \in 0 .. L : f[k] = IF k = 0 THEN NotThisNode ELSE Then(f[k - 1], group.children[k])
  BY <1>4 DEF After1
<1> DEFINE T == {k \in 0 .. L : f[k].kind # "none" => \E n \in ToSet(group.children) : f[k] = Try(n)}
<1>6. 0 \in T
  <2>1. f[0] = NotThisNode /\ NotThisNode.kind = "none"
    <3>1. f[0] = NotThisNode
      BY <1>1, <1>5
    <3>2. NotThisNode.kind = "none"
      BY DEF NotThisNode, Outcome
    <3> QED
      BY <3>1, <3>2
  <2> QED
    BY <1>1, <2>1
<1>7. ASSUME NEW k \in 1 .. L, k - 1 \in T PROVE k \in T
  <2>1. f[k] = Then(f[k - 1], group.children[k])
    BY <1>1, <1>5
  <2>2. group.children[k] \in ToSet(group.children)
    BY <1>1 DEF ToSet
  <2> QED
    BY <1>1, <1>7, <2>1, <2>2
<1> HIDE DEF T
<1>8. L \in T
  <2>1. \A k \in 0 .. L : k \in T
    BY <1>1, <1>6, <1>7, UpTo
  <2> QED
    BY <1>1, <2>1
<1> QED
  BY <1>2, <1>8 DEF T, Try

\* The leaves that try the line when it is the turn of a child of a mode
Leaves(node) == IF node.kind \in {"one_of", "alias_group"} THEN ToSet(node.children) ELSE {node}

\* What a child of a mode makes of the line is what one of its leaves does.
LEMMA PreParseTries ==
  ASSUME NEW S, NEW node, node.children \in Seq(S), NEW children, NEW done, NEW args,
         NEW selected, NEW already,
         PreParse(node, children, done, args, selected, already).o.kind # "none"
  PROVE  \E n \in Leaves(node) : \E verdict :
           PreParse(node, children, done, args, selected, already).o
             = PreParseLeaf(n, children, done, args, verdict)
<1> DEFINE r == PreParse(node, children, done, args, selected, already)
<1>1. CASE node.kind = "one_of"
  <2>1. r = PreParseOneOf(node, children, done, args, selected, already)
    BY <1>1 DEF PreParse
  <2>2. \E n \in ToSet(node.children) : \E sel :
          OneOfTried(r, n, sel, children, done, args, already)
    BY <2>1, OneOfTries
  <2> QED
    BY <1>1, <2>2 DEF Leaves, OneOfTried
<1>2. CASE node.kind = "alias_group"
  <2>1. r.o = PreParseAliasGroup(node, children, done, args, already)
    BY <1>2 DEF PreParse
  <2> QED
    BY <1>2, <2>1, AliasGroupTries DEF Leaves
<1>3. CASE node.kind \notin {"one_of", "alias_group"}
  <2>1. r.o = PreParseLeaf(node, children, done, args, VerifyMatch(node, already))
    BY <1>3 DEF PreParse
  <2> QED
    BY <1>3, <2>1 DEF Leaves
<1> QED
  BY <1>1, <1>2, <1>3

\* A match of a child of a mode is one of a leaf of the child.
LEMMA PreParseTyped ==
  ASSUME NEW A, NEW nodes, \A n \in nodes : n.children \in Seq(nodes) /\ Parameters(n),
         NEW children \in Seq(nodes), NEW node \in ToSet(children), NEW done,
         NEW args \in Seq(Words(A)), NEW selected, NEW already
  PROVE  \E n \in ToSet(Nodes(children)) :
           WellTyped(A, n, children, PreParse(node, children, done, args, selected, already).o)
<1> DEFINE o == PreParse(node, children, done, args, selected, already).o
<1>1. node \in nodes
  BY DEF ToSet
<1>2. {node} \cup ToSet(node.children) \subseteq ToSet(Nodes(children))
  <2>1. ToSet(Nodes(children))
          = UNION {{children[k]} \cup ToSet(children[k].children) : k \in DOMAIN children}
    BY NodesAre
  <2>2. PICK k \in DOMAIN children : node = children[k]
    BY DEF ToSet
  <2> QED
    BY <2>1, <2>2
<1>3. CASE o.kind = "none"
  BY <1>2, <1>3 DEF WellTyped
<1>4. CASE o.kind # "none"
  <2>0. node.children \in Seq(nodes)
    BY <1>1
  <2>5. PICK n \in Leaves(node) : \E verdict : o = PreParseLeaf(n, children, done, args, verdict)
    BY ONLY <1>4, <2>0, PreParseTries
  <2>1. PICK verdict : o = PreParseLeaf(n, children, done, args, verdict)
    BY <2>5
  <2> HIDE DEF o
  <2>2. n \in {node} \cup ToSet(node.children) /\ n \in nodes
    BY <1>1 DEF Leaves, ToSet
  <2>3. Parameters(n) /\ \A m \in nodes : m.children \in Seq(nodes)
    BY <2>2
  <2>4. WellTyped(A, n, children, o)
    BY <2>1, <2>3, LeafTyped
  <2> QED
    BY <1>2, <2>2, <2>4 DEF o
<1> QED
  BY <1>3, <1>4
=============================================================================
