------------------------- MODULE TokenAdapterProofs -------------------------
(***************************************************************************)
(* Proofs about TokenAdapter, for every set of tokens and every bound: the *)
(* adapter is always two vectors of tokens, and those two vectors          *)
(* implement the one list of tokens of TokenList.                          *)
(***************************************************************************)
EXTENDS TokenAdapter, BasicProofs

\* The list and the claimed count after transfer(): no token moves past
\* another, and the claimed part only grows.
LEMMA TransferFacts ==
  ASSUME NEW p \in Seq(Token), NEW u \in Seq(Token), NEW it \in Int \cup {End}
  PROVE  \E q \in Seq(Token), w \in Seq(Token) :
           /\ Transfer([p |-> p, u |-> u], it) = [p |-> q, u |-> w]
           /\ q \o w = p \o u
           /\ Len(q) + Len(w) = Len(p) + Len(u)
           /\ (it = End \/ it >= Len(p) + Len(u)) => Len(q) = Len(p) + Len(u)
           /\ (it # End /\ it < Len(p) + Len(u))
                => Len(q) = IF it < Len(p) THEN Len(p) ELSE it + 1
<1> DEFINE size == Len(p) + Len(u)
           i == IF it = End \/ it >= size THEN size - 1 ELSE it
           n == i + 1 - Len(p)
<1>1. Transfer([p |-> p, u |-> u], it)
        = IF i < Len(p) THEN [p |-> p, u |-> u]
          ELSE [p |-> p \o SubSeq(u, 1, n), u |-> SubSeq(u, n + 1, Len(u))]
  BY DEF Transfer, IsEnd, Size
<1>2. /\ Len(p) \in Nat /\ Len(u) \in Nat /\ i \in Int
      /\ (it = End \/ it >= size) => i = size - 1
      /\ (it # End /\ it < size) => i = it /\ it \in Int
      /\ i < size
      /\ n = i + 1 - Len(p)
  BY EndAssumption
<1> HIDE DEF i, n
<1>3. CASE i < Len(p)
  <2>1. Transfer([p |-> p, u |-> u], it) = [p |-> p, u |-> u]
    BY ONLY <1>1, <1>3
  <2>2. /\ (it = End \/ it >= size) => Len(p) = size
        /\ (it # End /\ it < size) => Len(p) = IF it < Len(p) THEN Len(p) ELSE it + 1
    BY ONLY <1>2, <1>3
  <2>3. QED
    BY ONLY <2>1, <2>2, p \in Seq(Token), u \in Seq(Token)
<1>4. CASE ~ (i < Len(p))
  <2>1. n \in 0 .. Len(u)
    BY ONLY <1>2, <1>4
  <2>2. Transfer([p |-> p, u |-> u], it)
          = [p |-> p \o SubSeq(u, 1, n), u |-> SubSeq(u, n + 1, Len(u))]
    BY ONLY <1>1, <1>4
  <2>3. /\ p \o SubSeq(u, 1, n) \in Seq(Token)
        /\ SubSeq(u, n + 1, Len(u)) \in Seq(Token)
        /\ Len(p \o SubSeq(u, 1, n)) = Len(p) + n
        /\ Len(SubSeq(u, n + 1, Len(u))) = Len(u) - n
        /\ (p \o SubSeq(u, 1, n)) \o SubSeq(u, n + 1, Len(u)) = p \o u
    <3>1. ASSUME NEW k \in 0 .. Len(u)
          PROVE  /\ p \o SubSeq(u, 1, k) \in Seq(Token)
                 /\ SubSeq(u, k + 1, Len(u)) \in Seq(Token)
                 /\ Len(p \o SubSeq(u, 1, k)) = Len(p) + k
                 /\ Len(SubSeq(u, k + 1, Len(u))) = Len(u) - k
                 /\ (p \o SubSeq(u, 1, k)) \o SubSeq(u, k + 1, Len(u)) = p \o u
      <4>1. (p \o SubSeq(u, 1, k)) \o SubSeq(u, k + 1, Len(u)) = p \o u
        BY MoveFront
      <4>2. /\ p \o SubSeq(u, 1, k) \in Seq(Token)
            /\ SubSeq(u, k + 1, Len(u)) \in Seq(Token)
            /\ Len(p \o SubSeq(u, 1, k)) = Len(p) + k
            /\ Len(SubSeq(u, k + 1, Len(u))) = Len(u) - k
        BY MoveFrontType
      <4>3. QED
        BY ONLY <4>1, <4>2
    <3>2. QED
      BY ONLY <2>1, <3>1
  <2>4. ASSUME NEW q \in Seq(Token), NEW w \in Seq(Token),
               Len(q) = Len(p) + n, Len(w) = Len(u) - n
        PROVE  /\ Len(q) + Len(w) = size
               /\ (it = End \/ it >= size) => Len(q) = size
               /\ (it # End /\ it < size)
                    => Len(q) = IF it < Len(p) THEN Len(p) ELSE it + 1
    BY ONLY <1>2, <1>4, <2>1, <2>4
  <2>5. QED
    BY ONLY <2>2, <2>3, <2>4
<1>5. QED
  BY ONLY <1>3, <1>4

\* The place of the list that an iterator names.
Place(p, u, it) == IF it = End THEN Len(p) + Len(u) ELSE it

Larger(i, j) == IF i < j THEN j ELSE i

\* insert() at a place between tokens is an insertion into the list there.
LEMMA InsertFacts ==
  ASSUME NEW p \in Seq(Token), NEW u \in Seq(Token), NEW s \in Seq(Token),
         NEW it \in (0 .. Len(p) + Len(u)) \cup {End}
  PROVE  \E f \in Seq(Token), b \in Seq(Token) :
           /\ Insert([p |-> p, u |-> u], it, s) = [p |-> f, u |-> b]
           /\ f \o b = Splice(p \o u, Place(p, u, it), s)
           /\ Len(f) = Larger(Len(p), Place(p, u, it)) + Len(s)
<1> DEFINE size == Len(p) + Len(u)
<1>1. Prev(it) \in Int \cup {End} /\ Len(p) \in Nat /\ Len(u) \in Nat
  BY DEF Prev
<1>2. PICK q \in Seq(Token), w \in Seq(Token) :
        /\ Transfer([p |-> p, u |-> u], Prev(it)) = [p |-> q, u |-> w]
        /\ q \o w = p \o u
        /\ Len(q) + Len(w) = size
        /\ (Prev(it) = End \/ Prev(it) >= size) => Len(q) = size
        /\ (Prev(it) # End /\ Prev(it) < size)
             => Len(q) = IF Prev(it) < Len(p) THEN Len(p) ELSE Prev(it) + 1
  BY ONLY <1>1, TransferFacts, p \in Seq(Token), u \in Seq(Token)
<1> DEFINE at == IF it = End \/ it >= size THEN Len(q) ELSE it
<1>3. Insert([p |-> p, u |-> u], it, s) = [p |-> Splice(q, at, s), u |-> w]
  <2>1. IsEnd([p |-> q, u |-> w], it) <=> (it = End \/ it >= size)
    BY <1>2 DEF IsEnd, Size
  <2>2. Insert([p |-> p, u |-> u], it, s)
          = [[p |-> q, u |-> w] EXCEPT !.p = Splice(q, at, s)]
    BY <1>2, <2>1 DEF Insert
  <2>3. QED
    BY ONLY <2>2
<1>4. /\ at \in 0 .. Len(q) /\ at = Place(p, u, it)
      /\ Len(q) = Larger(Len(p), at)
  <2>1. CASE it = End
    <3>1. Prev(it) = End
      BY <2>1 DEF Prev
    <3>2. QED
      BY ONLY <1>1, <1>2, <2>1, <3>1 DEF Place, Larger
  <2>2. CASE it # End
    <3>1. it \in 0 .. size /\ Prev(it) = it - 1 /\ it - 1 # End
      BY <1>1, <2>2, EndAssumption DEF Prev
    <3>2. Len(q) = IF it - 1 < Len(p) THEN Len(p) ELSE it
      BY ONLY <1>1, <1>2, <3>1
    <3>3. at = IF it >= size THEN Len(q) ELSE it
      BY ONLY <2>2
    <3>4. QED
      BY ONLY <1>1, <2>2, <3>1, <3>2, <3>3 DEF Place, Larger
  <2>3. QED
    BY ONLY <2>1, <2>2
<1> HIDE DEF at
<1>5. Splice(q \o w, at, s) = Splice(q, at, s) \o w
  BY ONLY <1>4, SpliceConcat, q \in Seq(Token), w \in Seq(Token), s \in Seq(Token)
<1>6. /\ Splice(q, at, s) \in Seq(Token)
      /\ Len(Splice(q, at, s)) = Len(q) + Len(s)
  BY ONLY <1>4, SpliceType, q \in Seq(Token), s \in Seq(Token)
<1>7. /\ Splice(q, at, s) \o w = Splice(p \o u, at, s)
      /\ Len(Splice(q, at, s)) = Larger(Len(p), at) + Len(s)
  BY ONLY <1>2, <1>4, <1>5, <1>6
<1>8. QED
  BY ONLY <1>3, <1>4, <1>6, <1>7, w \in Seq(Token)

\* erase() of a token removes that token from the list, and no other.
LEMMA EraseFacts ==
  ASSUME NEW p \in Seq(Token), NEW u \in Seq(Token),
         NEW it \in 0 .. Len(p) + Len(u) - 1
  PROVE  \E f \in Seq(Token), b \in Seq(Token) :
           /\ Erase([p |-> p, u |-> u], it) = [p |-> f, u |-> b]
           /\ f \o b = Cut(p \o u, it, 1)
           /\ Len(f) = IF it < Len(p) THEN Len(p) - 1 ELSE Len(p)
<1>1. Len(p) \in Nat /\ Len(u) \in Nat /\ it \in Nat /\ it < Len(p) + Len(u)
  OBVIOUS
<1>2. it # End /\ ~ IsEnd([p |-> p, u |-> u], it)
  BY <1>1, EndAssumption DEF IsEnd, Size
<1>3. CASE it < Len(p)
  <2>1. Erase([p |-> p, u |-> u], it) = [p |-> Cut(p, it, 1), u |-> u]
    BY <1>2, <1>3 DEF Erase
  <2>2. it + 1 <= Len(p) /\ 1 \in Nat
    BY ONLY <1>1, <1>3
  <2>3. /\ Cut(p, it, 1) \in Seq(Token) /\ Len(Cut(p, it, 1)) = Len(p) - 1
        /\ Cut(p \o u, it, 1) = Cut(p, it, 1) \o u
    BY ONLY <1>1, <2>2, CutType, CutFront, p \in Seq(Token), u \in Seq(Token)
  <2>4. QED
    BY ONLY <1>3, <2>1, <2>3, u \in Seq(Token)
<1>4. CASE ~ (it < Len(p))
  <2> DEFINE j == it - Len(p)
  <2>1. Erase([p |-> p, u |-> u], it) = [p |-> p, u |-> Cut(u, j, 1)]
    BY <1>2, <1>4 DEF Erase
  <2>2. j \in Nat /\ j + 1 <= Len(u) /\ Len(p) + j = it
    BY <1>1, <1>4
  <2> HIDE DEF j
  <2>3. /\ Cut(u, j, 1) \in Seq(Token)
        /\ Cut(p \o u, Len(p) + j, 1) = p \o Cut(u, j, 1)
    BY <2>2, CutType, CutBack
  <2>4. QED
    BY ONLY <1>4, <2>1, <2>2, <2>3, p \in Seq(Token)
<1>5. QED
  BY ONLY <1>3, <1>4

\* set() rewrites one token of the list, and claims up to it.
LEMMA SetFacts ==
  ASSUME NEW p \in Seq(Token), NEW u \in Seq(Token), NEW v \in Token,
         NEW it \in 0 .. Len(p) + Len(u) - 1
  PROVE  \E f \in Seq(Token), b \in Seq(Token) :
           /\ SetAt([p |-> p, u |-> u], it, v) = [p |-> f, u |-> b]
           /\ f \o b = [(p \o u) EXCEPT ![it + 1] = v]
           /\ Len(f) = IF Len(p) < it + 1 THEN it + 1 ELSE Len(p)
<1> DEFINE size == Len(p) + Len(u)
<1>1. Len(p) \in Nat /\ Len(u) \in Nat /\ it \in Nat /\ it < size /\ it # End
      /\ it \in Int \cup {End}
  BY EndAssumption
<1>2. PICK q \in Seq(Token), w \in Seq(Token) :
        /\ Transfer([p |-> p, u |-> u], it) = [p |-> q, u |-> w]
        /\ q \o w = p \o u
        /\ (it # End /\ it < size)
             => Len(q) = IF it < Len(p) THEN Len(p) ELSE it + 1
  BY ONLY <1>1, TransferFacts, p \in Seq(Token), u \in Seq(Token)
<1>3. SetAt([p |-> p, u |-> u], it, v) = [p |-> [q EXCEPT ![it + 1] = v], u |-> w]
  <2>1. ASSUME NEW a, a = [p |-> q, u |-> w]
        PROVE  [a EXCEPT !.p = [a.p EXCEPT ![it + 1] = v]]
                 = [p |-> [q EXCEPT ![it + 1] = v], u |-> w]
    <3>1. a.p = q
      BY ONLY <2>1
    <3>2. \A e : [a EXCEPT !.p = e] = [p |-> e, u |-> w]
      BY ONLY <2>1
    <3>3. QED
      BY ONLY <3>1, <3>2
  <2>2. SetAt([p |-> p, u |-> u], it, v)
          = [Transfer([p |-> p, u |-> u], it) EXCEPT
               !.p = [Transfer([p |-> p, u |-> u], it).p EXCEPT ![it + 1] = v]]
    BY DEF SetAt
  <2>3. QED
    BY ONLY <1>2, <2>1, <2>2
<1>4. /\ Len(q) = IF Len(p) < it + 1 THEN it + 1 ELSE Len(p)
      /\ it + 1 \in 1 .. Len(q)
  BY ONLY <1>1, <1>2
<1>5. ASSUME NEW k \in 1 .. Len(q)
      PROVE  /\ [q EXCEPT ![k] = v] \in Seq(Token)
             /\ Len([q EXCEPT ![k] = v]) = Len(q)
             /\ [q EXCEPT ![k] = v] \o w = [(q \o w) EXCEPT ![k] = v]
  BY ONLY RewriteConcat, q \in Seq(Token), w \in Seq(Token), v \in Token,
          k \in 1 .. Len(q)
<1>6. /\ [q EXCEPT ![it + 1] = v] \in Seq(Token)
      /\ Len([q EXCEPT ![it + 1] = v]) = Len(q)
      /\ [q EXCEPT ![it + 1] = v] \o w = [(q \o w) EXCEPT ![it + 1] = v]
  BY ONLY <1>4, <1>5
<1>7. QED
  BY ONLY <1>2, <1>3, <1>4, <1>6, w \in Seq(Token)

\* transfer() claims: it adds tokens of the list to the claimed part.
LEMMA TransferClaims ==
  ASSUME NEW p \in Seq(Token), NEW u \in Seq(Token), NEW it \in Int \cup {End}
  PROVE  \E q \in Seq(Token), w \in Seq(Token) :
           /\ Transfer([p |-> p, u |-> u], it) = [p |-> q, u |-> w]
           /\ q \o w = p \o u
           /\ Len(q) \in Len(p) .. Len(p) + Len(u)
<1>1. PICK q \in Seq(Token), w \in Seq(Token) :
        /\ Transfer([p |-> p, u |-> u], it) = [p |-> q, u |-> w]
        /\ q \o w = p \o u
        /\ Len(q) + Len(w) = Len(p) + Len(u)
        /\ (it = End \/ it >= Len(p) + Len(u)) => Len(q) = Len(p) + Len(u)
        /\ (it # End /\ it < Len(p) + Len(u))
             => Len(q) = IF it < Len(p) THEN Len(p) ELSE it + 1
  BY TransferFacts
<1>2. Len(q) \in Len(p) .. Len(p) + Len(u)
  <2>1. Len(p) \in Nat /\ Len(u) \in Nat
    OBVIOUS
  <2>2. it # End => it \in Int
    OBVIOUS
  <2>3. QED
    BY ONLY <1>1, <2>1, <2>2
<1>3. QED
  BY ONLY <1>1, <1>2, q \in Seq(Token), w \in Seq(Token)

-----------------------------------------------------------------------------
\* The two containers are always vectors of tokens, whatever is inserted,
\* erased, overwritten or claimed (TypeOK of TokenAdapter).
THEOREM TypeCorrect == Spec => []TypeOK
<1>1. Init => TypeOK
  <2> SUFFICES ASSUME Init PROVE TypeOK
    OBVIOUS
  <2>1. PICK n \in 0 .. MaxTokens : unprocessed \in [1 .. n -> Token]
    BY DEF Init
  <2>2. unprocessed \in Seq(Token)
    BY <2>1, MaxTokensAssumption, SeqDef
  <2>3. QED
    BY <2>2 DEF Init, TypeOK
<1>2. TypeOK /\ [Next]_vars => TypeOK'
  <2> SUFFICES ASSUME TypeOK, [Next]_vars PROVE TypeOK'
    OBVIOUS
  <2>t. processed \in Seq(Token) /\ unprocessed \in Seq(Token) /\ returned \in Int
    BY DEF TypeOK
  <2>1. ASSUME NEW it \in (-1 .. Size(adapter)) \cup {End}, DoTransfer(it)
        PROVE  TypeOK'
    <3>1. it \in Int \cup {End}
      BY <2>t DEF Size, adapter
    <3>2. QED
      <4>1. PICK q \in Seq(Token), w \in Seq(Token) :
              /\ Transfer(adapter, it) = [p |-> q, u |-> w]
              /\ q \o w = processed \o unprocessed
              /\ Len(q) \in Len(processed) .. Len(processed) + Len(unprocessed)
        BY ONLY <2>t, <3>1, TransferClaims DEF adapter
      <4>2. processed' = q /\ unprocessed' = w /\ returned' = returned
        BY ONLY <2>1, <4>1 DEF DoTransfer, Becomes
      <4>3. QED
        BY ONLY <2>t, <4>2, q \in Seq(Token), w \in Seq(Token) DEF TypeOK
  <2>2. ASSUME NEW it \in Places \cup {End}, NEW s \in Runs, DoInsert(it, s)
        PROVE  TypeOK'
    <3>1. /\ it \in (0 .. Len(processed) + Len(unprocessed)) \cup {End}
          /\ s \in Seq(Token)
      BY RunsAssumption DEF Places, Size, adapter
    <3>2. InsertReturns(it) \in Int
      BY <2>t, <3>1 DEF InsertReturns
    <3>3. PICK f \in Seq(Token), b \in Seq(Token) :
            /\ Insert(adapter, it, s) = [p |-> f, u |-> b]
            /\ f \o b = Splice(processed \o unprocessed,
                              Place(processed, unprocessed, it), s)
            /\ Len(f) = Larger(Len(processed), Place(processed, unprocessed, it))
                         + Len(s)
      BY ONLY <2>t, <3>1, InsertFacts DEF adapter
    <3>4. QED
      BY ONLY <2>2, <3>2, <3>3, f \in Seq(Token), b \in Seq(Token)
         DEF DoInsert, Becomes, TypeOK
  <2>3. ASSUME NEW it \in Places \cup {End}, DoErase(it)
        PROVE  TypeOK'
    <3>1. CASE IsEnd(adapter, it)
      BY <2>t, <2>3, <3>1 DEF DoErase, Becomes, Erase, adapter, TypeOK, Places, Size
    <3>2. CASE ~ IsEnd(adapter, it)
      <4>1. it \in 0 .. Len(processed) + Len(unprocessed) - 1 /\ it # End
        BY <2>t, <3>2 DEF IsEnd, Places, Size, adapter
      <4>2. QED
        <5>1. PICK f \in Seq(Token), b \in Seq(Token) :
                /\ Erase(adapter, it) = [p |-> f, u |-> b]
                /\ f \o b = Cut(processed \o unprocessed, it, 1)
                /\ Len(f) = IF it < Len(processed) THEN Len(processed) - 1
                            ELSE Len(processed)
          BY ONLY <2>t, <4>1, EraseFacts DEF adapter
        <5>2. returned' \in Int
          BY ONLY <2>t, <2>3, <4>1 DEF DoErase
        <5>3. QED
          BY ONLY <2>3, <5>1, <5>2, f \in Seq(Token), b \in Seq(Token)
             DEF DoErase, Becomes, TypeOK
    <3>3. QED
      BY <3>1, <3>2
  <2>4. ASSUME NEW it \in Indices, NEW v \in Token, DoSet(it, v)
        PROVE  TypeOK'
    <3>1. it \in 0 .. Len(processed) + Len(unprocessed) - 1
      BY DEF Indices, Size, adapter
    <3>2. PICK f \in Seq(Token), b \in Seq(Token) :
            /\ SetAt(adapter, it, v) = [p |-> f, u |-> b]
            /\ f \o b = [(processed \o unprocessed) EXCEPT ![it + 1] = v]
            /\ Len(f) = IF Len(processed) < it + 1 THEN it + 1 ELSE Len(processed)
      BY ONLY <2>t, <3>1, v \in Token, SetFacts DEF adapter
    <3>3. QED
      BY ONLY <2>t, <2>4, <3>2, f \in Seq(Token), b \in Seq(Token)
         DEF DoSet, Becomes, TypeOK
  <2>5. ASSUME NEW s \in Runs, InsertUnprocessed(s)
        PROVE  TypeOK'
    BY <2>t, <2>5, RunsAssumption DEF InsertUnprocessed, TypeOK
  <2>6. ASSUME NEW n \in 0 .. Len(processed), EraseProcessed(n)
        PROVE  TypeOK'
    <3>1. 0 \in Nat /\ n \in Nat /\ 0 + n <= Len(processed)
      BY <2>t
    <3>2. Cut(processed, 0, n) \in Seq(Token)
      BY <2>t, <3>1, CutType
    <3>3. QED
      BY <2>t, <2>6, <3>2 DEF EraseProcessed, TypeOK
  <2>7. CASE UNCHANGED vars
    BY <2>t, <2>7 DEF vars, TypeOK
  <2>8. QED
    BY <2>1, <2>2, <2>3, <2>4, <2>5, <2>6, <2>7 DEF Next
<1>3. QED
  BY <1>1, <1>2, PTL DEF Spec

\* The adapter implements TokenList: a transfer only claims, an insertion, an
\* erasure or an overwriting changes the one place it names, and no operation
\* loses, duplicates or reorders another token (ImplementsTokenList).
THEOREM Refinement == Spec => ImplementsTokenList
<1>1. Init => List!Init
  <2> SUFFICES ASSUME Init PROVE List!Init
    OBVIOUS
  <2>1. PICK n \in 0 .. MaxTokens : unprocessed \in [1 .. n -> Token]
    BY DEF Init
  <2>2. unprocessed \in Seq(Token)
    BY <2>1, MaxTokensAssumption, SeqDef
  <2>3. << >> \o unprocessed = unprocessed
    BY ONLY <2>2
  <2>4. QED
    BY <2>2, <2>3 DEF Init, List!Init
<1>2. TypeOK /\ [Next]_vars => [List!Next]_(List!vars)
  <2> SUFFICES ASSUME TypeOK, [Next]_vars PROVE [List!Next]_(List!vars)
    OBVIOUS
  <2> DEFINE tokens == processed \o unprocessed
             claimed == Len(processed)
  <2>t. processed \in Seq(Token) /\ unprocessed \in Seq(Token)
    BY DEF TypeOK
  <2>l. /\ \A q, i, s : List!Splice(q, i, s) = Splice(q, i, s)
        /\ \A q, i, n : List!Cut(q, i, n) = Cut(q, i, n)
    BY DEF Splice, Cut, List!Splice, List!Cut
  <2>n. /\ claimed \in Nat /\ tokens \in Seq(Token)
        /\ Len(tokens) = claimed + Len(unprocessed) /\ Len(unprocessed) \in Nat
    BY ONLY <2>t, ConcatFacts
  <2>1. ASSUME NEW it \in (-1 .. Size(adapter)) \cup {End}, DoTransfer(it)
        PROVE  List!Claim
    <3>1. it \in Int \cup {End}
      BY <2>t DEF Size, adapter
    <3>2. PICK q \in Seq(Token), w \in Seq(Token) :
            /\ Transfer(adapter, it) = [p |-> q, u |-> w]
            /\ q \o w = tokens
            /\ Len(q) \in claimed .. claimed + Len(unprocessed)
      BY ONLY <2>t, <3>1, TransferClaims DEF adapter
    <3>3. processed' = q /\ unprocessed' = w
      BY ONLY <2>1, <3>2 DEF DoTransfer, Becomes
    <3>4. QED
      BY ONLY <2>n, <3>2, <3>3 DEF List!Claim
  <2>2. ASSUME NEW it \in Places \cup {End}, NEW s \in Runs, DoInsert(it, s)
        PROVE  \E i \in 0 .. Len(tokens) : List!InsertRun(i, s)
    <3>1. /\ it \in (0 .. Len(processed) + Len(unprocessed)) \cup {End}
          /\ s \in Seq(Token)
      BY RunsAssumption DEF Places, Size, adapter
    <3>2. PICK f \in Seq(Token), b \in Seq(Token) :
            /\ Insert(adapter, it, s) = [p |-> f, u |-> b]
            /\ f \o b = Splice(tokens, Place(processed, unprocessed, it), s)
            /\ Len(f) = Larger(claimed, Place(processed, unprocessed, it)) + Len(s)
      BY ONLY <2>t, <3>1, InsertFacts DEF adapter
    <3>3. processed' = f /\ unprocessed' = b
      BY ONLY <2>2, <3>2 DEF DoInsert, Becomes
    <3>4. Place(processed, unprocessed, it) \in 0 .. Len(tokens)
      BY ONLY <2>n, <3>1 DEF Place
    <3>5. QED
      BY ONLY <2>l, <2>n, <3>2, <3>3, <3>4 DEF List!InsertRun, List!Larger, Larger
  <2>3. ASSUME NEW it \in Places \cup {End}, DoErase(it)
        PROVE  [List!Next]_(List!vars)
    <3>1. CASE IsEnd(adapter, it)
      <4>1. processed' = processed /\ unprocessed' = unprocessed
        BY ONLY <2>3, <3>1 DEF DoErase, Becomes, Erase, adapter
      <4>2. QED
        BY ONLY <4>1 DEF List!vars
    <3>2. CASE ~ IsEnd(adapter, it)
      <4>1. it \in 0 .. Len(processed) + Len(unprocessed) - 1
        BY <2>t, <3>2 DEF IsEnd, Places, Size, adapter
      <4>2. PICK f \in Seq(Token), b \in Seq(Token) :
              /\ Erase(adapter, it) = [p |-> f, u |-> b]
              /\ f \o b = Cut(tokens, it, 1)
              /\ Len(f) = IF it < claimed THEN claimed - 1 ELSE claimed
        BY ONLY <2>t, <4>1, EraseFacts DEF adapter
      <4>3. processed' = f /\ unprocessed' = b
        BY ONLY <2>3, <4>2 DEF DoErase, Becomes
      <4>4. it \in 0 .. Len(tokens) - 1 /\ List!Remove(it)
        BY ONLY <2>l, <2>n, <4>1, <4>2, <4>3 DEF List!Remove
      <4>5. QED
        BY ONLY <4>4 DEF List!Next
    <3>3. QED
      BY ONLY <3>1, <3>2
  <2>4. ASSUME NEW it \in Indices, NEW v \in Token, DoSet(it, v)
        PROVE  it \in 0 .. Len(tokens) - 1 /\ List!Rewrite(it, v)
    <3>1. it \in 0 .. Len(processed) + Len(unprocessed) - 1
      BY DEF Indices, Size, adapter
    <3>2. PICK f \in Seq(Token), b \in Seq(Token) :
            /\ SetAt(adapter, it, v) = [p |-> f, u |-> b]
            /\ f \o b = [tokens EXCEPT ![it + 1] = v]
            /\ Len(f) = IF claimed < it + 1 THEN it + 1 ELSE claimed
      BY ONLY <2>t, <3>1, v \in Token, SetFacts DEF adapter
    <3>3. processed' = f /\ unprocessed' = b
      BY ONLY <2>4, <3>2 DEF DoSet, Becomes
    <3>4. QED
      BY ONLY <2>n, <3>1, <3>2, <3>3 DEF List!Rewrite, List!Larger
  <2>5. ASSUME NEW s \in Runs, InsertUnprocessed(s)
        PROVE  List!Leave(s)
    <3>1. s \in Seq(Token)
      BY RunsAssumption
    <3>2. Splice(tokens, claimed, s) = processed \o (s \o unprocessed)
      BY ONLY <2>t, <3>1, SpliceBetween
    <3>3. QED
      BY ONLY <2>l, <2>5, <3>2 DEF InsertUnprocessed, List!Leave
  <2>6. ASSUME NEW n \in 0 .. Len(processed), EraseProcessed(n)
        PROVE  List!Consume(n)
    <3>1. 0 \in Nat /\ n \in Nat /\ 0 + n <= Len(processed)
      BY ONLY <2>n, n \in 0 .. Len(processed)
    <3>2. Cut(tokens, 0, n) = Cut(processed, 0, n) \o unprocessed
      BY ONLY <2>t, <3>1, CutFront
    <3>3. Len(Cut(processed, 0, n)) = claimed - n
      BY ONLY <2>t, <3>1, CutType
    <3>4. QED
      BY ONLY <2>l, <2>6, <3>2, <3>3 DEF EraseProcessed, List!Consume
  <2>7. CASE UNCHANGED vars
    BY ONLY <2>7 DEF vars, List!vars
  <2>8. CASE Next
    <3>1. List!Claim => List!Next
      BY DEF List!Next
    <3>2. ASSUME NEW s \in Runs, NEW i \in 0 .. Len(tokens), List!InsertRun(i, s)
          PROVE  List!Next
      BY ONLY <3>2, s \in Runs, i \in 0 .. Len(tokens) DEF List!Next
    <3>3. ASSUME NEW s \in Runs, List!Leave(s)
          PROVE  List!Next
      BY ONLY <3>3, s \in Runs DEF List!Next
    <3>4. ASSUME NEW i \in 0 .. Len(tokens) - 1, NEW v \in Token, List!Rewrite(i, v)
          PROVE  List!Next
      BY ONLY <3>4, i \in 0 .. Len(tokens) - 1, v \in Token DEF List!Next
    <3>5. ASSUME NEW n \in 0 .. claimed, List!Consume(n)
          PROVE  List!Next
      BY ONLY <3>5, n \in 0 .. claimed DEF List!Next
    <3> HIDE DEF tokens, claimed
    <3>6. QED
      BY ONLY <2>1, <2>2, <2>3, <2>4, <2>5, <2>6, <2>8, <3>1, <3>2, <3>3, <3>4,
              <3>5 DEF Next, claimed
  <2>9. QED
    BY <2>7, <2>8
<1>3. QED
  BY <1>1, <1>2, TypeCorrect, PTL DEF Spec, ImplementsTokenList, List!Spec
-----------------------------------------------------------------------------
\* The iterator reads the processed tokens and then the unprocessed ones: the
\* list that the two containers make.
LEMMA AtFacts ==
  ASSUME NEW p \in Seq(Token), NEW u \in Seq(Token),
         NEW i \in 0 .. Len(p) + Len(u) - 1
  PROVE  At([p |-> p, u |-> u], i) = (p \o u)[i + 1]
<1>1. /\ Len(p) \in Nat /\ Len(u) \in Nat /\ i \in Nat
      /\ i + 1 \in 1 .. Len(p) + Len(u)
  OBVIOUS
<1>2. (p \o u)[i + 1] = IF i + 1 <= Len(p) THEN p[i + 1] ELSE u[(i + 1) - Len(p)]
  BY ONLY <1>1, ConcatFacts, p \in Seq(Token), u \in Seq(Token)
<1>3. (i + 1 <= Len(p)) = ~ (i >= Len(p)) /\ (i + 1) - Len(p) = i - Len(p) + 1
  BY ONLY <1>1
<1>4. At([p |-> p, u |-> u], i)
        = IF i >= Len(p) THEN u[i - Len(p) + 1] ELSE p[i + 1]
  BY DEF At
<1>5. QED
  BY ONLY <1>2, <1>3, <1>4

\* A run of tokens inserted at an index is what the iterator returned by
\* insert() reads, and every index before it reads what it read, whatever part
\* of the list was claimed and whichever container the place was in
\* (InsertedWhereAsked of TokenAdapter; dynamic_token_adapter.hpp:385-416).
THEOREM InsertionIsRead == Spec => InsertedWhereAsked
<1>1. ASSUME TypeOK, NEW it \in Places, NEW s \in Runs \ {<<>>}, DoInsert(it, s)
      PROVE  /\ At(adapter', returned') = s[1]
             /\ \A i \in 0 .. it - 1 : At(adapter', i) = At(adapter, i)
  <2> DEFINE tokens == processed \o unprocessed
             size == Len(processed) + Len(unprocessed)
  <2>1. /\ processed \in Seq(Token) /\ unprocessed \in Seq(Token)
        /\ Len(processed) \in Nat /\ Len(unprocessed) \in Nat
    BY <1>1 DEF TypeOK
  <2>2. /\ it \in 0 .. size /\ it # End /\ s \in Seq(Token) /\ s # <<>>
        /\ it \in (0 .. size) \cup {End}
    BY <2>1, RunsAssumption, EndAssumption DEF Places, Size, adapter
  <2>3. Len(s) \in Nat /\ Len(s) >= 1
    BY ONLY <2>2
  <2>4. PICK f \in Seq(Token), b \in Seq(Token) :
          /\ Insert(adapter, it, s) = [p |-> f, u |-> b]
          /\ f \o b = Splice(tokens, Place(processed, unprocessed, it), s)
          /\ Len(f) = Larger(Len(processed), Place(processed, unprocessed, it)) + Len(s)
    BY ONLY <2>1, <2>2, InsertFacts DEF adapter
  <2>5. adapter' = [p |-> f, u |-> b] /\ returned' = it
    BY ONLY <1>1, <2>2, <2>4 DEF DoInsert, Becomes, adapter, InsertReturns
  <2>6. f \o b = Splice(tokens, it, s)
    BY ONLY <2>2, <2>4 DEF Place
  <2>7. tokens \in Seq(Token) /\ Len(tokens) = size
    BY ONLY <2>1, ConcatFacts
  <2>8. /\ Len(f) + Len(b) = size + Len(s)
        /\ \A k \in 1 .. it : (f \o b)[k] = tokens[k]
        /\ \A k \in 1 .. Len(s) : (f \o b)[it + k] = s[k]
    <3>1. Len(f \o b) = Len(f) + Len(b)
      BY ONLY ConcatFacts, f \in Seq(Token), b \in Seq(Token)
    <3>2. Len(Splice(tokens, it, s)) = size + Len(s)
      BY ONLY <2>2, <2>7, SpliceType
    <3>3. /\ \A k \in 1 .. it : Splice(tokens, it, s)[k] = tokens[k]
          /\ \A k \in 1 .. Len(s) : Splice(tokens, it, s)[it + k] = s[k]
      <4>1. ASSUME NEW q \in Seq(Token), it \in 0 .. Len(q)
            PROVE  /\ \A k \in 1 .. it : Splice(q, it, s)[k] = q[k]
                   /\ \A k \in 1 .. Len(s) : Splice(q, it, s)[it + k] = s[k]
        BY ONLY <2>2, <4>1, SpliceFacts
      <4>2. QED
        BY ONLY <2>2, <2>7, <4>1
    <3>4. QED
      BY ONLY <2>6, <3>1, <3>2, <3>3
  <2>9. \A i \in 0 .. size + Len(s) - 1 : At(adapter', i) = (f \o b)[i + 1]
    BY ONLY <2>5, <2>8, AtFacts, f \in Seq(Token), b \in Seq(Token)
  <2>10. \A i \in 0 .. size - 1 : At(adapter, i) = tokens[i + 1]
    BY ONLY <2>1, AtFacts DEF adapter
  <2> HIDE DEF tokens, size
  <2>11. At(adapter', returned') = s[1]
    <3>1. it \in 0 .. size + Len(s) - 1 /\ 1 \in 1 .. Len(s)
      BY <2>1, <2>2, <2>3 DEF size
    <3>2. QED
      BY ONLY <2>5, <2>8, <2>9, <3>1
  <2>12. ASSUME NEW i \in 0 .. it - 1
         PROVE  At(adapter', i) = At(adapter, i)
    <3>1. /\ i \in 0 .. size + Len(s) - 1 /\ i \in 0 .. size - 1
          /\ i + 1 \in 1 .. it
      BY <2>1, <2>2, <2>3 DEF size
    <3>2. QED
      BY ONLY <2>8, <2>9, <2>10, <3>1
  <2>13. QED
    BY ONLY <2>11, <2>12
<1> DEFINE Read == \A it \in Places, s \in Runs \ {<<>>} :
             DoInsert(it, s) => /\ At(adapter', returned') = s[1]
                                /\ \A i \in 0 .. it - 1 : At(adapter', i) = At(adapter, i)
<1>2. TypeOK => Read
  BY ONLY <1>1
<1> HIDE DEF Read
<1>4. TypeOK => [Read]_vars
  BY <1>2
<1>5. Spec => [][Read]_vars
  BY <1>4, TypeCorrect, PTL
<1>6. QED
  BY <1>5 DEF InsertedWhereAsked, Read
=============================================================================
