------------------------ MODULE DynamicTokenAdapter ------------------------
(***************************************************************************)
(* The operations of arg_router::parsing::dynamic_token_adapter as         *)
(* functions of its two containers.  An adapter a is a record:             *)
(*    a.p   the processed tokens, those a node has claimed;                *)
(*    a.u   the unprocessed tokens, the rest of the command line.          *)
(* An iterator is its index i_, or End for the iterator that end()         *)
(* returns, which has no owner.  Indices are zero-based, as in the code.   *)
(***************************************************************************)
EXTENDS Integers, Sequences, SeqOps

CONSTANT End        \* the value of end(), which is no index

ASSUME EndAssumption == End \notin Int

Size(a) == Len(a.p) + Len(a.u)

\* iterator::is_end(): no owner, or an index beyond the last token
IsEnd(a, it) == it = End \/ it >= Size(a)

\* iterator::operator*: the processed tokens, then the unprocessed ones
At(a, it) == IF it >= Len(a.p) THEN a.u[it - Len(a.p) + 1] ELSE a.p[it + 1]

\* it - 1; end() - 1 still has no owner, so it still is end()
Prev(it) == IF it = End THEN End ELSE it - 1

\* transfer(): claim every token up to and including the one at it
Transfer(a, it) ==
  LET i == IF IsEnd(a, it) THEN Size(a) - 1 ELSE it
      n == i + 1 - Len(a.p)
  IN  IF i < Len(a.p)          \* claimed already, or before the begin
      THEN a
      ELSE [p |-> a.p \o SubSeq(a.u, 1, n), u |-> SubSeq(a.u, n + 1, Len(a.u))]

\* Mutant of Insert: push_back in place of the insertion at it
InsertAtBack(a, it, s) == [Transfer(a, Prev(it)) EXCEPT !.p = @ \o s]

\* Mutant of Insert: claims the token at the position too
InsertClaimsOneMore(a, it, s) ==
  LET b  == Transfer(a, it)
      at == IF IsEnd(b, it) THEN Len(b.p) ELSE it
  IN  [b EXCEPT !.p = Splice(@, at, s)]

\* insert(): claim what precedes it, then insert the tokens s there
Insert(a, it, s) ==
  LET b  == Transfer(a, Prev(it))
      at == IF IsEnd(b, it) THEN Len(b.p) ELSE it
  IN  [b EXCEPT !.p = Splice(@, at, s)]

\* Mutant of InsertReturns: the iterator that was passed in
InsertReturnsArgument(it) == it

\* The index in the iterator insert() returns: {this, it.i_}, and end() has
\* i_ = 0.
InsertReturns(it) == IF it = End THEN 0 ELSE it

\* erase(): remove the token at it from whichever container holds it
Erase(a, it) ==
  IF IsEnd(a, it) THEN a
  ELSE IF it < Len(a.p) THEN [a EXCEPT !.p = Cut(@, it, 1)]
  ELSE [a EXCEPT !.u = Cut(@, it - Len(a.p), 1)]

\* iterator::set(): claim up to the token at it, then overwrite it
SetAt(a, it, v) == [Transfer(a, it) EXCEPT !.p = [@ EXCEPT ![it + 1] = v]]
=============================================================================
