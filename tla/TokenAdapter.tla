---------------------------- MODULE TokenAdapter ----------------------------
(***************************************************************************)
(* A dynamic_token_adapter and the operations its clients call on it: the  *)
(* pre-parse phases of the policies (through the adapter, or directly on   *)
(* the containers it exposes) and tree_node::pre_parse_impl, which builds  *)
(* it over an empty result vector and a copy of the arguments.             *)
(***************************************************************************)
EXTENDS DynamicTokenAdapter

CONSTANTS Token,      \* the tokens of a command line
          Runs,       \* the runs of tokens that are inserted
          MaxTokens   \* bound: the number of tokens in both containers

ASSUME RunsAssumption == Runs \subseteq Seq(Token)
ASSUME MaxTokensAssumption == MaxTokens \in Nat

VARIABLES processed, unprocessed,
          returned    \* the index in the iterator the last operation returned

vars == <<processed, unprocessed, returned>>

adapter == [p |-> processed, u |-> unprocessed]

Becomes(a) == processed' = a.p /\ unprocessed' = a.u

Room(s) == Size(adapter) + Len(s) <= MaxTokens

\* Positions between tokens and of tokens.  insert() and transfer() also take
\* end(); an index past the last token acts like end(), and a negative one is
\* a no-op for transfer().
Places == 0 .. Size(adapter)
Indices == 0 .. Size(adapter) - 1

TypeOK == /\ processed \in Seq(Token)
          /\ unprocessed \in Seq(Token)
          /\ returned \in Int

Init == /\ processed = <<>>
        /\ unprocessed \in UNION {[1 .. n -> Token] : n \in 0 .. MaxTokens}
        /\ returned = 0

DoTransfer(it) == /\ Becomes(Transfer(adapter, it))
                  /\ UNCHANGED returned

DoInsert(it, s) == /\ Room(s)
                   /\ Becomes(Insert(adapter, it, s))
                   /\ returned' = InsertReturns(it)

DoErase(it) == /\ Becomes(Erase(adapter, it))
               /\ returned' = IF it = End THEN 0 ELSE it

DoSet(it, v) == /\ Becomes(SetAt(adapter, it, v))
                /\ UNCHANGED returned

\* short_form_expander inserts into unprocessed() itself.
InsertUnprocessed(s) == /\ Room(s)
                        /\ unprocessed' = s \o unprocessed
                        /\ UNCHANGED <<processed, returned>>

\* alias erases its own tokens from processed() itself.
EraseProcessed(n) == /\ processed' = Cut(processed, 0, n)
                     /\ UNCHANGED <<unprocessed, returned>>

Next == \/ \E it \in (-1 .. Size(adapter)) \cup {End} : DoTransfer(it)
        \/ \E it \in Places \cup {End}, s \in Runs : DoInsert(it, s)
        \/ \E it \in Places \cup {End} : DoErase(it)
        \/ \E it \in Indices, v \in Token : DoSet(it, v)
        \/ \E s \in Runs : InsertUnprocessed(s)
        \/ \E n \in 0 .. Len(processed) : EraseProcessed(n)

Spec == Init /\ [][Next]_vars
-----------------------------------------------------------------------------
\* The abstract list this adapter presents (dynamic_token_adapter.hpp:14-28).
List == INSTANCE TokenList
        WITH tokens <- processed \o unprocessed, claimed <- Len(processed)

\* The two vectors implement one token list: every operation keeps the tokens
\* it does not name, their order, and which of them are claimed.
ImplementsTokenList == List!Spec

\* A value inserted at an index is what the iterator returned by insert()
\* reads, and what the caller had read before it is still before it: the
\* value_separator policy relies on both to put the value behind its label.
InsertedWhereAsked ==
  [][\A it \in Places, s \in Runs \ {<<>>} :
       DoInsert(it, s) => /\ At(adapter', returned') = s[1]
                          /\ \A i \in 0 .. it - 1 : At(adapter', i) = At(adapter, i)
    ]_vars
=============================================================================
