----------------------------- MODULE TokenList -----------------------------
(***************************************************************************)
(* What dynamic_token_adapter promises the policies that use it: one list  *)
(* of tokens, of which a growing front part is claimed by the node being   *)
(* matched.  Where the list is cut into two vectors is invisible.          *)
(***************************************************************************)
EXTENDS Integers, Sequences, SeqOps

CONSTANTS Token,    \* the tokens of a command line
          Runs      \* the runs of tokens a client may insert

VARIABLES tokens,   \* the tokens, in the order of the command line
          claimed   \* how many of them, from the front, are claimed

vars == <<tokens, claimed>>

Larger(i, j) == IF i < j THEN j ELSE i

Init == tokens \in Seq(Token) /\ claimed = 0

\* Claiming never changes a token and never gives one back.
Claim == /\ claimed' \in claimed .. Len(tokens)
         /\ UNCHANGED tokens

\* New tokens are claimed, and so is everything before them.
InsertRun(i, s) == /\ tokens'  = Splice(tokens, i, s)
                   /\ claimed' = Larger(claimed, i) + Len(s)

\* New tokens are left for another node, next after the claimed ones.
Leave(s) == /\ tokens' = Splice(tokens, claimed, s)
            /\ UNCHANGED claimed

\* One token goes; the others keep their order and their owner.
Remove(i) == /\ tokens'  = Cut(tokens, i, 1)
             /\ claimed' = IF i < claimed THEN claimed - 1 ELSE claimed

\* One token is rewritten, and claimed with everything before it.
Rewrite(i, v) == /\ tokens'  = [tokens EXCEPT ![i + 1] = v]
                 /\ claimed' = Larger(claimed, i + 1)

\* The first claimed tokens are used up.
Consume(n) == /\ tokens'  = Cut(tokens, 0, n)
              /\ claimed' = claimed - n

Next == \/ Claim
        \/ \E i \in 0 .. Len(tokens), s \in Runs : InsertRun(i, s)
        \/ \E s \in Runs : Leave(s)
        \/ \E i \in 0 .. Len(tokens) - 1 : Remove(i)
        \/ \E i \in 0 .. Len(tokens) - 1, v \in Token : Rewrite(i, v)
        \/ \E n \in 0 .. claimed : Consume(n)

Spec == Init /\ [][Next]_vars
=============================================================================
