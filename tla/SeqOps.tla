------------------------------- MODULE SeqOps -------------------------------
(***************************************************************************)
(* Edits of a sequence at a zero-based position, as a C++ vector makes     *)
(* them through begin() + i.                                               *)
(***************************************************************************)
LOCAL INSTANCE Integers
LOCAL INSTANCE Sequences

\* std::vector::insert(begin() + i, s.begin(), s.end())
Splice(q, i, s) == SubSeq(q, 1, i) \o s \o SubSeq(q, i + 1, Len(q))

\* std::vector::erase(begin() + i, begin() + i + n)
Cut(q, i, n) == SubSeq(q, 1, i) \o SubSeq(q, i + n + 1, Len(q))
=============================================================================
