--------------------------- MODULE MCTokenAdapter ---------------------------
(* TokenAdapter on small token lists. *)
EXTENDS TokenAdapter

MCRuns == [1 .. 1 -> Token] \cup [1 .. 2 -> Token]

=============================================================================
