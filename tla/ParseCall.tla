----------------------------- MODULE ParseCall -----------------------------
(***************************************************************************)
(* What root_t::parse promises its caller: a call ends in one of two ways. *)
(* Either exactly one router has been called, once and last, or an         *)
(* exception is thrown and no router has been called.                      *)
(***************************************************************************)
EXTENDS Naturals

CONSTANT MaxCalls   \* bound: the calls

VARIABLES calls,    \* the calls so far
          busy,     \* a call is running
          routers,  \* the routers called by the last call
          failed    \* the last call threw an exception

vars == <<calls, busy, routers, failed>>

Init == calls = 0 /\ busy = FALSE /\ routers = 0 /\ failed = FALSE

Call == /\ ~busy /\ calls < MaxCalls
        /\ calls' = calls + 1
        /\ busy' = TRUE
        /\ routers' = 0
        /\ failed' = FALSE

Return == /\ busy
          /\ busy' = FALSE
          /\ routers' = 1
          /\ UNCHANGED <<calls, failed>>

Throw == /\ busy
         /\ busy' = FALSE
         /\ failed' = TRUE
         /\ UNCHANGED <<calls, routers>>

Next == Call \/ Return \/ Throw

Spec == Init /\ [][Next]_vars
=============================================================================
