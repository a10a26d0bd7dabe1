----------------------------- MODULE MCBreaker -----------------------------
(* One breaker with three concurrent callers. *)
EXTENDS CircuitBreaker
=============================================================================
