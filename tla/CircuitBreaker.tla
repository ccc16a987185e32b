--------------------------- MODULE CircuitBreaker ---------------------------
(***************************************************************************)
(* The circuit breaker of app/core/resilience.py, one record per provider. *)
(* It lives in the memory of the API process.                              *)
(*                                                                         *)
(* Only the comparison of the failure count with fail_max matters, so the  *)
(* count stops there; only whether reset_timeout has passed since the      *)
(* circuit last opened matters, so time is the step from open to half-open.*)
(***************************************************************************)
EXTENDS Naturals

CONSTANT FailMax  \* settings.CIRCUIT_FAIL_MAX

ASSUME FailMaxAssumption == FailMax \in Nat \ {0}

Breakers == [failures : 0..FailMax, gate : {"closed", "open", "halfOpen"}]

Closed == [failures |-> 0, gate |-> "closed"]

\* before_call: half-open admits calls like closed, any number of them.
Admits(b) == b.gate # "open"

OnSuccess(b) == Closed

Counted(n) == IF n < FailMax THEN n + 1 ELSE FailMax

\* on_failure: at fail_max the circuit opens, or opens anew.
OnFailure(b) ==
    [failures |-> Counted(b.failures),
     gate     |-> IF Counted(b.failures) = FailMax THEN "open" ELSE b.gate]

\* reset_timeout has passed since the circuit last opened.
Elapsed(b) == [b EXCEPT !.gate = "halfOpen"]
=============================================================================
