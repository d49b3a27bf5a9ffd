------------------------- MODULE MCCircuitBreaker -------------------------
(* CircuitBreaker with three callers, two failures to open, two probes.  *)
EXTENDS CircuitBreaker
=============================================================================
