-------------------------- MODULE MCCircuitBreaker --------------------------
(* CircuitBreaker on three callers and a config small enough for every     *)
(* threshold to be reached and overtaken.                                  *)
EXTENDS CircuitBreaker

CONSTANTS t1, t2, t3

MCThreads == {t1, t2, t3}
=============================================================================
