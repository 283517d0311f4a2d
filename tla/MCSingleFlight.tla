--------------------------- MODULE MCSingleFlight ---------------------------
(* Constants for the runs of SingleFlight. *)
EXTENDS SingleFlight

CONSTANTS c1, c2, c3, c4, k1, k2, value, error

Callers3 == {c1, c2, c3}
Callers4 == {c1, c2, c3, c4}
Keys1 == {k1}
Keys2 == {k1, k2}
Results2 == {value, error}
=============================================================================
