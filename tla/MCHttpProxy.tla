----------------------------- MODULE MCHttpProxy -----------------------------
(* Constants for the runs of HttpProxy. *)
EXTENDS HttpProxy

CONSTANTS h1, h2, r1, r2

Hosts2 == {h1, h2}
Targets2 == <<h1, h2>>
Requests2 == {r1, r2}
All == {"round-robin", "p2c", "least-load", "consistent-hash"}
==============================================================================
