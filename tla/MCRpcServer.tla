----------------------------- MODULE MCRpcServer -----------------------------
(* Constants for the runs of RpcServer. *)
EXTENDS RpcServer

CONSTANTS r1, r2, r3

Requests2 == {r1, r2}
Requests3 == {r1, r2, r3}
Unknown0 == {}
Unknown1 == {r1}
==============================================================================
