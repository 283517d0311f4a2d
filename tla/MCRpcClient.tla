----------------------------- MODULE MCRpcClient -----------------------------
(* Constants for the runs of RpcClient.                                    *)
EXTENDS RpcClient

CONSTANTS c1, a1, a2

Sync1 == {c1}
Async1 == {a1}
Async2 == {a1, a2}
==============================================================================
