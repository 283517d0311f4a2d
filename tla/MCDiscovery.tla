----------------------------- MODULE MCDiscovery -----------------------------
(***************************************************************************)
(* The two halves of geeRPC/xclient, checked in one run: the discovery     *)
(* with the registry that it reads, and the clients that XClient shares.   *)
(* An XClient takes any server as the answer of its discovery, so the two  *)
(* share no variable; a behaviour moves one of them.                       *)
(***************************************************************************)
EXTENDS Registry, XClient, TLC

CONSTANTS s1, s2, u1, u2, c1, c2, c3

VARIABLE part

Two == {s1, s2}
User1 == {u1}
Users2 == {u1, u2}
Conns3 == {c1, c2, c3}

MCInit ==
    /\ RegistryInit /\ XInit /\ part \in {"discovery", "xclient"}
    /\ part = "xclient" => index = 0

MCNext ==
    /\ \/ part = "discovery" /\ RegistryNext /\ UNCHANGED xVars
       \/ part = "xclient" /\ XNext /\ UNCHANGED registryVars
    /\ UNCHANGED part

mcVars == <<registryVars, xVars, part>>

MCSpec == MCInit /\ [][MCNext]_mcVars /\ XFairness
=============================================================================
