---------------------------- MODULE MCCacheGroup ----------------------------
(* Constants for the runs of CacheGroup. *)
EXTENDS CacheGroup

CONSTANTS n1, n2, u1, u2, known, unknown, spaced, plus

Nodes1 == {n1}
Nodes2 == {n1, n2}
Users2 == {u1, u2}
Keys1 == {known}
Keys2 == {known, unknown}
KeysUrl == {spaced, plus}
KnownSpaced == {spaced}

Same == [k \in Keys |-> k]
SpaceToPlus == [k \in Keys |-> plus]

\* n1 owns the keys that the getter knows, n2 the others.
OneRing == [n \in Nodes |-> [k \in Keys |-> IF k \in Known \/ n2 \notin Nodes
                                            THEN n1 ELSE n2]]
=============================================================================
