--------------------------- MODULE ConsistentHash ---------------------------
(***************************************************************************)
(* The hash ring of geeCache/consistentHash/consistentHash.go, and the     *)
(* rings that the peers of geeCache/http.go build, each in the order in    *)
(* which it iterates over the map of addresses of geeCache/cmd/main.go.    *)
(*                                                                         *)
(* The sorted slice keys is the set of its elements: a binary search gives *)
(* the same node whether a hash stands in the slice once or twice.         *)
(***************************************************************************)
EXTENDS Naturals, FiniteSets

CONSTANTS Peers,     \* the nodes that hold a ring
          Nodes,     \* the real nodes that are added
          Replicas,  \* the virtual nodes of each
          RingKeys,  \* what is looked up
          Range32,   \* the results of the hash function
          NoNode     \* the empty string

ASSUME RingAssumption == Range32 \subseteq Nat /\ NoNode \notin Nodes

VARIABLES pointOf,   \* the hash of each virtual node
          hashOf,    \* the hash of each key
          points,    \* keys of each peer's ring
          hashMap,   \* hashMap of each peer's ring
          added      \* the nodes added to it: what the peer was asked for

hashes == <<pointOf, hashOf>>
ringVars == <<pointOf, hashOf, points, hashMap, added>>

RingInit ==
    /\ pointOf \in [Nodes \X Replicas -> Range32]
    /\ hashOf \in [RingKeys -> Range32]
    /\ points = [p \in Peers |-> {}]
    /\ hashMap = [p \in Peers |-> [h \in Range32 |-> NoNode]]
    /\ added = [p \in Peers |-> {}]

Mine(n) == {pointOf[<<n, i>>] : i \in Replicas}

------------------------------------------------------------------------------
(* Slips that the properties at the end must catch.                        *)

\* Without sort.Ints the search does not see what was appended out of order.
PlaceUnsorted(p, n) ==
    points[p] \cup {h \in Mine(n) : \A g \in points[p] : g <= h}

\* The remainder of the hash as the index.
Remainder(S, h) ==
    CHOOSE g \in S : Cardinality({x \in S : x < g}) = h % Cardinality(S)

------------------------------------------------------------------------------
Place(p, n) == points[p] \cup Mine(n)

\* The first point clockwise, from the first again behind the last.
Least(S) == CHOOSE h \in S : \A g \in S : h <= g

Clockwise(S, h) == LET above == {g \in S : g >= h}
                   IN  Least(IF above = {} THEN S ELSE above)

Get(p, k) == IF points[p] = {} THEN NoNode
             ELSE hashMap[p][Clockwise(points[p], hashOf[k])]

\* Add of one node, or one turn of the loop of Add over several.
Add(p, n) ==
    /\ points' = [points EXCEPT ![p] = Place(p, n)]
    /\ hashMap' = [hashMap EXCEPT ![p] =
                      [h \in Range32 |-> IF h \in Mine(n) THEN n ELSE @[h]]]
    /\ added' = [added EXCEPT ![p] = @ \cup {n}]
    /\ UNCHANGED hashes

RingNext == \E p \in Peers, n \in Nodes : Add(p, n)

RingSpec == RingInit /\ [][RingNext]_ringVars

------------------------------------------------------------------------------
RingTypeOK ==
    /\ pointOf \in [Nodes \X Replicas -> Range32]
    /\ hashOf \in [RingKeys -> Range32]
    /\ points \in [Peers -> SUBSET Range32]
    /\ hashMap \in [Peers -> [Range32 -> Nodes \cup {NoNode}]]
    /\ added \in [Peers -> SUBSET Nodes]

\* A ring holds the points of the nodes added to it, and each of its points
\* is of an added node that has it.
RingInv ==
    /\ RingTypeOK
    /\ \A p \in Peers :
          /\ \A h \in Range32 :
                h \in points[p] <=> \E n \in added[p] : h \in Mine(n)
          /\ \A h \in points[p] : /\ hashMap[p][h] \in added[p]
                                  /\ h \in Mine(hashMap[p][h])

NoCollision == \A m, n \in Nodes : m # n => Mine(m) \cap Mine(n) = {}

\* Peers that have added the same nodes, in whatever order, send a key to the
\* same node, unless virtual nodes of two of them have one hash (the peers of
\* cmd/main.go add the addresses in the order of a Go map).
PeersAgree ==
    NoCollision => \A p, q \in Peers, k \in RingKeys :
                      added[p] = added[q] => Get(p, k) = Get(q, k)

\* What the ring is for: adding a node gives it keys and moves no key between
\* the other nodes, with colliding hashes as well.
OnlyToNewNode ==
    [][\A p \in Peers, new \in Nodes, k \in RingKeys :
          Add(p, new) => Get(p, k)' \in {Get(p, k), new}]_ringVars
=============================================================================
