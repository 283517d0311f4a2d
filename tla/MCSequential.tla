---------------------------- MODULE MCSequential ----------------------------
(***************************************************************************)
(* The parts of the repository in which one goroutine works at a time,     *)
(* checked in one run: the LRU list and the hash ring of geeCache, the     *)
(* router and the middleware chain of gee, and the sessions of geeOrm.     *)
(* They share no variable, so a behaviour moves one of them and leaves the *)
(* others in an initial state.                                             *)
(***************************************************************************)
EXTENDS LruCache, ConsistentHash, RouteTrie, MiddlewareChain, Orm

CONSTANTS n1, n2, n3

VARIABLE part

KeyLens == [k1 |-> 1, k2 |-> 2, k3 |-> 1]
Nodes3 == {n1, n2, n3}

StaticParts == {"a", "b"}
ColonParts == {":x"}
StarParts == {"*y"}
Short == StaticParts \cup ColonParts \cup StarParts
Deep == {<<"a", "b", "a">>, <<"a", ":x", "b">>, <<":x", "a", "*y">>,
         <<"a", "*y", "b">>}
SomePatterns == UNION {[1..k -> Short] : k \in 0..2} \cup Deep
AllRequests == UNION {[1..k -> Short] : k \in 0..2} \cup [1..3 -> StaticParts]

\* Nodes are alike: those of the ring are numbered by their first points.
Numbered == pointOf[n1, 1] <= pointOf[n2, 1] /\ pointOf[n2, 1] <= pointOf[n3, 1]

MCInit ==
    /\ part \in {"lru", "ring", "router", "chain", "orm"}
    /\ LruInit /\ (part # "lru" => lru.maxBytes = 0)
    /\ RingInit /\ (IF part = "ring" THEN Numbered
                    ELSE pointOf = [v \in Nodes \X Replicas |-> 0]
                         /\ hashOf = [k \in RingKeys |-> 0])
    /\ RouteInit /\ ChainInit
    /\ OrmInit /\ (part # "orm" => committed.cols = NoTable)

MCNext ==
    /\ \/ part = "lru" /\ LruNext
          /\ UNCHANGED <<ringVars, routeVars, chainVars, ormVars>>
       \/ part = "ring" /\ RingNext
          /\ UNCHANGED <<lruVars, routeVars, chainVars, ormVars>>
       \/ part = "router" /\ RouteNext
          /\ UNCHANGED <<lruVars, ringVars, chainVars, ormVars>>
       \/ part = "chain" /\ ChainNext
          /\ UNCHANGED <<lruVars, ringVars, routeVars, ormVars>>
       \/ part = "orm" /\ OrmNext
          /\ UNCHANGED <<lruVars, ringVars, routeVars, chainVars>>
    /\ UNCHANGED part

mcVars == <<lruVars, ringVars, routeVars, chainVars, ormVars, part>>

MCSpec == MCInit /\ [][MCNext]_mcVars
==============================================================================
