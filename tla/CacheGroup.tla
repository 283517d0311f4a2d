----------------------------- MODULE CacheGroup -----------------------------
(***************************************************************************)
(* geeCache (geecache.go, http.go, cache.go): nodes that each keep a part  *)
(* of one cache, and ask the owner of a key for it over HTTP.              *)
(*                                                                         *)
(* A request is one execution of Group.Get on one node.  A user issues the *)
(* request <<u, 0>>; when its load asks a peer, the handler there runs the *)
(* request <<u, 1>>, and so on.  Concurrent loads of one key on one node   *)
(* go through the node's singleflight group, which is the module           *)
(* SingleFlight, with the keys of all nodes side by side.                  *)
(***************************************************************************)
EXTENDS Naturals

CONSTANTS Nodes, Keys,
          Known,     \* the keys that the getter (the data source) knows
          Owner,     \* Owner[n][k]: the node that n's hash ring names for k
          UrlKey,    \* UrlKey[k]: what is left of k after a trip in a URL
          Users,
          MaxHops,   \* bound on the length of a chain of peers
          Empty,     \* the ByteView without bytes
          None       \* no value, no request

Requests == Users \X (0 .. MaxHops)
Child(r) == <<r[1], r[2] + 1>>
Slots == Nodes \X Keys

\* getLocally turns an error of the getter into an empty ByteView.
Content(k) == IF k \in Known THEN k ELSE Empty

ASSUME GroupAssumption ==
    /\ Known \subseteq Keys
    /\ Owner \in [Nodes -> [Keys -> Nodes]]
    /\ UrlKey \in [Keys -> Keys]
    /\ MaxHops \in Nat
    /\ None \notin Requests \cup Slots \cup Keys \cup {Empty}
    /\ Empty \notin Keys

VARIABLES
    registered,   \* the nodes that have called RegisterPeers, and serve peers
    cache,        \* mainCache of each node, by slot
    step,         \* where each request is
    want,         \* its node and key
    why,          \* why it goes to the getter (history)
    answer,       \* what its Get returned
    m, released, result, pc, key, flight, got     \* the singleflight groups

Flight == INSTANCE SingleFlight
          WITH Callers <- Requests, Keys <- Slots, Results <- Keys \cup {Empty}

flightVars == <<m, released, result, pc, key, flight, got>>
vars == <<registered, cache, step, want, why, answer, flightVars>>

Init ==
    /\ registered = {}
    /\ cache = [w \in Slots |-> None]
    /\ step = [r \in Requests |-> "none"]
    /\ want = [r \in Requests |-> None]
    /\ why = [r \in Requests |-> "none"]
    /\ answer = [r \in Requests |-> None]
    /\ Flight!Init

Goto(r, label) == step' = [step EXCEPT ![r] = label]

\* Get returns.
Answer(r, v) == /\ answer' = [answer EXCEPT ![r] = v]
                /\ Goto(r, "returned")

------------------------------------------------------------------------------
(* Slips that the properties at the end must catch.                        *)

RemoteOrSelf(w) == w[1] \in registered         \* no peer != p.self
RemoteNever(w) == FALSE                        \* PickPeer not asked
CachedAlways(k) == TRUE                        \* no return on err
UnreachedEmpty(r) == /\ Flight!FnReturns(r, Empty)      \* err dropped
                     /\ Goto(r, "leave")
                     /\ UNCHANGED <<why, answer>>

------------------------------------------------------------------------------
(* The cache of a node.  Which entries an insertion drops depends on sizes *)
(* and recency (lru); here it may be any of the node's, the new one too.   *)

Hit(w) == cache[w] # None

Put(w, v) ==
    \E dropped \in SUBSET {x \in Slots : x[1] = w[1]} :
        cache' = [x \in Slots |-> IF x \in dropped THEN None
                                  ELSE IF x = w THEN v ELSE cache[x]]

\* PickPeer, when there is one to ask (g.peers) and it is not the node itself.
Peer(w) == Owner[w[1]][w[2]]
Remote(w) == w[1] \in registered /\ Peer(w) # w[1]

\* The peer unpacks the path that httpGetter.Get has put together.
Sent(w) == <<Peer(w), UrlKey[w[2]]>>

\* Only what the getter knows is cached.
Cached(k) == k \in Known

\* A peer that cannot be reached is not an answer: the load goes on locally.
Unreached(r) == /\ Goto(r, "getter")
                /\ why' = [why EXCEPT ![r] = "peerFailed"]
                /\ UNCHANGED <<answer, flightVars>>

------------------------------------------------------------------------------
(* Group.Get.                                                              *)

\* A user asks a node, which need not serve peers yet.
Issue(u, n, k) ==
    LET r == <<u, 0>>
    IN /\ step[r] = "none"
       /\ want' = [want EXCEPT ![r] = <<n, k>>]
       /\ Goto(r, "lookup")
       /\ UNCHANGED <<registered, cache, why, answer, flightVars>>

\* Get, of a key that is not empty: an empty one is refused without a step.
Lookup(r) ==
    /\ step[r] = "lookup"
    /\ IF Hit(want[r]) THEN Answer(r, cache[want[r]])
                       ELSE Goto(r, "missed") /\ UNCHANGED answer
    /\ UNCHANGED <<registered, cache, want, why, flightVars>>

\* load: loader.Do is entered some time after the miss.
Enter(r) ==
    /\ step[r] = "missed"
    /\ \/ Flight!Join(r, want[r]) /\ Goto(r, "wait")
       \/ Flight!Lead(r, want[r]) /\ Goto(r, "pick")
    /\ UNCHANGED <<registered, cache, want, why, answer>>

\* The function given to Do: a peer, or the getter.
Pick(r) ==
    /\ step[r] = "pick"
    /\ \/ /\ Remote(want[r]) /\ r[2] < MaxHops
          /\ Goto(r, "peer")
          /\ UNCHANGED why
       \/ /\ ~Remote(want[r])
          /\ Goto(r, "getter")
          /\ why' = [why EXCEPT ![r] =
                IF want[r][1] \in registered THEN "owner" ELSE "noPeers"]
    /\ UNCHANGED <<registered, cache, want, answer, flightVars>>

\* HTTPPool.ServeHTTP on the peer, once it listens.
Arrive(r) ==
    /\ step[r] = "peer" /\ step[Child(r)] = "none"
    /\ Peer(want[r]) \in registered
    /\ want' = [want EXCEPT ![Child(r)] = Sent(want[r])]
    /\ Goto(Child(r), "lookup")
    /\ UNCHANGED <<registered, cache, why, answer, flightVars>>

\* A value from a peer is returned but not cached here.
PeerAnswers(r) ==
    /\ step[r] = "peer" /\ step[Child(r)] = "returned"
    /\ Flight!FnReturns(r, answer[Child(r)])
    /\ Goto(r, "leave")
    /\ UNCHANGED <<registered, cache, want, why, answer>>

\* The call to the peer fails before, while or after the peer works on it.
PeerFails(r) ==
    /\ step[r] = "peer"
    /\ Unreached(r)
    /\ UNCHANGED <<registered, cache, want>>

\* getLocally, with populateCache.
GetLocally(r) ==
    /\ step[r] = "getter"
    /\ LET k == want[r][2]
       IN /\ IF Cached(k) THEN Put(want[r], Content(k)) ELSE UNCHANGED cache
          /\ Flight!FnReturns(r, Content(k))
    /\ Goto(r, "leave")
    /\ UNCHANGED <<registered, want, why, answer>>

Release(r) ==
    /\ step[r] = "leave"
    /\ Flight!Release(r)
    /\ UNCHANGED <<registered, cache, step, want, why, answer>>

Forget(r) ==
    /\ step[r] = "leave"
    /\ Flight!Forget(r)
    /\ Answer(r, result[r])
    /\ UNCHANGED <<registered, cache, want, why>>

Wake(r) ==
    /\ step[r] = "wait"
    /\ Flight!Wake(r)
    /\ Answer(r, result[flight[r]])
    /\ UNCHANGED <<registered, cache, want, why>>

\* RegisterPeers, then the node listens to its peers.
Register(n) ==
    /\ n \notin registered
    /\ registered' = registered \cup {n}
    /\ UNCHANGED <<cache, step, want, why, answer, flightVars>>

------------------------------------------------------------------------------
Run(r) == \/ Lookup(r) \/ Enter(r) \/ Pick(r) \/ PeerAnswers(r)
          \/ GetLocally(r) \/ Release(r) \/ Forget(r) \/ Wake(r)

\* The requests that can have a child within the bound.
Callers == Users \X (0 .. MaxHops - 1)

Next == \/ \E u \in Users, n \in Nodes, k \in Keys : Issue(u, n, k)
        \/ \E r \in Requests : Run(r)
        \/ \E r \in Callers : Arrive(r) \/ PeerFails(r)
        \/ \E n \in Nodes : Register(n)

Spec == Init /\ [][Next]_vars

\* A connection to a node that does not listen is refused.
Refused(r) == /\ step[r] = "peer" /\ Peer(want[r]) \notin registered
              /\ PeerFails(r)

\* Requests run, the network delivers or refuses, and the getter returns.
FairSpec == /\ Spec
            /\ \A r \in Requests : WF_vars(Run(r))
            /\ \A r \in Callers : WF_vars(Arrive(r)) /\ WF_vars(Refused(r))

------------------------------------------------------------------------------
Values == Keys \cup {Empty}

TypeOK ==
    /\ registered \subseteq Nodes
    /\ cache \in [Slots -> Values \cup {None}]
    /\ step \in [Requests -> {"none", "lookup", "missed", "wait", "pick",
                              "peer", "getter", "leave", "returned"}]
    /\ want \in [Requests -> Slots \cup {None}]
    /\ why \in [Requests -> {"none", "owner", "noPeers", "peerFailed"}]
    /\ answer \in [Requests -> Values \cup {None}]

\* No key changes in a URL.
KeysSurvive == \A k \in Keys : UrlKey[k] = k

\* ... and the nodes agree on the owner of every key.
Agreed == /\ KeysSurvive
          /\ \A n, p \in Nodes, k \in Keys : Owner[n][k] = Owner[p][k]

\* Where a request is in Get says where it is in Do.
StepInv == \A r \in Requests :
    /\ step[r] \in {"none", "lookup", "missed"} => pc[r] = "idle"
    /\ step[r] = "wait" => pc[r] = "wait"
    /\ step[r] \in {"pick", "peer", "getter"} => pc[r] = "fn"
    /\ step[r] = "leave" => pc[r] \in {"done", "delete"}
    /\ step[r] = "returned" => pc[r] \in {"idle", "returned"}
    /\ step[r] # "none" => want[r] \in Slots
    /\ pc[r] # "idle" => key[r] = want[r]
    /\ result[r] # None => step[r] \in {"leave", "returned"}
    /\ step[r] = "getter" /\ why[r] = "owner" => Peer(want[r]) = want[r][1]

\* A request whose chain has gone on has a child for the owner of its key.
ChildInv == \A r \in Callers :
    /\ step[Child(r)] # "none" =>
          step[r] \in {"peer", "getter", "leave", "returned"}
    /\ step[r] = "peer" /\ step[Child(r)] # "none" =>
          want[Child(r)] = Sent(want[r])

\* Only a request at a node that is not the owner asks a peer; if the nodes
\* agree, what the peer then runs is at the owner.
HopInv ==
    /\ \A r \in Requests : step[r] = "peer" =>
          r[2] < MaxHops /\ Peer(want[r]) # want[r][1]
    /\ Agreed => \A r \in Requests : r[2] > 0 /\ step[r] # "none" =>
          Peer(want[r]) = want[r][1]

\* Caches and finished flights hold the content of their key, and no cache
\* holds a key that the getter does not know.
ContentInv ==
    /\ \A w \in Slots : cache[w] # None => w[2] \in Known /\ cache[w] = w[2]
    /\ \A r \in Requests : result[r] # None => result[r] = Content(want[r][2])

\* What Get returns is the content of its key, whichever node had it.
RightValue == \A r \in Requests :
    step[r] = "returned" => answer[r] = Content(want[r][2])

IInv == /\ TypeOK /\ Flight!IInv
        /\ StepInv /\ ChildInv /\ HopInv /\ ContentInv /\ RightValue

\* The cluster as a whole loads a key once at a time, except on a node that
\* could not ask the owner.
OneLoader == Agreed => \A r, s \in Requests :
    /\ step[r] = "getter" /\ why[r] = "owner"
    /\ step[s] = "getter" /\ why[s] = "owner"
    /\ want[r][2] = want[s][2]
    => r = s

\* The owner does not ask anybody else: there are no chains.
OneHop == Agreed => \A r \in Requests : r[2] > 1 => step[r] = "none"

\* The requests that can go on by themselves, or by a message that is under way.
Running == {r \in Requests :
    \/ step[r] \in {"lookup", "missed", "pick", "getter", "leave"}
    \/ step[r] = "wait" /\ Flight!Ready(r)
    \/ step[r] = "peer" /\ step[Child(r)] \in {"none", "returned"}}

\* ... and those that wait for one of some others, in a flight or at a peer.
WaitsOn(others) == others \cup {r \in Requests :
    \/ step[r] = "wait" /\ flight[r] \in others
    \/ step[r] = "peer" /\ Child(r) \in others}

\* Nodes that wait for each other's flights never wait in a circle: a request
\* waits for a flight, which waits for a peer, where the handler waits for a
\* flight that runs, and there is nothing longer.
NoCircle == Agreed => \A r \in Requests :
    step[r] \in {"none", "returned"} \/ r \in WaitsOn(WaitsOn(WaitsOn(Running)))

\* So every request ends.
RequestsEnd == \A r \in Requests : step[r] = "lookup" ~> step[r] = "returned"

\* "every key is requested only once, that is, load is called only once"
\* (geecache.go:60): the getter is not asked for a key that is in the cache.
NoReload == [][\A r \in Requests :
    step[r] = "pick" /\ step'[r] = "getter" => cache[want[r]] = None]_vars
==============================================================================
