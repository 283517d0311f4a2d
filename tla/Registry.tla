------------------------------ MODULE Registry ------------------------------
(***************************************************************************)
(* The registry of geeRPC/registry, the heartbeats of the servers, and the *)
(* discovery of geeRPC/xclient that reads it.                              *)
(*                                                                         *)
(* Times are ages that Tick advances; an age stops at the timeout that it  *)
(* is compared with, which no comparison can tell from a larger one.       *)
(***************************************************************************)
EXTENDS Naturals, Sequences, FiniteSets, Functions

CONSTANTS Servers,
          Users,        \* goroutines that call Get or GetAll of the discovery
          Timeout,      \* of an entry of the registry; 0 is none
          ListTimeout,  \* of the list of the discovery
          Foreign,      \* whether other programs send requests with the methods
                        \* "Get" and "Post", which this repository never sends
          Absent,       \* no entry
          Free          \* nobody holds GeeRegistryDiscovery.mu

ASSUME RegistryAssumption ==
    /\ Timeout \in Nat /\ ListTimeout \in Nat \ {0}
    /\ Absent \notin Nat /\ Free \notin Users

VARIABLES entries,   \* GeeRegistry.servers: the age of each entry
          posted,    \* the age of the last accepted "Post": for checking
          beating,   \* the servers whose Heartbeat loop runs
          list,      \* servers of the discovery
          listAge,   \* since lastUpdate
          index,
          mu,        \* the user that holds the discovery's mutex
          pc,        \* where each user is in Get
          recent     \* what round robin chose from this list: for checking

regVars == <<entries, posted, beating>>
discVars == <<list, listAge, index, mu, pc, recent>>
registryVars == <<regVars, discVars>>

Lists == {l \in UNION {[1..n -> Servers] : n \in 0..Cardinality(Servers)} : IsInjective(l)}

RegistryInit ==
    /\ entries = [s \in Servers |-> Absent]
    /\ posted = [s \in Servers |-> Absent]
    /\ beating = {}
    /\ list = <<>>
    /\ listAge = ListTimeout
    /\ index \in 0..Cardinality(Servers)        \* a random start
    /\ mu = Free
    /\ pc = [u \in Users |-> "idle"]
    /\ recent = <<>>

------------------------------------------------------------------------------
(* Slips that the properties at the end must catch.                        *)

PutNew(s) ==      \* an entry that is there keeps its time
    IF entries[s] = Absent THEN [entries EXCEPT ![s] = 0] ELSE entries
IndexStays(n) == (index + 1) % (n + 1)

------------------------------------------------------------------------------
Live(s) == entries[s] # Absent /\ (Timeout = 0 \/ entries[s] < Timeout)

putServer(s) == [entries EXCEPT ![s] = 0]

\* aliveServers, in any order, deletes what it does not return.
aliveServers == {s \in Servers : Live(s)}
Pruned == [s \in Servers |-> IF Live(s) THEN entries[s] ELSE Absent]

\* ServeHTTP: net/http hands the method on as the client wrote it.  A "Post"
\* without an address is refused and changes nothing, like other methods.
Serve(method, s) ==
    entries' = IF method = "Get" THEN Pruned
               ELSE IF method = "Post" THEN putServer(s) ELSE entries

Answer(method) == IF method = "Get" THEN aliveServers ELSE {}

\* A request of another program.
ForeignGet == Foreign /\ Serve("Get", Absent)
              /\ UNCHANGED <<posted, beating, discVars>>

ForeignPost(s) ==
    /\ Foreign /\ Serve("Post", s)
    /\ posted' = [posted EXCEPT ![s] = 0]
    /\ UNCHANGED <<beating, discVars>>

\* sendHeartbeat, the first or one of the loop's: any answer will do, a
\* transport error ends the loop.
Beat(s) ==
    /\ \/ Serve("POST", s) /\ beating' = beating \cup {s}
       \/ UNCHANGED entries /\ beating' = beating \ {s}
    /\ UNCHANGED <<posted, discVars>>

------------------------------------------------------------------------------
Goto(u, label) == pc' = [pc EXCEPT ![u] = label]
Lock(u) == mu = Free /\ mu' = u
Unlock(u) == mu' = Free

NewList(l) == list' = l /\ recent' = <<>> /\ listAge' = 0

Call(u) ==
    /\ pc[u] = "idle"
    /\ Goto(u, "refresh")
    /\ UNCHANGED <<regVars, list, listAge, index, mu, recent>>

\* Refresh under the mutex: nothing to do, or the registry is asked.
Refresh(u) ==
    /\ pc[u] = "refresh" /\ mu = Free
    /\ IF listAge < ListTimeout THEN Goto(u, "choose") /\ UNCHANGED mu
                                ELSE Goto(u, "ask") /\ Lock(u)
    /\ UNCHANGED <<regVars, list, listAge, index, recent>>

Refreshed(u) ==
    /\ pc[u] = "ask"
    /\ Serve("GET", Absent)
    /\ \E l \in Lists : Range(l) = Answer("GET") /\ NewList(l)
    /\ Goto(u, "choose") /\ Unlock(u)
    /\ UNCHANGED <<posted, beating, index>>

RefreshFails(u) ==
    /\ pc[u] = "ask"
    /\ Goto(u, "idle") /\ Unlock(u)
    /\ UNCHANGED <<regVars, list, listAge, index, recent>>

NextIndex(n) == (index + 1) % n

\* Get of MultiServerDiscovery: a second critical section.  With random
\* selection, in GetAll, or without servers nothing changes.
RoundRobin(u) ==
    LET n == Len(list)
        s == list[(index % n) + 1]
    IN  /\ n > 0
        /\ index' = NextIndex(n)
        /\ recent' = Append(IF Len(recent) = n THEN Tail(recent) ELSE recent, s)

Choose(u) ==
    /\ pc[u] = "choose" /\ mu = Free
    /\ RoundRobin(u) \/ UNCHANGED <<index, recent>>
    /\ Goto(u, "idle")
    /\ UNCHANGED <<regVars, list, listAge, mu>>

\* By hand, with any servers.
Update(l) ==
    /\ mu = Free
    /\ NewList(l)
    /\ UNCHANGED <<regVars, index, mu, pc>>

Older(age, limit) == IF age = Absent \/ age >= limit THEN age ELSE age + 1

Tick ==
    /\ entries' = [s \in Servers |-> Older(entries[s], Timeout)]
    /\ posted' = [s \in Servers |-> Older(posted[s], Timeout)]
    /\ listAge' = Older(listAge, ListTimeout)
    /\ UNCHANGED <<beating, list, index, mu, pc, recent>>

RegistryNext ==
    \/ ForeignGet \/ Tick
    \/ \E s \in Servers : ForeignPost(s) \/ Beat(s)
    \/ \E u \in Users : Call(u) \/ Refresh(u) \/ Refreshed(u)
                        \/ RefreshFails(u) \/ Choose(u)
    \/ \E l \in Lists : Update(l)

RegistrySpec == RegistryInit /\ [][RegistryNext]_registryVars

------------------------------------------------------------------------------
Ages(limit) == 0..limit \cup {Absent}

RegistryTypeOK ==
    /\ entries \in [Servers -> Ages(Timeout)]
    /\ posted \in [Servers -> Ages(Timeout)]
    /\ beating \subseteq Servers
    /\ list \in Seq(Servers)
    /\ listAge \in 0..ListTimeout
    /\ index \in Nat
    /\ mu \in Users \cup {Free}
    /\ pc \in [Users -> {"idle", "refresh", "ask", "choose"}]
    /\ recent \in Seq(Servers)

\* A registry that is asked names exactly the servers that have posted within
\* the timeout: the deletions of earlier requests never took a live server,
\* and a server that posts again in time never disappears.
AnswersLive ==
    /\ RegistryTypeOK
    /\ aliveServers = {s \in Servers : /\ posted[s] # Absent
                                       /\ Timeout = 0 \/ posted[s] < Timeout}

\* Round robin gives each server of a list of n once in any n turns, whoever
\* takes them and wherever the index stood when the list came.
RoundRobinFair == IsInjective(recent)

\* registry.go: heartbeats keep a server registered, and a refresh of the
\* discovery learns the registered servers.
RefreshLearns ==
    [][\A u \in Users : Refreshed(u) => beating \subseteq Range(list')]_registryVars
=============================================================================
