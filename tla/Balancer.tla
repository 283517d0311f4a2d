------------------------------ MODULE Balancer ------------------------------
(***************************************************************************)
(* The balancers of tinyBalancer/balancer behind one interface.  Each      *)
(* method is one critical section.  One state serves the four of them:     *)
(* hosts is BaseBalancer.hosts, P2C.hosts or the hosts in the heap or on   *)
(* the ring; load is the count of P2C's and LeastLoad's host, an unsigned  *)
(* word; key is what the Fibonacci heap of LeastLoad was last told.        *)
(***************************************************************************)
EXTENDS Naturals, Sequences, Functions

CONSTANTS Hosts,
          Algorithms,  \* those that may be configured
          Word,        \* the number of values of a load
          Turns,       \* a multiple of 1, ..., Cardinality(Hosts): the counter
                       \* i is kept modulo Turns, i % len(hosts) is the same
          NoHost       \* no host: "" (RoundRobin, P2C) or NoHostError

ASSUME BalancerAssumption ==
    /\ Algorithms \subseteq {"round-robin", "p2c", "least-load",
                             "consistent-hash"}
    /\ Word \in Nat \ {0} /\ Turns \in Nat \ {0}
    /\ NoHost \notin Hosts

VARIABLES alg, hosts, i, load, key

lbVars == <<alg, hosts, i, load, key>>

Counting == alg \in {"p2c", "least-load"}

\* Build with the factory of the algorithm.
Build(targets) ==
    /\ alg \in Algorithms
    /\ hosts = targets
    /\ i = 0
    /\ load = [h \in Hosts |-> 0]
    /\ key = [h \in Hosts |-> 0]

Member(h) == h \in Range(hosts)

------------------------------------------------------------------------------
(* Slips that the properties of HttpProxy must catch.                      *)

LowerNever(h) == UNCHANGED key               \* no DecreaseKeyValue
BelowZero(h) == (load[h] + Word - 1) % Word  \* the wrap of LeastLoad in P2C

------------------------------------------------------------------------------
Enlist(h) == hosts' = IF Member(h) THEN hosts ELSE Append(hosts, h)

\* A host that is not a member has no record: its load and key are 0, as those
\* of the record that Add makes.
Add(h) ==
    /\ Enlist(h)
    /\ UNCHANGED <<alg, i, load, key>>

\* Hosts are distinct (ProxyAssumption), so that a host has one place.
Delist(h) ==
    \/ ~Member(h) /\ UNCHANGED hosts
    \/ \E k \in DOMAIN hosts :
          /\ hosts[k] = h
          /\ hosts' = SubSeq(hosts, 1, k - 1)
                      \o SubSeq(hosts, k + 1, Len(hosts))

Remove(h) ==
    /\ Delist(h)
    /\ load' = [load EXCEPT ![h] = 0]
    /\ key' = [key EXCEPT ![h] = 0]
    /\ UNCHANGED <<alg, i>>

\* The two candidates of P2C come from hashes of the client or from a random
\* generator: any two hosts, or one twice.
LighterOfTwo == {h \in Range(hosts) :
                     \E g \in Range(hosts) : load[h] <= load[g]}
Minimum == {h \in Range(hosts) : \A g \in Range(hosts) : key[h] <= key[g]}
OnRing == Range(hosts)      \* the host of a hash
NextTurn == {hosts[(i % Len(hosts)) + 1]}

Choice ==
    IF hosts = <<>> THEN {NoHost}
    ELSE CASE alg = "round-robin" -> NextTurn
           [] alg = "p2c" -> LighterOfTwo
           [] alg = "least-load" -> Minimum
           [] alg = "consistent-hash" -> OnRing

Balance(h) ==
    /\ h \in Choice
    /\ i' = IF alg = "round-robin" /\ hosts # <<>> THEN (i + 1) % Turns ELSE i
    /\ UNCHANGED <<alg, hosts, load, key>>

\* float64(load): the largest words are one float.
Float(n) == IF n > Word \div 2 THEN Word ELSE n

\* The heap refuses a key that is not larger (IncreaseKeyValue) or not smaller
\* (DecreaseKeyValue) than the one it has, and the error is dropped.
Raise(h) == key' = IF Float(load'[h]) > key[h]
                   THEN [key EXCEPT ![h] = Float(load'[h])] ELSE key
Lower(h) == key' = IF Float(load'[h]) < key[h]
                   THEN [key EXCEPT ![h] = Float(load'[h])] ELSE key

Inc(h) ==
    /\ IF Counting /\ Member(h)
       THEN load' = [load EXCEPT ![h] = (@ + 1) % Word] /\ Raise(h)
       ELSE UNCHANGED <<load, key>>
    /\ UNCHANGED <<alg, hosts, i>>

\* P2C stops at 0, LeastLoad wraps around.
Less(h) == IF alg = "p2c" /\ load[h] = 0 THEN 0
           ELSE (load[h] + Word - 1) % Word

Done(h) ==
    /\ IF Counting /\ Member(h)
       THEN load' = [load EXCEPT ![h] = Less(h)] /\ Lower(h)
       ELSE UNCHANGED <<load, key>>
    /\ UNCHANGED <<alg, hosts, i>>
=============================================================================
