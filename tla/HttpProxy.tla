------------------------------ MODULE HttpProxy ------------------------------
(***************************************************************************)
(* HTTPProxy of tinyBalancer/proxy: concurrent requests and one health     *)
(* check per host, over a balancer.                                        *)
(***************************************************************************)
EXTENDS Balancer, FiniteSets

CONSTANTS Requests,  \* goroutines of ServeHTTP, each with one request at a time
          Targets    \* the hosts of the configuration, in its order

\* A word counts more requests than there are, and a float64 has no rounding
\* below half of its values.
ASSUME ProxyAssumption ==
    /\ Targets \in Seq(Hosts) /\ IsInjective(Targets) /\ Range(Targets) = Hosts
    /\ IsFiniteSet(Requests) /\ Cardinality(Requests) <= Word \div 2

VARIABLES up,      \* the hosts that accept connections: the environment
          alive,   \* HTTPProxy.alive
          check,   \* where the health check of each host is
          pc,      \* where each request is in ServeHTTP
          host,    \* what Balance returned to it
          mixed    \* the hosts removed while requests had them: for checking

proxyVars == <<lbVars, up, alive, check, pc, host, mixed>>

Init ==
    /\ Build(Targets)
    /\ up = Hosts
    /\ alive = [h \in Hosts |-> TRUE]
    /\ check = [h \in Hosts |-> "idle"]
    /\ pc = [r \in Requests |-> "idle"]
    /\ host = [r \in Requests |-> NoHost]
    /\ mixed = {}

Pending(h) == {r \in Requests : pc[r] \in {"inc", "serve"} /\ host[r] = h}
InFlight(h) == Cardinality({r \in Pending(h) : pc[r] = "serve"})

Goto(r, label) == pc' = [pc EXCEPT ![r] = label]
CheckGoto(h, label) == check' = [check EXCEPT ![h] = label]

------------------------------------------------------------------------------
(* Slips that the properties at the end must catch.                        *)

BackAnyway(h) == h \in up    \* without ReadAlive
BackNever(h) == FALSE        \* the second branch is missing

------------------------------------------------------------------------------
\* Without a host the request ends with 502 and counts nothing: by the error,
\* or, for "", by the panic of the nil ReverseProxy that ServeHTTP recovers from.
Choose(r) ==
    /\ pc[r] = "idle"
    /\ \E h \in Choice :
          /\ Balance(h)
          /\ host' = [host EXCEPT ![r] = h]
          /\ Goto(r, IF h \in Hosts THEN "inc" ELSE "idle")
    /\ UNCHANGED <<up, alive, check, mixed>>

Begin(r) ==
    /\ pc[r] = "inc"
    /\ Inc(host[r])
    /\ Goto(r, "serve")
    /\ UNCHANGED <<up, alive, check, host, mixed>>

\* The backend answers, fails or panics: Done is deferred.
End(r) ==
    /\ pc[r] = "serve"
    /\ Done(host[r])
    /\ Goto(r, "idle")
    /\ host' = [host EXCEPT ![r] = NoHost]
    /\ UNCHANGED <<up, alive, check, mixed>>

Serve(r) == Choose(r) \/ Begin(r) \/ End(r)

------------------------------------------------------------------------------
HealthUnchanged == UNCHANGED <<up, pc, host>>

\* A tick: the first IsBackendAlive, with ReadAlive.
Probe(h) ==
    /\ check[h] = "idle"
    /\ CheckGoto(h, IF h \notin up /\ alive[h] THEN "dead" ELSE "again")
    /\ HealthUnchanged /\ UNCHANGED <<lbVars, alive, mixed>>

\* The second, which may give another answer.
Back(h) == h \in up /\ ~alive[h]

ProbeAgain(h) ==
    /\ check[h] = "again"
    /\ CheckGoto(h, IF Back(h) THEN "back" ELSE "idle")
    /\ HealthUnchanged /\ UNCHANGED <<lbVars, alive, mixed>>

SetAlive(h) ==
    /\ check[h] \in {"dead", "back"}
    /\ alive' = [alive EXCEPT ![h] = check[h] = "back"]
    /\ CheckGoto(h, IF check[h] = "back" THEN "add" ELSE "remove")
    /\ HealthUnchanged /\ UNCHANGED <<lbVars, mixed>>

RemoveHost(h) ==
    /\ check[h] = "remove"
    /\ Remove(h)
    /\ mixed' = IF Pending(h) # {} THEN mixed \cup {h} ELSE mixed
    /\ CheckGoto(h, "idle")
    /\ HealthUnchanged /\ UNCHANGED alive

AddHost(h) ==
    /\ check[h] = "add"
    /\ Add(h)
    /\ CheckGoto(h, "idle")
    /\ HealthUnchanged /\ UNCHANGED <<alive, mixed>>

HealthCheck(h) == Probe(h) \/ ProbeAgain(h) \/ SetAlive(h)
                  \/ RemoveHost(h) \/ AddHost(h)

\* A backend stops or starts.
Backend(h) ==
    /\ up' = IF h \in up THEN up \ {h} ELSE up \cup {h}
    /\ UNCHANGED <<lbVars, alive, check, pc, host, mixed>>

Next == \/ \E r \in Requests : Serve(r)
        \/ \E h \in Hosts : HealthCheck(h) \/ Backend(h)

\* Tickers keep firing, and a probe ends after ConnectionTimeout.
Spec == Init /\ [][Next]_proxyVars /\ \A h \in Hosts : WF_proxyVars(HealthCheck(h))

------------------------------------------------------------------------------
TypeOK ==
    /\ alg \in Algorithms
    /\ hosts \in Seq(Hosts)
    /\ i \in 0..Turns - 1
    /\ load \in [Hosts -> 0..Word - 1]
    /\ key \in [Hosts -> 0..Word]
    /\ up \subseteq Hosts
    /\ alive \in [Hosts -> BOOLEAN]
    /\ check \in [Hosts -> {"idle", "again", "dead", "back", "remove", "add"}]
    /\ pc \in [Requests -> {"idle", "inc", "serve"}]
    /\ host \in [Requests -> Hosts \cup {NoHost}]
    /\ mixed \subseteq Hosts

\* The balancer has the hosts that are marked alive, each once, but for the
\* moment between SetAlive and Remove or Add: a host is never lost to the
\* balancer while its mark says that it needs no check.
MarksTrue ==
    /\ TypeOK
    /\ IsInjective(hosts)
    /\ \A h \in Hosts : Member(h) <=> \/ check[h] = "remove"
                                      \/ alive[h] /\ check[h] # "add"

\* P2C never takes a host for busier than it is, whatever was removed and added
\* with requests in flight: it forgets requests, and without any the load is 0.
\* The counts of P2C and LeastLoad are exact for a host that was not removed
\* under its requests (then LeastLoad's wraps below 0).
LoadTrue ==
    \A h \in Hosts :
        /\ alg = "p2c" => load[h] <= InFlight(h)
        /\ Counting /\ Member(h) /\ h \notin mixed => load[h] = InFlight(h)

\* LeastLoad gives a request a host with the fewest requests in service, so
\* long as no host was removed under its requests.
LeastLoaded ==
    [][\A r \in Requests, h \in Hosts :
          alg = "least-load" /\ mixed = {} /\ Choose(r) /\ host'[r] \in Hosts
          /\ Member(h) => InFlight(host'[r]) <= InFlight(h)]_proxyVars

\* A host that stays down leaves the balancer for good, and one that stays up
\* is in it for good, also when it changed while a check was under way.
FollowsBackend ==
    \A h \in Hosts : /\ <>[](h \notin up) => <>[]~Member(h)
                     /\ <>[](h \in up) => <>[]Member(h)
=============================================================================
