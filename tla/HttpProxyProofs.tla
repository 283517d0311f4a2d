--------------------------- MODULE HttpProxyProofs ---------------------------
(***************************************************************************)
(* For any hosts, requests and algorithms: the balancer has the hosts that *)
(* are marked alive, the counts of requests are true, and LeastLoad gives  *)
(* a request a host with the fewest.                                       *)
(***************************************************************************)
EXTENDS HttpProxy, TLAPS, SequenceTheorems, FiniteSetTheorems

------------------------------------------------------------------------------
(* The list of hosts.                                                      *)

LEMMA EnlistFacts ==
  ASSUME hosts \in Seq(Hosts), IsInjective(hosts), NEW h \in Hosts, Enlist(h)
  PROVE  /\ hosts' \in Seq(Hosts) /\ IsInjective(hosts')
         /\ \A g \in Hosts : Member(g)' <=> Member(g) \/ g = h
<1>1. CASE Member(h)
  BY <1>1 DEF Enlist, Member
<1>2. CASE ~Member(h)
  <2>1. /\ hosts' \in Seq(Hosts) /\ Len(hosts') = Len(hosts) + 1
        /\ \A k \in 1..Len(hosts) : hosts'[k] = hosts[k]
        /\ hosts'[Len(hosts) + 1] = h
    BY <1>2, AppendProperties DEF Enlist
  <2>2. /\ Len(hosts) \in Nat /\ DOMAIN hosts = 1..Len(hosts)
        /\ DOMAIN hosts' = 1..Len(hosts) + 1
    BY <2>1
  <2>3. \A k \in DOMAIN hosts : hosts[k] # h
    BY <1>2 DEF Member, Range
  <2>4. IsInjective(hosts')
    BY <2>1, <2>2, <2>3 DEF IsInjective
  <2>5. ASSUME NEW g \in Hosts
        PROVE  Member(g)' <=> Member(g) \/ g = h
    BY <2>1, <2>2 DEF Member, Range
  <2>6. QED
    BY <2>1, <2>4, <2>5
<1>3. QED
  BY <1>1, <1>2

LEMMA DelistFacts ==
  ASSUME hosts \in Seq(Hosts), IsInjective(hosts), NEW h \in Hosts, Delist(h)
  PROVE  /\ hosts' \in Seq(Hosts) /\ IsInjective(hosts')
         /\ \A g \in Hosts : Member(g)' <=> Member(g) /\ g # h
<1>1. CASE ~Member(h) /\ hosts' = hosts
  BY <1>1 DEF Member
<1>2. ASSUME NEW k \in DOMAIN hosts, hosts[k] = h,
             hosts' = SubSeq(hosts, 1, k - 1) \o SubSeq(hosts, k + 1, Len(hosts))
      PROVE  /\ hosts' \in Seq(Hosts) /\ IsInjective(hosts')
             /\ \A g \in Hosts : Member(g)' <=> Member(g) /\ g # h
  <2> DEFINE m == Len(hosts)
             front == SubSeq(hosts, 1, k - 1)
             back == SubSeq(hosts, k + 1, m)
  <2>1. m \in Nat /\ DOMAIN hosts = 1..m /\ k \in 1..m
    OBVIOUS
  <2>2. /\ front \in Seq(Hosts) /\ Len(front) = k - 1
        /\ \A j \in 1..k - 1 : front[j] = hosts[j]
    BY <2>1, SubSeqProperties
  <2>3. /\ back \in Seq(Hosts) /\ Len(back) = m - k
        /\ \A j \in 1..m - k : back[j] = hosts[k + j]
    <3>1. \A j \in k + 1..m : hosts[j] \in Hosts
      BY <2>1
    <3>2. /\ back \in Seq(Hosts)
          /\ Len(back) = IF k + 1 <= m THEN m - (k + 1) + 1 ELSE 0
          /\ \A j \in 1..m - (k + 1) + 1 : back[j] = hosts[(k + 1) + j - 1]
      BY <2>1, <3>1, SubSeqProperties
    <3> HIDE DEF back
    <3>3. ASSUME NEW j \in 1..m - k PROVE back[j] = hosts[k + j]
      <4>1. j \in 1..m - (k + 1) + 1 /\ (k + 1) + j - 1 = k + j
        BY <2>1
      <4>2. QED
        BY <3>2, <4>1
    <3>4. QED
      BY <2>1, <3>2, <3>3
  <2>4. hosts' = front \o back
    BY <1>2
  <2> HIDE DEF front, back
  <2>5. /\ hosts' \in Seq(Hosts) /\ Len(hosts') = m - 1
        /\ \A j \in 1..m - 1 :
              hosts'[j] = IF j <= k - 1 THEN front[j] ELSE back[j - (k - 1)]
    <3>1. /\ front \o back \in Seq(Hosts)
          /\ Len(front \o back) = Len(front) + Len(back)
          /\ \A j \in 1..Len(front) + Len(back) : (front \o back)[j] =
                 IF j <= Len(front) THEN front[j] ELSE back[j - Len(front)]
      BY <2>2, <2>3, ConcatProperties
    <3>2. Len(front) + Len(back) = m - 1
      BY <2>1, <2>2, <2>3
    <3>3. QED
      BY <2>2, <2>4, <3>1, <3>2
  <2>6. ASSUME NEW j \in 1..m - 1
        PROVE  /\ j < k => hosts'[j] = hosts[j]
               /\ ~(j < k) => hosts'[j] = hosts[j + 1]
    <3>1. CASE j < k
      <4>1. j \in 1..k - 1 /\ j <= k - 1
        BY <2>1, <3>1
      <4>2. QED
        BY <2>2, <2>5, <3>1, <4>1
    <3>2. CASE ~(j < k)
      <4>1. /\ j - (k - 1) \in 1..m - k /\ k + (j - (k - 1)) = j + 1
            /\ ~(j <= k - 1)
        BY <2>1, <3>2
      <4>2. hosts'[j] = back[j - (k - 1)]
        BY <2>5, <4>1
      <4>3. back[j - (k - 1)] = hosts[k + (j - (k - 1))]
        BY <2>3, <4>1
      <4>4. QED
        BY <3>2, <4>1, <4>2, <4>3
    <3>3. QED
      BY <3>1, <3>2
  <2>7. DOMAIN hosts' = 1..m - 1
    BY <2>5
  <2>8. \A a \in 1..m, b \in 1..m : hosts[a] = hosts[b] => a = b
    BY <2>1 DEF IsInjective
  <2> HIDE DEF m
  <2>9. IsInjective(hosts')
    <3> SUFFICES ASSUME NEW a \in 1..m - 1, NEW b \in 1..m - 1,
                        hosts'[a] = hosts'[b]
                 PROVE  a = b
      BY <2>7 DEF IsInjective
    <3>1. a \in 1..m /\ a + 1 \in 1..m /\ b \in 1..m /\ b + 1 \in 1..m
      BY <2>1
    <3>2. CASE a < k /\ b < k
      BY <2>6, <2>8, <3>1, <3>2
    <3>3. CASE a < k /\ ~(b < k)
      <4>1. hosts[a] = hosts[b + 1]
        BY <2>6, <3>3
      <4>2. a = b + 1
        BY <2>8, <3>1, <4>1
      <4>3. QED
        BY <2>1, <3>3, <4>2
    <3>4. CASE ~(a < k) /\ b < k
      <4>1. hosts[a + 1] = hosts[b]
        BY <2>6, <3>4
      <4>2. a + 1 = b
        BY <2>8, <3>1, <4>1
      <4>3. QED
        BY <2>1, <3>4, <4>2
    <3>5. CASE ~(a < k) /\ ~(b < k)
      <4>1. hosts[a + 1] = hosts[b + 1]
        BY <2>6, <3>5
      <4>2. a + 1 = b + 1
        BY <2>8, <3>1, <4>1
      <4>3. QED
        BY <4>2
    <3>6. QED
      BY <3>2, <3>3, <3>4, <3>5
  <2>10. ASSUME NEW j \in 1..m - 1
         PROVE  \E l \in 1..m : l # k /\ hosts'[j] = hosts[l]
    <3>1. CASE j < k
      BY <2>1, <2>6, <3>1
    <3>2. CASE ~(j < k)
      <4>1. j + 1 \in 1..m /\ j + 1 # k
        BY <2>1, <3>2
      <4>2. QED
        BY <2>6, <3>2, <4>1
    <3>3. QED
      BY <3>1, <3>2
  <2>11. ASSUME NEW l \in 1..m, l # k
         PROVE  \E j \in 1..m - 1 : hosts'[j] = hosts[l]
    <3>1. CASE l < k
      <4>1. l \in 1..m - 1
        BY <2>1, <3>1
      <4>2. QED
        BY <2>6, <3>1, <4>1
    <3>2. CASE l > k
      <4>1. l - 1 \in 1..m - 1 /\ ~(l - 1 < k) /\ (l - 1) + 1 = l
        BY <2>1, <3>2
      <4>2. hosts'[l - 1] = hosts[(l - 1) + 1]
        BY <2>6, <4>1
      <4>3. QED
        BY <4>1, <4>2
    <3>3. QED
      BY <2>1, <2>11, <3>1, <3>2
  <2>12. ASSUME NEW g \in Hosts
         PROVE  Member(g)' <=> Member(g) /\ g # h
    <3>1. Member(g) <=> \E l \in 1..m : hosts[l] = g
      BY <2>1 DEF Member, Range
    <3>2. Member(g)' <=> \E j \in 1..m - 1 : hosts'[j] = g
      BY <2>7 DEF Member, Range
    <3>3. Member(g)' <=> \E l \in 1..m : l # k /\ hosts[l] = g
      BY <2>10, <2>11, <3>2
    <3>4. (\E l \in 1..m : l # k /\ hosts[l] = g) <=> Member(g) /\ g # h
      BY <1>2, <2>1, <2>8, <3>1
    <3>5. QED
      BY <3>3, <3>4
  <2>13. QED
    BY <2>5, <2>9, <2>12
<1>3. QED
  BY <1>1, <1>2 DEF Delist

------------------------------------------------------------------------------
(* The balancer and the marks.                                             *)

Marks ==
    /\ \A h \in Hosts : check[h] \in {"dead", "add"} => alive[h]
    /\ \A h \in Hosts : check[h] \in {"back", "remove"} => ~alive[h]

MarksInv == MarksTrue /\ Marks

LEMMA ChoiceFacts ==
  ASSUME MarksInv, NEW h \in Choice
  PROVE  h \in Hosts \cup {NoHost} /\ (h \in Hosts => Member(h))
<1>1. \A g \in Range(hosts) : g \in Hosts /\ Member(g)
  BY DEF MarksInv, MarksTrue, TypeOK, Range, Member
<1>2. alg \in {"round-robin", "p2c", "least-load", "consistent-hash"}
  BY BalancerAssumption DEF MarksInv, MarksTrue, TypeOK
<1>3. hosts # <<>> => hosts[(i % Len(hosts)) + 1] \in Range(hosts)
  <2> SUFFICES ASSUME hosts # <<>>
               PROVE  hosts[(i % Len(hosts)) + 1] \in Range(hosts)
    OBVIOUS
  <2>1. Len(hosts) \in Nat \ {0} /\ i \in Nat /\ DOMAIN hosts = 1..Len(hosts)
    BY BalancerAssumption DEF MarksInv, MarksTrue, TypeOK
  <2>2. (i % Len(hosts)) + 1 \in 1..Len(hosts)
    BY <2>1
  <2>3. QED
    BY <2>1, <2>2 DEF Range
<1>4. CASE hosts = <<>>
  BY <1>4, BalancerAssumption DEF Choice
<1>5. CASE hosts # <<>>
  <2>1. Choice \subseteq Range(hosts)
    BY <1>2, <1>3, <1>5 DEF Choice, NextTurn, LighterOfTwo, Minimum, OnRing
  <2>2. QED
    BY <1>1, <2>1
<1>6. QED
  BY <1>4, <1>5

LEMMA InitMarks == Init => MarksInv
<1> SUFFICES ASSUME Init PROVE MarksInv
  OBVIOUS
<1> USE ProxyAssumption, BalancerAssumption DEF Init, Build
<1>1. TypeOK
  BY DEF TypeOK
<1>2. QED
  BY <1>1 DEF MarksInv, MarksTrue, Marks, Member

\* What requests do leaves the list, the marks and the checks alone.
LEMMA RequestMarks ==
  ASSUME MarksInv, NEW r \in Requests, Serve(r)
  PROVE  MarksInv'
<1> USE BalancerAssumption
<1>1. alg' = alg /\ hosts' = hosts /\ UNCHANGED <<up, alive, check, mixed>>
  BY DEF Serve, Choose, Begin, End, Balance, Inc, Done
<1>2. i' \in 0..Turns - 1
  BY DEF MarksInv, MarksTrue, TypeOK, Serve, Choose, Begin, End, Balance, Inc,
     Done
<1>3. /\ pc' \in [Requests -> {"idle", "inc", "serve"}]
      /\ host' \in [Requests -> Hosts \cup {NoHost}]
  <2>1. CASE Choose(r)
    BY <2>1, ChoiceFacts DEF MarksInv, MarksTrue, TypeOK, Choose, Goto
  <2>2. CASE Begin(r) \/ End(r)
    BY <2>2 DEF MarksInv, MarksTrue, TypeOK, Begin, End, Goto
  <2>3. QED
    BY <2>1, <2>2 DEF Serve
<1>4. load' \in [Hosts -> 0..Word - 1]
  <2>1. load \in [Hosts -> 0..Word - 1]
    BY DEF MarksInv, MarksTrue, TypeOK
  <2>2. CASE Choose(r)
    BY <2>1, <2>2 DEF Choose, Balance
  <2>3. CASE Begin(r)
    BY <2>1, <2>3 DEF Begin, Inc
  <2>4. CASE End(r)
    BY <2>1, <2>4 DEF End, Done, Less
  <2>5. QED
    BY <2>2, <2>3, <2>4 DEF Serve
<1>5. \A g \in Hosts : Float(load'[g]) \in 0..Word
  BY <1>4 DEF Float
<1>6. key' \in [Hosts -> 0..Word]
  <2>1. \/ key' = key
        \/ \E g \in Hosts \cup {NoHost} :
              key' = [key EXCEPT ![g] = Float(load'[g])]
    BY DEF MarksInv, MarksTrue, TypeOK, Serve, Choose, Begin, End, Balance,
       Inc, Done, Raise, Lower
  <2>2. key \in [Hosts -> 0..Word]
    BY DEF MarksInv, MarksTrue, TypeOK
  <2> HIDE DEF Float
  <2>3. QED
    BY <1>5, <2>1, <2>2
<1>7. TypeOK'
  BY <1>1, <1>2, <1>3, <1>4, <1>6 DEF MarksInv, MarksTrue, TypeOK
<1>8. QED
  BY <1>1, <1>7 DEF MarksInv, MarksTrue, Marks, Member

\* A check changes the marks of its own host and no others.
LEMMA CheckMarks ==
  ASSUME MarksInv, NEW h \in Hosts, Probe(h) \/ ProbeAgain(h) \/ SetAlive(h)
  PROVE  MarksInv'
<1>1. UNCHANGED <<lbVars, up, pc, host, mixed>>
  BY DEF Probe, ProbeAgain, SetAlive, HealthUnchanged
<1>2. TypeOK'
  <2>1. check' \in [Hosts -> {"idle", "again", "dead", "back", "remove", "add"}]
    <3>1. PICK l \in {"idle", "again", "dead", "back", "remove", "add"} :
              check' = [check EXCEPT ![h] = l]
      BY DEF Probe, ProbeAgain, SetAlive, CheckGoto
    <3>2. QED
      BY <3>1 DEF MarksInv, MarksTrue, TypeOK
  <2>2. alive' \in [Hosts -> BOOLEAN]
    <3>1. CASE SetAlive(h)
      <4>1. alive' = [alive EXCEPT ![h] = TRUE] \/ alive' = [alive EXCEPT ![h] = FALSE]
        BY <3>1 DEF SetAlive
      <4>2. QED
        BY <4>1 DEF MarksInv, MarksTrue, TypeOK
    <3>2. CASE Probe(h) \/ ProbeAgain(h)
      BY <3>2 DEF MarksInv, MarksTrue, TypeOK, Probe, ProbeAgain
    <3>3. QED
      BY <3>1, <3>2
  <2>3. QED
    BY <1>1, <2>1, <2>2 DEF MarksInv, MarksTrue, TypeOK, lbVars
<1>3. Marks'
  <2>1. ASSUME NEW g \in Hosts, g # h
        PROVE  check'[g] = check[g] /\ alive'[g] = alive[g]
    BY <2>1 DEF MarksInv, MarksTrue, TypeOK, Probe, ProbeAgain, SetAlive,
       CheckGoto
  <2>2. /\ check'[h] \in {"dead", "add"} => alive'[h]
        /\ check'[h] \in {"back", "remove"} => ~alive'[h]
    <3>1. CASE Probe(h) \/ ProbeAgain(h)
      BY <3>1 DEF MarksInv, MarksTrue, TypeOK, Probe, ProbeAgain, CheckGoto,
         Back
    <3>2. CASE SetAlive(h) /\ check[h] = "back"
      <4>1. check'[h] = "add" /\ alive'[h] = TRUE
        BY <3>2 DEF MarksInv, MarksTrue, TypeOK, SetAlive, CheckGoto
      <4>2. QED
        BY <4>1
    <3>3. CASE SetAlive(h) /\ check[h] = "dead"
      <4>1. check'[h] = "remove" /\ alive'[h] = FALSE
        BY <3>3 DEF MarksInv, MarksTrue, TypeOK, SetAlive, CheckGoto
      <4>2. QED
        BY <4>1
    <3>4. QED
      BY <3>1, <3>2, <3>3 DEF SetAlive
  <2>3. QED
    BY <2>1, <2>2 DEF MarksInv, Marks
<1>4. ASSUME NEW g \in Hosts
      PROVE  Member(g)' <=> \/ check'[g] = "remove"
                            \/ alive'[g] /\ check'[g] # "add"
  BY <1>1 DEF MarksInv, MarksTrue, TypeOK, Marks, lbVars, Member, Probe,
     ProbeAgain, SetAlive, CheckGoto, Back
<1>5. QED
  BY <1>1, <1>2, <1>3, <1>4 DEF MarksInv, MarksTrue, lbVars

LEMMA ChangeMarks ==
  ASSUME MarksInv, NEW h \in Hosts, RemoveHost(h) \/ AddHost(h)
  PROVE  MarksInv'
<1>1. CASE RemoveHost(h)
  <2>1. /\ hosts' \in Seq(Hosts) /\ IsInjective(hosts')
        /\ \A g \in Hosts : Member(g)' <=> Member(g) /\ g # h
    BY <1>1, DelistFacts DEF MarksInv, MarksTrue, TypeOK, RemoveHost, Remove
  <2>2. TypeOK'
    BY <1>1, <2>1, BalancerAssumption DEF MarksInv, MarksTrue, TypeOK,
       RemoveHost, Remove, CheckGoto, HealthUnchanged
  <2>3. check' = [check EXCEPT ![h] = "idle"] /\ alive' = alive
    BY <1>1 DEF RemoveHost, CheckGoto, HealthUnchanged
  <2>4. check[h] = "remove"
    BY <1>1 DEF RemoveHost
  <2>5. Marks'
    BY <2>3 DEF MarksInv, MarksTrue, TypeOK, Marks
  <2>6. \A g \in Hosts : Member(g)' <=> \/ check'[g] = "remove"
                                        \/ alive'[g] /\ check'[g] # "add"
    BY <2>1, <2>3, <2>4 DEF MarksInv, MarksTrue, TypeOK, Marks
  <2>7. QED
    BY <2>1, <2>2, <2>5, <2>6 DEF MarksInv, MarksTrue
<1>2. CASE AddHost(h)
  <2>1. /\ hosts' \in Seq(Hosts) /\ IsInjective(hosts')
        /\ \A g \in Hosts : Member(g)' <=> Member(g) \/ g = h
    BY <1>2, EnlistFacts DEF MarksInv, MarksTrue, TypeOK, AddHost, Add
  <2>2. TypeOK'
    BY <1>2, <2>1 DEF MarksInv, MarksTrue, TypeOK, AddHost, Add, CheckGoto,
       HealthUnchanged
  <2>3. check' = [check EXCEPT ![h] = "idle"] /\ alive' = alive
    BY <1>2 DEF AddHost, CheckGoto, HealthUnchanged
  <2>4. check[h] = "add"
    BY <1>2 DEF AddHost
  <2>5. Marks'
    BY <2>3 DEF MarksInv, MarksTrue, TypeOK, Marks
  <2>6. \A g \in Hosts : Member(g)' <=> \/ check'[g] = "remove"
                                        \/ alive'[g] /\ check'[g] # "add"
    BY <2>1, <2>3, <2>4 DEF MarksInv, MarksTrue, TypeOK, Marks
  <2>7. QED
    BY <2>1, <2>2, <2>5, <2>6 DEF MarksInv, MarksTrue
<1>3. QED
  BY <1>1, <1>2

LEMMA BackendMarks ==
  ASSUME MarksInv, NEW h \in Hosts, Backend(h)
  PROVE  MarksInv'
<1>1. UNCHANGED <<lbVars, alive, check, pc, host, mixed>> /\ up' \subseteq Hosts
  BY DEF MarksInv, MarksTrue, TypeOK, Backend
<1>2. TypeOK'
  BY <1>1 DEF MarksInv, MarksTrue, TypeOK, lbVars
<1>3. QED
  BY <1>1, <1>2 DEF MarksInv, MarksTrue, Marks, Member, lbVars

LEMMA StutterMarks == MarksInv /\ UNCHANGED proxyVars => MarksInv'
<1> SUFFICES ASSUME MarksInv, UNCHANGED proxyVars PROVE MarksInv'
  OBVIOUS
<1>1. TypeOK'
  BY DEF MarksInv, MarksTrue, TypeOK, proxyVars, lbVars
<1>2. QED
  BY <1>1 DEF MarksInv, MarksTrue, Marks, Member, proxyVars, lbVars

LEMMA NextMarks == MarksInv /\ [Next]_proxyVars => MarksInv'
  BY RequestMarks, CheckMarks, ChangeMarks, BackendMarks, StutterMarks
     DEF Next, HealthCheck

\* The hosts in the balancer are those marked alive, each once, but for the
\* moment in which their check is changing both.
THEOREM MarksTrueHolds == Spec => []MarksTrue
<1>1. MarksInv => MarksTrue
  BY DEF MarksInv
<1>2. Spec => []MarksInv
  BY InitMarks, NextMarks, PTL DEF Spec
<1>3. QED
  BY <1>1, <1>2, PTL

------------------------------------------------------------------------------
(* The counts.                                                             *)

Serving(h) == {r \in Pending(h) : pc[r] = "serve"}

\* What the counts of one host are: nothing is known of those of LeastLoad
\* once the host was removed under requests.
Counts(h) ==
    /\ ~Member(h) => load[h] = 0 /\ key[h] = 0
    /\ ~Member(h) /\ h \notin mixed => Pending(h) = {}
    /\ alg = "least-load" /\ h \notin mixed => key[h] = load[h]
    /\ alg = "p2c" => load[h] <= InFlight(h)
    /\ Counting /\ Member(h) /\ h \notin mixed => load[h] = InFlight(h)

HostsHeld == \A r \in Requests : pc[r] # "idle" => host[r] \in Hosts

CountInv == HostsHeld /\ \A h \in Hosts : Counts(h)

\* There are never so many requests that a count wraps upwards or is rounded.
LEMMA InFlightBound ==
  ASSUME NEW h \in Hosts
  PROVE  /\ IsFiniteSet(Serving(h))
         /\ InFlight(h) = Cardinality(Serving(h))
         /\ InFlight(h) \in Nat /\ InFlight(h) <= Word \div 2
<1>1. Serving(h) \in SUBSET Requests
  BY DEF Serving, Pending
<1>2. IsFiniteSet(Serving(h)) /\ Cardinality(Serving(h)) <= Cardinality(Requests)
  BY <1>1, ProxyAssumption, FS_Subset
<1>3. Cardinality(Serving(h)) \in Nat /\ Cardinality(Requests) \in Nat
  BY <1>2, ProxyAssumption, FS_CardinalityType
<1>4. InFlight(h) = Cardinality(Serving(h))
  BY DEF InFlight, Serving
<1>5. Word \div 2 \in Nat
  BY BalancerAssumption
<1>6. QED
  BY <1>2, <1>3, <1>4, <1>5, ProxyAssumption

LEMMA NoRequests ==
  ASSUME NEW h \in Hosts, Pending(h) = {}
  PROVE  InFlight(h) = 0
  BY FS_EmptySet DEF InFlight

LEMMA InitCounts == Init => CountInv
<1> SUFFICES ASSUME Init PROVE CountInv
  OBVIOUS
<1>1. ASSUME NEW h \in Hosts
      PROVE  Pending(h) = {} /\ load[h] = 0 /\ key[h] = 0
  BY DEF Init, Build, Pending
<1>2. ASSUME NEW h \in Hosts PROVE InFlight(h) = 0
  BY <1>1, NoRequests
<1>3. HostsHeld
  BY DEF Init, HostsHeld
<1>4. QED
  BY <1>1, <1>2, <1>3 DEF CountInv, Counts

\* A host of which a step changes nothing keeps its counts.
LEMMA SameCounts ==
  ASSUME NEW h \in Hosts, Counts(h), alg' = alg, Member(h)' <=> Member(h),
         load'[h] = load[h], key'[h] = key[h], h \in mixed' <=> h \in mixed,
         Serving(h)' = Serving(h), Pending(h) = {} => Pending(h)' = {}
  PROVE  Counts(h)'
<1>1. InFlight(h)' = InFlight(h)
  BY DEF InFlight, Serving
<1>2. QED
  BY <1>1 DEF Counts, Counting

LEMMA ChooseCounts ==
  ASSUME MarksInv, CountInv, NEW r \in Requests, Choose(r)
  PROVE  CountInv'
<1>1. PICK c \in Choice : /\ host' = [host EXCEPT ![r] = c]
                          /\ pc' = [pc EXCEPT ![r] = IF c \in Hosts THEN "inc"
                                                    ELSE "idle"]
                          /\ Balance(c)
  BY DEF Choose, Goto
<1>2. /\ pc[r] = "idle" /\ alg' = alg /\ hosts' = hosts /\ load' = load
      /\ key' = key /\ mixed' = mixed
  BY <1>1 DEF Choose, Balance
<1>3. c \in Hosts => Member(c)
  BY <1>1, ChoiceFacts
<1>4. HostsHeld'
  BY <1>1 DEF MarksInv, MarksTrue, TypeOK, CountInv, HostsHeld
<1>5. ASSUME NEW h \in Hosts PROVE Counts(h)'
  <2>1. Serving(h)' = Serving(h)
    BY <1>1, <1>2 DEF Serving, Pending, MarksInv, MarksTrue, TypeOK
  <2>2. CASE Member(h)
    <3>1. InFlight(h)' = InFlight(h)
      BY <2>1 DEF InFlight, Serving
    <3>2. QED
      BY <1>2, <2>2, <3>1 DEF CountInv, Counts, Counting, Member
  <2>3. CASE ~Member(h)
    <3>1. c # h
      BY <1>3, <2>3
    <3>2. Pending(h)' = Pending(h)
      BY <1>1, <1>2, <3>1 DEF Pending, MarksInv, MarksTrue, TypeOK
    <3>3. QED
      BY <1>2, <2>1, <3>2, SameCounts DEF CountInv, Member
  <2>4. QED
    BY <2>2, <2>3
<1>6. QED
  BY <1>4, <1>5 DEF CountInv

LEMMA BeginCounts ==
  ASSUME MarksInv, CountInv, NEW r \in Requests, Begin(r)
  PROVE  CountInv'
<1> PICK g \in Hosts : g = host[r]
  BY DEF Begin, CountInv, HostsHeld
<1>1. /\ pc[r] = "inc" /\ pc' = [pc EXCEPT ![r] = "serve"] /\ Inc(g)
      /\ host' = host /\ mixed' = mixed /\ alg' = alg /\ hosts' = hosts
  BY DEF Begin, Goto, Inc
<1>2. HostsHeld'
  BY <1>1 DEF CountInv, HostsHeld, MarksInv, MarksTrue, TypeOK
<1>3. \A h \in Hosts : Pending(h)' = Pending(h) /\ (Member(h)' <=> Member(h))
  BY <1>1 DEF Pending, Member, MarksInv, MarksTrue, TypeOK
<1>4. ASSUME NEW h \in Hosts, h # g PROVE Counts(h)'
  <2>1. Serving(h)' = Serving(h)
    BY <1>1, <1>4 DEF Serving, Pending, MarksInv, MarksTrue, TypeOK
  <2>2. load'[h] = load[h] /\ key'[h] = key[h]
    BY <1>1, <1>4 DEF Inc, Raise, MarksInv, MarksTrue, TypeOK
  <2>3. QED
    BY <1>1, <1>3, <2>1, <2>2, SameCounts DEF CountInv
<1>5. Counts(g)'
  <2>1. InFlight(g)' = InFlight(g) + 1
    <3>1. Serving(g)' = Serving(g) \cup {r} /\ r \notin Serving(g)
      BY <1>1, <1>2 DEF Serving, Pending, MarksInv, MarksTrue, TypeOK
    <3>2. Cardinality(Serving(g) \cup {r}) = Cardinality(Serving(g)) + 1
      BY <3>1, InFlightBound, FS_AddElement
    <3>3. QED
      BY <3>1, <3>2 DEF InFlight, Serving
  <2>2. /\ InFlight(g) \in Nat /\ InFlight(g) <= Word \div 2
        /\ InFlight(g)' <= Word \div 2
    <3>1. r \notin Serving(g)
      BY <1>1 DEF Serving
    <3>2. Serving(g) \cup {r} \in SUBSET Requests
      BY DEF Serving, Pending
    <3>3. Cardinality(Serving(g) \cup {r}) <= Cardinality(Requests)
      BY <3>2, ProxyAssumption, FS_Subset
    <3>4. Cardinality(Serving(g) \cup {r}) = InFlight(g) + 1
      <4>1. IsFiniteSet(Serving(g)) /\ InFlight(g) = Cardinality(Serving(g))
        BY InFlightBound
      <4>2. Cardinality(Serving(g) \cup {r}) = Cardinality(Serving(g)) + 1
        BY <3>1, <4>1, FS_AddElement
      <4>3. QED
        BY <4>1, <4>2
    <3>5. InFlight(g) \in Nat /\ InFlight(g) <= Word \div 2
      BY InFlightBound
    <3>6. /\ Cardinality(Requests) \in Nat /\ Word \div 2 \in Nat
          /\ Cardinality(Requests) <= Word \div 2
      BY ProxyAssumption, BalancerAssumption, FS_CardinalityType
    <3>7. QED
      BY <2>1, <3>3, <3>4, <3>5, <3>6
  <2>3. Counts(g)
    BY <1>2 DEF CountInv
  <2>4. load[g] \in 0..Word - 1 /\ key[g] \in 0..Word
    BY <1>2 DEF MarksInv, MarksTrue, TypeOK
  <2>5. CASE Counting /\ Member(g)
    <3>1. /\ load'[g] = (load[g] + 1) % Word
          /\ key'[g] = IF Float(load'[g]) > key[g] THEN Float(load'[g])
                       ELSE key[g]
      BY <1>1, <1>2, <2>5 DEF Inc, Raise, MarksInv, MarksTrue, TypeOK
    <3>2. load[g] <= InFlight(g) => load'[g] = load[g] + 1
      BY <2>1, <2>2, <2>4, <3>1, BalancerAssumption
    <3>3. alg = "p2c" => load'[g] <= InFlight(g)'
      BY <2>1, <2>2, <2>3, <2>4, <3>2 DEF Counts
    <3>4. g \notin mixed => load'[g] = InFlight(g)'
      BY <2>1, <2>2, <2>3, <2>5, <3>2 DEF Counts
    <3>5. alg = "least-load" /\ g \notin mixed => key'[g] = load'[g]
      <4> SUFFICES ASSUME alg = "least-load", g \notin mixed
                   PROVE  key'[g] = load'[g]
        OBVIOUS
      <4>1. key[g] = load[g] /\ load[g] = InFlight(g)
        BY <2>3, <2>5 DEF Counts
      <4>2. Float(load'[g]) = load'[g]
        BY <2>1, <2>2, <3>4, BalancerAssumption DEF Float
      <4>3. QED
        BY <2>1, <2>2, <3>1, <3>4, <4>1, <4>2
    <3>6. QED
      BY <1>1, <1>2, <1>3, <2>5, <3>3, <3>4, <3>5 DEF Counts, Counting
  <2>6. CASE ~(Counting /\ Member(g))
    <3>1. load' = load /\ key' = key
      BY <1>1, <2>6 DEF Inc
    <3>2. QED
      BY <1>1, <1>2, <1>3, <2>1, <2>2, <2>3, <2>4, <2>6, <3>1
         DEF Counts, Counting
  <2>7. QED
    BY <2>5, <2>6
<1>6. QED
  BY <1>2, <1>4, <1>5 DEF CountInv

LEMMA EndCounts ==
  ASSUME MarksInv, CountInv, NEW r \in Requests, End(r)
  PROVE  CountInv'
<1> PICK g \in Hosts : g = host[r]
  BY DEF End, CountInv, HostsHeld
<1>1. /\ pc[r] = "serve" /\ pc' = [pc EXCEPT ![r] = "idle"] /\ Done(g)
      /\ host' = [host EXCEPT ![r] = NoHost]
      /\ mixed' = mixed /\ alg' = alg /\ hosts' = hosts
  BY DEF End, Goto, Done
<1>2. HostsHeld'
  BY <1>1 DEF CountInv, HostsHeld, MarksInv, MarksTrue, TypeOK
<1>3. \A h \in Hosts : /\ Pending(h)' \subseteq Pending(h)
                       /\ Member(h)' <=> Member(h)
  BY <1>1 DEF Pending, Member, MarksInv, MarksTrue, TypeOK
<1>4. ASSUME NEW h \in Hosts, h # g PROVE Counts(h)'
  <2>1. Serving(h)' = Serving(h)
    BY <1>1, <1>4 DEF Serving, Pending, MarksInv, MarksTrue, TypeOK
  <2>2. load'[h] = load[h] /\ key'[h] = key[h]
    BY <1>1, <1>4 DEF Done, Lower, MarksInv, MarksTrue, TypeOK
  <2>3. QED
    BY <1>1, <1>3, <2>1, <2>2, SameCounts DEF CountInv
<1>5. Counts(g)'
  <2>1. InFlight(g)' = InFlight(g) - 1
    <3>1. Serving(g)' = Serving(g) \ {r} /\ r \in Serving(g)
      BY <1>1 DEF Serving, Pending, MarksInv, MarksTrue, TypeOK
    <3>2. Cardinality(Serving(g) \ {r}) = Cardinality(Serving(g)) - 1
      BY <3>1, InFlightBound, FS_RemoveElement
    <3>3. QED
      BY <3>1, <3>2 DEF InFlight, Serving
  <2>2. /\ InFlight(g) \in Nat \ {0} /\ InFlight(g) <= Word \div 2
    <3>1. r \in Serving(g)
      BY <1>1 DEF Serving, Pending
    <3>2. Cardinality(Serving(g)) # 0
      BY <3>1, InFlightBound, FS_EmptySet
    <3>3. QED
      BY <3>2, InFlightBound
  <2>3. Counts(g)
    BY DEF CountInv
  <2>4. load[g] \in 0..Word - 1 /\ key[g] \in 0..Word
    BY DEF MarksInv, MarksTrue, TypeOK
  <2>5. CASE Counting /\ Member(g)
    <3>1. /\ load'[g] = Less(g)
          /\ key'[g] = IF Float(load'[g]) < key[g] THEN Float(load'[g])
                       ELSE key[g]
      BY <1>1, <2>5 DEF Done, Lower, MarksInv, MarksTrue, TypeOK
    <3>2. load[g] # 0 => Less(g) = load[g] - 1
      BY <2>4, BalancerAssumption DEF Less
    <3>3. alg = "p2c" => load'[g] <= InFlight(g)'
      <4> SUFFICES ASSUME alg = "p2c"
                   PROVE  load'[g] <= InFlight(g)'
        OBVIOUS
      <4>1. CASE load[g] = 0
        BY <2>1, <2>2, <3>1, <4>1 DEF Less
      <4>2. CASE load[g] # 0
        BY <2>1, <2>2, <2>3, <2>4, <3>1, <3>2, <4>2 DEF Counts
      <4>3. QED
        BY <4>1, <4>2
    <3>4. g \notin mixed => load'[g] = InFlight(g)'
      BY <2>1, <2>2, <2>3, <2>5, <3>1, <3>2 DEF Counts
    <3>5. alg = "least-load" /\ g \notin mixed => key'[g] = load'[g]
      <4> SUFFICES ASSUME alg = "least-load", g \notin mixed
                   PROVE  key'[g] = load'[g]
        OBVIOUS
      <4>1. key[g] = load[g] /\ load[g] = InFlight(g)
        BY <2>3, <2>5 DEF Counts
      <4>2. Float(load'[g]) = load'[g]
        BY <2>1, <2>2, <3>4, BalancerAssumption DEF Float
      <4>3. QED
        BY <2>1, <2>2, <3>1, <3>4, <4>1, <4>2
    <3>6. QED
      BY <1>1, <1>3, <2>5, <3>3, <3>4, <3>5 DEF Counts, Counting
  <2>6. CASE ~(Counting /\ Member(g))
    <3>1. load' = load /\ key' = key
      BY <1>1, <2>6 DEF Done
    <3>2. QED
      BY <1>1, <1>3, <2>1, <2>2, <2>3, <2>4, <2>6, <3>1 DEF Counts, Counting
  <2>7. QED
    BY <2>5, <2>6
<1>6. QED
  BY <1>2, <1>4, <1>5 DEF CountInv

LEMMA RemoveCounts ==
  ASSUME MarksInv, CountInv, NEW g \in Hosts, RemoveHost(g)
  PROVE  CountInv'
<1>1. /\ pc' = pc /\ host' = host /\ alg' = alg
      /\ load' = [load EXCEPT ![g] = 0] /\ key' = [key EXCEPT ![g] = 0]
      /\ mixed' = IF Pending(g) # {} THEN mixed \cup {g} ELSE mixed
  BY DEF RemoveHost, Remove, HealthUnchanged
<1>2. \A h \in Hosts : Member(h)' <=> Member(h) /\ h # g
  BY DelistFacts DEF MarksInv, MarksTrue, TypeOK, RemoveHost, Remove
<1>3. HostsHeld'
  BY <1>1 DEF CountInv, HostsHeld
<1>4. \A h \in Hosts : Pending(h)' = Pending(h) /\ Serving(h)' = Serving(h)
  BY <1>1 DEF Pending, Serving
<1>5. ASSUME NEW h \in Hosts, h # g PROVE Counts(h)'
  <2>1. /\ load'[h] = load[h] /\ key'[h] = key[h]
        /\ h \in mixed' <=> h \in mixed
    BY <1>1, <1>5 DEF MarksInv, MarksTrue, TypeOK
  <2>2. QED
    BY <1>1, <1>2, <1>4, <1>5, <2>1, SameCounts DEF CountInv
<1>6. Counts(g)'
  <2>1. load'[g] = 0 /\ key'[g] = 0
    BY <1>1 DEF MarksInv, MarksTrue, TypeOK
  <2>2. InFlight(g)' \in Nat
    <3>1. InFlight(g)' = InFlight(g)
      BY <1>4 DEF InFlight, Serving
    <3>2. QED
      BY <3>1, InFlightBound
  <2>3. g \notin mixed' => Pending(g)' = {}
    BY <1>1, <1>4
  <2>4. QED
    BY <1>2, <2>1, <2>2, <2>3 DEF Counts
<1>7. QED
  BY <1>3, <1>5, <1>6 DEF CountInv

LEMMA AddCounts ==
  ASSUME MarksInv, CountInv, NEW g \in Hosts, AddHost(g)
  PROVE  CountInv'
<1>1. /\ pc' = pc /\ host' = host /\ alg' = alg /\ load' = load
      /\ key' = key /\ mixed' = mixed
  BY DEF AddHost, Add, HealthUnchanged
<1>2. \A h \in Hosts : Member(h)' <=> Member(h) \/ h = g
  BY EnlistFacts DEF MarksInv, MarksTrue, TypeOK, AddHost, Add
<1>3. HostsHeld'
  BY <1>1 DEF CountInv, HostsHeld
<1>4. ASSUME NEW h \in Hosts
      PROVE  /\ Pending(h)' = Pending(h) /\ Serving(h)' = Serving(h)
             /\ InFlight(h)' = InFlight(h)
  BY <1>1 DEF Pending, Serving, InFlight
<1>5. ASSUME NEW h \in Hosts PROVE Counts(h)'
  <2>1. CASE Member(h)' <=> Member(h)
    BY <1>1, <1>4, <2>1, SameCounts DEF CountInv
  <2>2. CASE ~Member(h) /\ Member(h)'
    <3>1. load[h] = 0 /\ key[h] = 0 /\ (h \notin mixed => InFlight(h) = 0)
      BY <2>2, NoRequests DEF CountInv, Counts
    <3>2. InFlight(h) \in Nat
      BY InFlightBound
    <3>3. QED
      BY <1>1, <1>4, <2>2, <3>1, <3>2 DEF Counts
  <2>3. QED
    BY <1>2, <2>1, <2>2
<1>6. QED
  BY <1>3, <1>5 DEF CountInv

\* Nothing else touches a request or a count.
LEMMA OtherCounts ==
  ASSUME MarksInv, CountInv, UNCHANGED <<lbVars, pc, host, mixed>>
  PROVE  CountInv'
<1>1. ASSUME NEW h \in Hosts PROVE Counts(h)'
  BY SameCounts DEF CountInv, lbVars, Member, Serving, Pending
<1>2. QED
  BY <1>1 DEF CountInv, HostsHeld

LEMMA NextCounts == MarksInv /\ CountInv /\ [Next]_proxyVars => CountInv'
<1> SUFFICES ASSUME MarksInv, CountInv, [Next]_proxyVars PROVE CountInv'
  OBVIOUS
<1>1. ASSUME NEW r \in Requests, Serve(r) PROVE CountInv'
  BY <1>1, ChooseCounts, BeginCounts, EndCounts DEF Serve
<1>2. ASSUME NEW h \in Hosts, Probe(h) \/ ProbeAgain(h) \/ SetAlive(h)
      PROVE  CountInv'
  BY <1>2, OtherCounts DEF Probe, ProbeAgain, SetAlive, HealthUnchanged
<1>3. ASSUME NEW h \in Hosts, Backend(h) PROVE CountInv'
  BY <1>3, OtherCounts DEF Backend
<1>4. CASE UNCHANGED proxyVars
  BY <1>4, OtherCounts DEF proxyVars
<1>5. QED
  BY <1>1, <1>2, <1>3, <1>4, RemoveCounts, AddCounts DEF Next, HealthCheck

LEMMA CountsAlways == Spec => [](MarksInv /\ CountInv)
  BY InitMarks, NextMarks, InitCounts, NextCounts, PTL DEF Spec

\* The counts of P2C and LeastLoad are true: those of P2C never too high, and
\* both exact for a host that was not removed under its requests.
THEOREM LoadTrueHolds == Spec => []LoadTrue
<1>1. CountInv => LoadTrue
  BY DEF CountInv, Counts, LoadTrue
<1>2. QED
  BY <1>1, CountsAlways, PTL

\* LeastLoad gives a request a host with the fewest requests in service.
THEOREM LeastLoadedHolds == Spec => LeastLoaded
<1> DEFINE Fewest ==
      \A r \in Requests, h \in Hosts :
          alg = "least-load" /\ mixed = {} /\ Choose(r) /\ host'[r] \in Hosts
          /\ Member(h) => InFlight(host'[r]) <= InFlight(h)
<1>1. MarksInv /\ CountInv => Fewest
  <2> SUFFICES ASSUME MarksInv, CountInv, NEW r \in Requests, NEW h \in Hosts,
                      alg = "least-load", mixed = {}, Choose(r),
                      host'[r] \in Hosts, Member(h)
               PROVE  InFlight(host'[r]) <= InFlight(h)
    OBVIOUS
  <2>1. PICK c \in Choice : c = host'[r]
    BY DEF Choose, MarksInv, MarksTrue, TypeOK
  <2>2. hosts # <<>> /\ Member(c)
    BY <2>1, ChoiceFacts DEF Member, Range
  <2>3. c \in Minimum
    BY <2>1, <2>2 DEF Choice
  <2>4. key[c] <= key[h]
    BY <2>3 DEF Minimum, Member
  <2>5. key[c] = InFlight(c) /\ key[h] = InFlight(h)
    BY <2>1, <2>2 DEF CountInv, Counts, Counting
  <2>6. QED
    BY <2>1, <2>4, <2>5
<1>2. MarksInv /\ CountInv /\ [Next]_proxyVars => [Fewest]_proxyVars
  BY <1>1
<1>3. QED
  BY <1>2, CountsAlways, PTL DEF Spec, LeastLoaded
=============================================================================
