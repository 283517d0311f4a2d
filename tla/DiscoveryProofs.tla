--------------------------- MODULE DiscoveryProofs ---------------------------
(***************************************************************************)
(* For any servers, users and times: the registry names the servers that   *)
(* posted in time and round robin takes turns.  For any servers, calls and *)
(* connections: no connection of an XClient leaks, and Broadcast tells the *)
(* truth.                                                                  *)
(***************************************************************************)
EXTENDS Registry, XClient, TLAPS, SequenceTheorems

(* The registry and the discovery.                                         *)

\* The entry of a server has the age of its last "Post", unless a request has
\* deleted it after its time.
SameAges ==
    \A s \in Servers :
        \/ entries[s] = posted[s]
        \/ /\ entries[s] = Absent /\ posted[s] # Absent
           /\ Timeout # 0 /\ posted[s] >= Timeout

\* The place in a list of n of the i-th of k recent choices: they are the ones
\* that end before the index x, around the end of the list.
Place(x, i, k, n) ==
    IF x + i > k THEN x + i - k ELSE x + i + n - k

\* What round robin chose are the places of the list before its index.
Turns ==
    /\ IsInjective(list)
    /\ Len(recent) <= Len(list)
    /\ recent # <<>> => index < Len(list)
    /\ \A i \in 1..Len(recent) :
           recent[i] = list[Place(index, i, Len(recent), Len(list))]

RegistryInv == RegistryTypeOK /\ SameAges /\ Turns

LEMMA RegistryInitInv == RegistryInit => RegistryInv
<1> SUFFICES ASSUME RegistryInit PROVE RegistryInv
  OBVIOUS
<1>1. RegistryTypeOK
  BY RegistryAssumption DEF RegistryInit, RegistryTypeOK, Ages
<1>2. SameAges
  BY DEF RegistryInit, SameAges
<1>3. Turns
  BY DEF RegistryInit, Turns, IsInjective
<1>4. QED
  BY <1>1, <1>2, <1>3 DEF RegistryInv

------------------------------------------------------------------------------
\* The next turn of a list of n.
LEMMA NextTurn ==
  ASSUME NEW i \in Nat, NEW n \in Nat \ {0}
  PROVE  /\ i % n \in 0..n-1
         /\ i < n => i % n = i
         /\ (i + 1) % n = IF (i % n) + 1 = n THEN 0 ELSE (i % n) + 1
<1> DEFINE q == i \div n
           r == i % n
<1>1. q \in Nat /\ r \in 0..n-1 /\ i = n * q + r
  OBVIOUS
<1>2. i < n => r = i
  OBVIOUS
<1>3. (i + 1) % n = IF r + 1 = n THEN 0 ELSE r + 1
  <2> HIDE DEF q, r
  <2>1. CASE r + 1 = n
    <3>1. i + 1 = n * (q + 1) + 0
      BY <1>1, <2>1
    <3>2. QED
      BY <1>1, <2>1, <3>1
  <2>2. CASE r + 1 # n
    <3>1. i + 1 = n * q + (r + 1) /\ r + 1 \in 0..n-1
      BY <1>1, <2>2
    <3>2. QED
      BY <1>1, <2>2, <3>1
  <2>3. QED
    BY <2>1, <2>2
<1>4. QED
  BY <1>1, <1>2, <1>3

------------------------------------------------------------------------------
LEMMA ServeStep ==
  ASSUME RegistryInv, NEW method, NEW s, Serve(method, s), method # "Post"
  PROVE  /\ entries' \in [Servers -> Ages(Timeout)]
         /\ \A x \in Servers : \/ entries'[x] = entries[x]
                               \/ entries'[x] = Absent /\ ~Live(x)
  BY DEF RegistryInv, RegistryTypeOK, Serve, Pruned, Ages

LEMMA AgesKept ==
  ASSUME RegistryInv, UNCHANGED posted,
         \A x \in Servers : \/ entries'[x] = entries[x]
                            \/ entries'[x] = Absent /\ ~Live(x)
  PROVE  SameAges'
<1> SUFFICES ASSUME NEW x \in Servers
             PROVE  \/ entries'[x] = posted[x]
                    \/ /\ entries'[x] = Absent /\ posted[x] # Absent
                       /\ Timeout # 0 /\ posted[x] >= Timeout
  BY DEF SameAges
<1>1. CASE entries'[x] = entries[x]
  BY <1>1 DEF RegistryInv, SameAges
<1>2. CASE entries'[x] = Absent /\ ~Live(x)
  <2>1. CASE entries[x] = Absent
    BY <1>2, <2>1 DEF RegistryInv, SameAges
  <2>2. CASE entries[x] # Absent
    <3>1. entries[x] = posted[x] /\ entries[x] \in Nat
      BY <2>2 DEF RegistryInv, SameAges, RegistryTypeOK, Ages
    <3>2. Timeout # 0 /\ entries[x] >= Timeout
      BY <1>2, <2>2, <3>1, RegistryAssumption DEF Live
    <3>3. QED
      BY <1>2, <2>2, <3>1, <3>2
  <2>3. QED
    BY <2>1, <2>2
<1>3. QED
  BY <1>1, <1>2

LEMMA TurnsKept ==
  ASSUME RegistryInv, UNCHANGED <<list, index, recent>>
  PROVE  Turns'
  BY DEF RegistryInv, Turns, Place, IsInjective

LEMMA TurnsNew ==
  ASSUME NEW l \in Lists, NewList(l)
  PROVE  /\ Turns' /\ list' \in Seq(Servers)
         /\ recent' \in Seq(Servers) /\ listAge' \in 0..ListTimeout
<1>1. l \in Seq(Servers) /\ IsInjective(l)
  BY DEF Lists
<1>2. QED
  BY <1>1, RegistryAssumption DEF NewList, Turns, IsInjective

LEMMA ForeignGetStep ==
  ASSUME RegistryInv, ForeignGet
  PROVE  RegistryInv'
<1>1. RegistryTypeOK'
  BY ServeStep DEF ForeignGet, RegistryInv, RegistryTypeOK, discVars
<1>2. SameAges'
  BY ServeStep, AgesKept DEF ForeignGet
<1>3. QED
  BY <1>1, <1>2, TurnsKept DEF ForeignGet, discVars, RegistryInv

LEMMA ForeignPostStep ==
  ASSUME RegistryInv, NEW s \in Servers, ForeignPost(s)
  PROVE  RegistryInv'
<1>1. entries' = [entries EXCEPT ![s] = 0] /\ posted' = [posted EXCEPT ![s] = 0]
  BY DEF ForeignPost, Serve, putServer
<1>2. RegistryTypeOK'
  BY <1>1, RegistryAssumption
  DEF ForeignPost, RegistryInv, RegistryTypeOK, Ages, discVars
<1>3. SameAges'
  BY <1>1 DEF RegistryInv, RegistryTypeOK, SameAges
<1>4. QED
  BY <1>2, <1>3, TurnsKept DEF ForeignPost, discVars, RegistryInv

LEMMA BeatStep ==
  ASSUME RegistryInv, NEW s \in Servers, Beat(s)
  PROVE  RegistryInv'
<1>1. UNCHANGED entries
  BY DEF Beat, Serve
<1>2. RegistryTypeOK'
  BY <1>1 DEF Beat, RegistryInv, RegistryTypeOK, discVars
<1>3. SameAges'
  BY <1>1 DEF Beat, RegistryInv, SameAges
<1>4. QED
  BY <1>2, <1>3, TurnsKept DEF Beat, discVars, RegistryInv

\* Steps of a user that move neither the registry nor the list.
LEMMA UserStep ==
  ASSUME RegistryInv, NEW u \in Users, Call(u) \/ Refresh(u) \/ RefreshFails(u)
  PROVE  RegistryInv'
<1>1. UNCHANGED <<regVars, list, listAge, index, recent>>
  BY DEF Call, Refresh, RefreshFails
<1>2. mu' \in Users \cup {Free}
      /\ pc' \in [Users -> {"idle", "refresh", "ask", "choose"}]
  BY DEF RegistryInv, RegistryTypeOK, Call, Refresh, RefreshFails, Goto, Lock,
     Unlock
<1>3. RegistryTypeOK'
  BY <1>1, <1>2 DEF RegistryInv, RegistryTypeOK, regVars
<1>4. SameAges'
  BY <1>1 DEF RegistryInv, SameAges, regVars
<1>5. QED
  BY <1>1, <1>3, <1>4, TurnsKept DEF RegistryInv

LEMMA RefreshedStep ==
  ASSUME RegistryInv, NEW u \in Users, Refreshed(u)
  PROVE  RegistryInv'
<1>1. PICK l \in Lists : NewList(l)
  BY DEF Refreshed
<1>2. UNCHANGED <<entries, posted>>
  BY DEF Refreshed, Serve
<1>3. RegistryTypeOK'
  BY <1>1, <1>2, TurnsNew
  DEF RegistryInv, RegistryTypeOK, Refreshed, Goto, Unlock
<1>4. SameAges'
  BY <1>2 DEF RegistryInv, SameAges
<1>5. QED
  BY <1>1, <1>3, <1>4, TurnsNew DEF RegistryInv

LEMMA UpdateStep ==
  ASSUME RegistryInv, NEW l \in Lists, Update(l)
  PROVE  RegistryInv'
<1>1. RegistryTypeOK'
  BY TurnsNew DEF RegistryInv, RegistryTypeOK, Update, regVars
<1>2. SameAges'
  BY DEF RegistryInv, SameAges, Update, regVars
<1>3. QED
  BY <1>1, <1>2, TurnsNew DEF RegistryInv, Update

LEMMA TickStep ==
  ASSUME RegistryInv, Tick
  PROVE  RegistryInv'
<1>1. ASSUME NEW limit \in Nat, NEW age \in Ages(limit)
      PROVE  Older(age, limit) \in Ages(limit)
  BY <1>1, RegistryAssumption DEF Older, Ages
<1>2. listAge' \in 0..ListTimeout
  BY RegistryAssumption DEF Tick, Older, RegistryInv, RegistryTypeOK
<1>3. RegistryTypeOK'
  BY <1>1, <1>2, RegistryAssumption DEF Tick, RegistryInv, RegistryTypeOK
<1>4. SameAges'
  BY RegistryAssumption
  DEF Tick, RegistryInv, RegistryTypeOK, SameAges, Older, Ages
<1>5. QED
  BY <1>3, <1>4, TurnsKept DEF Tick, RegistryInv

------------------------------------------------------------------------------
LEMMA PlaceShifts ==
  ASSUME NEW n \in Nat \ {0}, NEW x \in Nat, NEW i \in 1..n-1
  PROVE  Place(x, i + 1, n, n) = Place(x, i, n - 1, n)
  BY DEF Place

LEMMA PlaceInjective ==
  ASSUME NEW n \in Nat, NEW k \in 0..n, NEW x \in Nat, x < n,
         NEW i \in 1..k, NEW j \in 1..k
  PROVE  /\ Place(x, i, k, n) \in 1..n
         /\ Place(x, i, k, n) = Place(x, j, k, n) => i = j
  BY DEF Place

\* A turn of round robin: the oldest of n recent choices makes room.
LEMMA RoundRobinStep ==
  ASSUME RegistryInv, NEW u, RoundRobin(u), UNCHANGED list
  PROVE  Turns' /\ recent' \in Seq(Servers) /\ index' \in Nat
<1> DEFINE n == Len(list)
           x == index % n
           s == list[x + 1]
           old == IF Len(recent) = n THEN Tail(recent) ELSE recent
           k == Len(old)
<1>1. /\ n \in Nat \ {0} /\ list \in Seq(Servers) /\ recent \in Seq(Servers)
      /\ index \in Nat /\ recent' = Append(old, s)
  BY DEF RegistryInv, RegistryTypeOK, RoundRobin
<1>2. x \in 0..n-1 /\ index' = (IF x + 1 = n THEN 0 ELSE x + 1)
      /\ (index < n => x = index)
  BY <1>1, NextTurn DEF RoundRobin, NextIndex
<1>3. old \in Seq(Servers) /\ k \in 0..n-1 /\ (k > 0 => index < n)
  BY <1>1 DEF RegistryInv, Turns
<1>4. ASSUME NEW i \in 1..k
      PROVE  old[i] = list[Place(index, i, k, n)]
  <2>1. CASE Len(recent) = n
    <3>1. old[i] = recent[i + 1] /\ k = n - 1
      BY <1>1, <2>1
    <3>2. recent[i + 1] = list[Place(index, i + 1, n, n)]
      <4>1. i + 1 \in 1..Len(recent)
        BY <1>1, <2>1, <3>1
      <4>2. QED
        BY <2>1, <4>1 DEF RegistryInv, Turns
    <3>3. Place(index, i + 1, n, n) = Place(index, i, k, n)
      BY <1>1, <3>1, PlaceShifts
    <3>4. QED
      BY <3>1, <3>2, <3>3
  <2>2. CASE Len(recent) # n
    BY <2>2 DEF RegistryInv, Turns
  <2>3. QED
    BY <2>1, <2>2
<1>5. s \in Servers
  BY <1>1, <1>2
<1> HIDE DEF x
<1>6. index' \in Nat /\ index' < n
  BY <1>1, <1>2
<1> HIDE DEF s, old
<1>7. /\ recent' \in Seq(Servers) /\ recent' # <<>> /\ Len(recent') = k + 1
      /\ recent'[k + 1] = s /\ \A i \in 1..k : recent'[i] = old[i]
  BY <1>1, <1>3, <1>5, AppendProperties
<1> HIDE DEF k, n
<1>8. /\ Place(index', k + 1, k + 1, n) = x + 1
      /\ \A i \in 1..k : Place(index', i, k + 1, n) = Place(x, i, k, n)
  BY <1>1, <1>2, <1>3 DEF Place
<1>9. ASSUME NEW i \in 1..k+1
      PROVE  recent'[i] = list[Place(index', i, k + 1, n)]
  <2>1. CASE i = k + 1
    <3>1. recent'[i] = s
      BY <1>7, <2>1
    <3>2. QED
      BY <1>8, <2>1, <3>1 DEF s
  <2>2. CASE i # k + 1
    <3>1. recent'[i] = old[i] /\ i \in 1..k /\ k > 0
      BY <1>3, <1>7, <2>2
    <3>2. x = index
      BY <1>2, <1>3, <3>1
    <3>3. QED
      BY <1>4, <1>8, <3>1, <3>2
  <2>3. QED
    BY <2>1, <2>2
<1>10. Turns'
  <2>1. Len(recent') <= Len(list')
    BY <1>1, <1>3, <1>7 DEF n
  <2>2. IsInjective(list')
    BY DEF RegistryInv, Turns
  <2>3. QED
    BY <1>1, <1>6, <1>7, <1>9, <2>1, <2>2 DEF Turns, n
<1>11. QED
  BY <1>6, <1>7, <1>10

LEMMA ChooseStep ==
  ASSUME RegistryInv, NEW u \in Users, Choose(u)
  PROVE  RegistryInv'
<1>1. UNCHANGED <<regVars, list, listAge, mu>>
      /\ pc' \in [Users -> {"idle", "refresh", "ask", "choose"}]
  BY DEF Choose, Goto, RegistryInv, RegistryTypeOK
<1>2. Turns' /\ recent' \in Seq(Servers) /\ index' \in Nat
  <2>1. CASE RoundRobin(u)
    BY <1>1, <2>1, RoundRobinStep
  <2>2. CASE UNCHANGED <<index, recent>>
    BY <1>1, <2>2, TurnsKept DEF RegistryInv, RegistryTypeOK
  <2>3. QED
    BY <2>1, <2>2 DEF Choose
<1>3. RegistryTypeOK'
  BY <1>1, <1>2 DEF RegistryInv, RegistryTypeOK, regVars
<1>4. SameAges'
  BY <1>1 DEF RegistryInv, SameAges, regVars
<1>5. QED
  BY <1>2, <1>3, <1>4 DEF RegistryInv

LEMMA RegistryStutter == RegistryInv /\ UNCHANGED registryVars => RegistryInv'
  BY DEF RegistryInv, RegistryTypeOK, SameAges, Turns, Place, IsInjective,
     registryVars, regVars, discVars

LEMMA RegistryNextInv == RegistryInv /\ [RegistryNext]_registryVars => RegistryInv'
<1> SUFFICES ASSUME RegistryInv, RegistryNext PROVE RegistryInv'
  BY RegistryStutter
<1>1. CASE ForeignGet \/ Tick
  BY <1>1, ForeignGetStep, TickStep
<1>2. CASE \E s \in Servers : ForeignPost(s) \/ Beat(s)
  BY <1>2, ForeignPostStep, BeatStep
<1>3. CASE \E u \in Users : Call(u) \/ Refresh(u) \/ Refreshed(u)
                            \/ RefreshFails(u) \/ Choose(u)
  BY <1>3, UserStep, RefreshedStep, ChooseStep
<1>4. CASE \E l \in Lists : Update(l)
  BY <1>4, UpdateStep
<1>5. QED
  BY <1>1, <1>2, <1>3, <1>4 DEF RegistryNext

------------------------------------------------------------------------------
\* The registry's inductive invariant: types, the ages, and the turns.
THEOREM RegistryInvariant == RegistrySpec => []RegistryInv
  BY RegistryInitInv, RegistryNextInv, PTL DEF RegistrySpec

\* A registry that is asked names exactly the servers that posted in time.
THEOREM AnswersLiveHolds == RegistrySpec => []AnswersLive
<1>1. RegistryInv => AnswersLive
  BY RegistryAssumption DEF RegistryInv, RegistryTypeOK, Ages, SameAges,
     AnswersLive, aliveServers, Live
<1>2. QED
  BY <1>1, RegistryInvariant, PTL

\* Any n turns in a row of round robin over n servers name each of them once.
THEOREM RoundRobinFairHolds == RegistrySpec => []RoundRobinFair
<1>1. RegistryInv => RoundRobinFair
  <2> SUFFICES ASSUME RegistryInv, NEW i \in DOMAIN recent,
                      NEW j \in DOMAIN recent, recent[i] = recent[j]
               PROVE  i = j
    BY DEF RoundRobinFair, IsInjective
  <2> DEFINE n == Len(list)
             k == Len(recent)
  <2>1. /\ n \in Nat /\ k \in 0..n /\ index \in Nat /\ index < n
        /\ i \in 1..k /\ j \in 1..k
    BY DEF RegistryInv, RegistryTypeOK, Turns
  <2>2. DOMAIN list = 1..n
    BY DEF RegistryInv, RegistryTypeOK
  <2>3. Place(index, i, k, n) = Place(index, j, k, n)
    <3>1. recent[i] = list[Place(index, i, k, n)]
          /\ recent[j] = list[Place(index, j, k, n)]
      BY <2>1 DEF RegistryInv, Turns
    <3>2. IsInjective(list)
      BY DEF RegistryInv, Turns
    <3> HIDE DEF n, k
    <3>3. /\ Place(index, i, k, n) \in DOMAIN list
          /\ Place(index, j, k, n) \in DOMAIN list
      BY <2>1, <2>2, PlaceInjective
    <3>4. QED
      BY <3>1, <3>2, <3>3 DEF IsInjective
  <2> HIDE DEF n, k
  <2>4. QED
    BY <2>1, <2>3, PlaceInjective
<1>2. QED
  BY <1>1, RegistryInvariant, PTL

------------------------------------------------------------------------------
(* XClient.                                                                *)

InDial(j) == job[j] \in {"connect", "handshake"}

\* What the mutex protects: the job that connects has it, and its server has
\* no client in the cache until it is given one.
Locked ==
    /\ \A j \in Jobs : job[j] # "idle" => at[j] \in Addrs
    /\ \A j \in Jobs : InDial(j) => xmu = j /\ clients[at[j]] = None
    /\ \A j \in Jobs : job[j] = "handshake" => using[j] \in Conns

Kept == \A c \in Conns : conn[c] \in {"open", "lost"} =>
            Dialling(c) \/ \E s \in Addrs : clients[s] = c

\* What the local mutex of a Broadcast protects.
Reported ==
    /\ \A s \in Addrs : job[s] # "idle" => s \in told
    /\ e # None <=> \E s \in Addrs : job[s] = "failed"
    /\ \A s \in Addrs : job[s] = "done" => reply # None
    /\ reply # None => reply \in Addrs /\ job[reply] = "done"

XInv == XTypeOK /\ Locked /\ Kept /\ Reported

LEMMA XInitInv == XInit => XInv
  BY XClientAssumption DEF XInit, XInv, XTypeOK, Locked, Kept, Reported,
     InDial, Dialling, Jobs

------------------------------------------------------------------------------
(* The steps of Work, each with the parts of the invariant it can disturb. *)

LEMMA ReuseStep ==
  ASSUME XInv, NEW j \in Jobs, Reuse(j)
  PROVE  XInv'
<1>1. XTypeOK'
  BY XClientAssumption DEF XInv, XTypeOK, Locked, Reuse, Available, Move,
     connVars, broadcastVars
<1>2. Locked' /\ Kept'
  BY <1>1, XClientAssumption DEF XInv, XTypeOK, Locked, Kept, InDial, Dialling,
     Reuse, Available, Move, connVars, broadcastVars
<1>3. Reported'
  BY <1>1, XClientAssumption DEF XInv, XTypeOK, Reported, Jobs, Reuse,
     Available, Move, connVars, broadcastVars
<1>4. QED
  BY <1>1, <1>2, <1>3 DEF XInv

LEMMA DialStep ==
  ASSUME XInv, NEW j \in Jobs, Dial(j)
  PROVE  XInv'
<1>1. XTypeOK'
  BY XClientAssumption DEF XInv, XTypeOK, Dial, Available, Move, broadcastVars
<1>2. Locked'
  BY <1>1, XClientAssumption DEF XInv, XTypeOK, Locked, InDial, Dial,
     Available, Move, broadcastVars
<1>3. Kept'
  <2> SUFFICES ASSUME NEW c \in Conns, conn'[c] \in {"open", "lost"}
               PROVE  \E s \in Addrs : clients'[s] = c
    BY DEF Kept
  <2>1. conn[c] \in {"open", "lost"} /\ c # clients[at[j]]
    BY DEF Dial, XInv, XTypeOK
  <2>2. ~Dialling(c)
    BY XClientAssumption DEF Dialling, Dial
  <2>3. PICK s \in Addrs : clients[s] = c
    BY <2>1, <2>2 DEF XInv, Kept
  <2>4. clients'[s] = c
    BY <2>1, <2>3 DEF Dial, XInv, XTypeOK
  <2>5. QED
    BY <2>4
<1>4. Reported'
  BY <1>1, XClientAssumption DEF XInv, XTypeOK, Reported, Jobs, Dial,
     Available, Move, broadcastVars
<1>5. QED
  BY <1>1, <1>2, <1>3, <1>4 DEF XInv

LEMMA ConnectStep ==
  ASSUME XInv, NEW j \in Jobs, NEW c \in Conns, Connect(j, c)
  PROVE  XInv'
<1>1. XTypeOK'
  BY XClientAssumption DEF XInv, XTypeOK, Connect, Set, Move, broadcastVars
<1>2. Locked'
  BY <1>1, XClientAssumption DEF XInv, XTypeOK, Locked, InDial, Connect, Set,
     Move, broadcastVars
<1>3. Kept'
  <2> SUFFICES ASSUME NEW d \in Conns, conn'[d] \in {"open", "lost"}
               PROVE  Dialling(d)' \/ \E s \in Addrs : clients'[s] = d
    BY DEF Kept
  <2>1. xmu' = j /\ job'[j] = "handshake" /\ using'[j] = c
    BY DEF Connect, XInv, XTypeOK, Locked, InDial, Move
  <2>2. CASE d = c
    BY <2>1, <2>2 DEF Dialling
  <2>3. CASE d # c
    <3>1. conn[d] \in {"open", "lost"}
      BY <2>3 DEF Connect, Set, XInv, XTypeOK
    <3>2. ~Dialling(d)
      BY DEF Dialling, Connect, XInv, Locked, InDial
    <3>3. QED
      BY <3>1, <3>2 DEF XInv, Kept, Connect
  <2>4. QED
    BY <2>2, <2>3
<1>4. Reported'
  BY <1>1, XClientAssumption DEF XInv, XTypeOK, Reported, Jobs, Connect, Set,
     Move, broadcastVars
<1>5. QED
  BY <1>1, <1>2, <1>3, <1>4 DEF XInv

\* A step that ends the dialling of j without a client in the cache, and that
\* leaves no connection of it open.
LEMMA FailStep ==
  ASSUME XInv, NEW j \in Jobs, InDial(j), Fails(j), XTypeOK',
         \A c \in Conns : conn'[c] \in {"open", "lost"} =>
             /\ conn[c] \in {"open", "lost"}
             /\ job[j] = "handshake" => c # using[j],
         UNCHANGED <<clients, at, broadcastVars>>
  PROVE  XInv'
<1>1. Locked'
  BY XClientAssumption DEF XInv, XTypeOK, Locked, InDial, Fails, Move, Unlocks
<1>2. Kept'
  <2> SUFFICES ASSUME NEW c \in Conns, conn'[c] \in {"open", "lost"}
               PROVE  \E s \in Addrs : clients'[s] = c
    BY DEF Kept
  <2>1. conn[c] \in {"open", "lost"} /\ ~Dialling(c)
    BY DEF Dialling, XInv, Locked, InDial
  <2>2. QED
    BY <2>1 DEF XInv, Kept
<1>3. Reported'
  BY XClientAssumption DEF XInv, XTypeOK, Reported, Jobs, Fails, Move, InDial,
     broadcastVars
<1>4. QED
  BY <1>1, <1>2, <1>3 DEF XInv

LEMMA ConnectFailsStep ==
  ASSUME XInv, NEW j \in Jobs, ConnectFails(j)
  PROVE  XInv'
<1>1. XTypeOK'
  BY DEF XInv, XTypeOK, ConnectFails, Fails, Move, Unlocks, connVars,
     broadcastVars
<1>2. QED
  BY <1>1, FailStep DEF ConnectFails, InDial, connVars, broadcastVars

LEMMA ShakeTimeoutStep ==
  ASSUME XInv, NEW j \in Jobs, ShakeTimeout(j)
  PROVE  XInv'
<1>1. XTypeOK'
  BY DEF XInv, XTypeOK, ShakeTimeout, GiveUp, Fails, Move, Unlocks,
     broadcastVars
<1>2. \A c \in Conns : conn'[c] \in {"open", "lost"} =>
          conn[c] \in {"open", "lost"} /\ c # using[j]
  BY DEF ShakeTimeout, GiveUp
<1>3. QED
  BY <1>1, <1>2, FailStep DEF ShakeTimeout, InDial, broadcastVars

LEMMA ShakesStep ==
  ASSUME XInv, NEW j \in Jobs, Shakes(j)
  PROVE  XInv'
<1>1. CASE clients' = [clients EXCEPT ![at[j]] = using[j]] /\ Move(j, "call")
           /\ Unlocks(j) /\ UNCHANGED <<conn, using>>
  <2> USE <1>1
  <2>1. XTypeOK'
    BY DEF XInv, XTypeOK, Locked, Shakes, Move, Unlocks, broadcastVars
  <2>2. Locked'
    BY XClientAssumption DEF XInv, XTypeOK, Locked, InDial, Shakes, Move,
       Unlocks, broadcastVars
  <2>3. Kept'
    <3> SUFFICES ASSUME NEW c \in Conns, conn[c] \in {"open", "lost"}
                 PROVE  \E s \in Addrs : clients'[s] = c
      BY DEF Kept
    <3>1. at[j] \in Addrs /\ clients[at[j]] = None
      BY DEF XInv, Locked, InDial, Shakes
    <3>2. CASE c = using[j]
      BY <3>1, <3>2 DEF XInv, XTypeOK
    <3>3. CASE c # using[j]
      <4>1. ~Dialling(c)
        BY <3>3 DEF Dialling, XInv, Locked, InDial, Shakes
      <4>2. PICK s \in Addrs : clients[s] = c
        BY <4>1 DEF XInv, Kept
      <4>3. s # at[j]
        BY <3>1, <4>2, XClientAssumption
      <4>4. QED
        BY <4>2, <4>3 DEF XInv, XTypeOK
    <3>4. QED
      BY <3>2, <3>3
  <2>4. Reported'
    BY XClientAssumption DEF XInv, XTypeOK, Reported, Jobs, Shakes, Move,
       broadcastVars
  <2>5. QED
    BY <2>1, <2>2, <2>3, <2>4 DEF XInv
<1>2. CASE GiveUp(j) /\ Fails(j) /\ UNCHANGED clients
  <2>1. XTypeOK'
    BY <1>2 DEF XInv, XTypeOK, Shakes, GiveUp, Fails, Move, Unlocks,
       broadcastVars
  <2>2. \A c \in Conns : conn'[c] \in {"open", "lost"} =>
            conn[c] \in {"open", "lost"} /\ c # using[j]
    BY <1>2 DEF GiveUp
  <2>3. QED
    BY <1>2, <2>1, <2>2, FailStep DEF Shakes, InDial, broadcastVars
<1>3. QED
  BY <1>1, <1>2 DEF Shakes

\* The other steps of a job leave the mutex, the cache and the connections
\* alone; they only have to be told apart by what a Broadcast notes.
LEMMA JobStep ==
  ASSUME XInv, NEW j \in Jobs,
         Answered(j) \/ NoAnswer(j) \/ CallFails(j) \/ Settle(j)
  PROVE  XInv'
<1>1. XTypeOK'
  BY DEF XInv, XTypeOK, Answered, NoAnswer, CallFails, Settle, Move, connVars,
     broadcastVars
<1>2. Locked' /\ Kept'
  BY <1>1, XClientAssumption DEF XInv, XTypeOK, Locked, Kept, InDial, Dialling,
     Answered, NoAnswer, CallFails, Settle, Move, connVars
<1>3. Reported'
  <2>1. CASE Answered(j)
    BY <2>1, XClientAssumption DEF XInv, XTypeOK, Reported, Jobs, Answered,
       Move, broadcastVars
  <2>2. CASE NoAnswer(j) \/ CallFails(j)
    BY <2>2, XClientAssumption DEF XInv, XTypeOK, Reported, Jobs, NoAnswer,
       CallFails, Move, broadcastVars
  <2>3. CASE Settle(j)
    BY <2>3, XClientAssumption DEF XInv, XTypeOK, Reported, Jobs, Settle, Move
  <2>4. QED
    BY <2>1, <2>2, <2>3
<1>4. QED
  BY <1>1, <1>2, <1>3 DEF XInv

LEMMA SucceededStep ==
  ASSUME XInv, NEW s \in Addrs, Succeeded(s)
  PROVE  XInv'
<1>1. XTypeOK'
  BY DEF XInv, XTypeOK, Jobs, Succeeded, Move, connVars, ReplyDone
<1>2. Locked' /\ Kept'
  BY <1>1, XClientAssumption DEF XInv, XTypeOK, Jobs, Locked, Kept, InDial,
     Dialling, Succeeded, Move, connVars
<1>3. Reported'
  BY XClientAssumption DEF XInv, XTypeOK, Reported, Jobs, Succeeded, Move,
     ReplyDone
<1>4. QED
  BY <1>1, <1>2, <1>3 DEF XInv

LEMMA StartStep ==
  ASSUME XInv, NEW u \in Callers, NEW s \in Addrs, Start(u, s)
  PROVE  XInv'
<1>1. XTypeOK'
  BY DEF XInv, XTypeOK, Jobs, Start, Move, connVars, broadcastVars
<1>2. Locked' /\ Kept'
  BY <1>1, XClientAssumption DEF XInv, XTypeOK, Jobs, Locked, Kept, InDial,
     Dialling, Start, Move, connVars
<1>3. Reported'
  BY XClientAssumption DEF XInv, XTypeOK, Reported, Jobs, Start, Move,
     broadcastVars
<1>4. QED
  BY <1>1, <1>2, <1>3 DEF XInv

LEMMA BroadcastStep ==
  ASSUME XInv, NEW S \in SUBSET Addrs \ {{}}, Broadcast(S)
  PROVE  XInv'
<1>1. XTypeOK'
  BY DEF XInv, XTypeOK, Jobs, Broadcast, connVars
<1>2. \A s \in Addrs : job[s] = "idle"
  BY DEF XInv, Reported, Broadcast
<1>3. \A j \in Jobs : job'[j] # job[j] => j \in S /\ job'[j] = "dial"
  BY DEF Broadcast, XInv, XTypeOK
<1>4. Locked' /\ Kept'
  BY <1>1, <1>2, <1>3, XClientAssumption DEF XInv, XTypeOK, Jobs, Locked,
     Kept, InDial, Dialling, Broadcast, connVars
<1>5. Reported'
  BY <1>2, XClientAssumption DEF XInv, XTypeOK, Reported, Jobs, Broadcast
<1>6. QED
  BY <1>1, <1>4, <1>5 DEF XInv

LEMMA EnvironmentStep ==
  ASSUME XInv, Close \/ \E c \in Conns : Lose(c)
  PROVE  XInv'
<1>1. CASE Close
  <2>1. XTypeOK'
    BY <1>1 DEF XInv, XTypeOK, Close, broadcastVars
  <2>2. Locked' /\ Kept'
    BY <1>1, XClientAssumption DEF XInv, XTypeOK, Locked, Kept, InDial,
       Dialling, Close
  <2>3. Reported'
    BY <1>1 DEF XInv, Reported, Close, broadcastVars
  <2>4. QED
    BY <2>1, <2>2, <2>3 DEF XInv
<1>2. CASE \E c \in Conns : Lose(c)
  <2>1. PICK c \in Conns : Lose(c)
    BY <1>2
  <2>2. XTypeOK'
    BY <2>1 DEF XInv, XTypeOK, Lose, Set, broadcastVars
  <2>3. Locked' /\ Kept'
    BY <2>1 DEF XInv, XTypeOK, Locked, Kept, InDial, Dialling, Lose, Set
  <2>4. Reported'
    BY <2>1 DEF XInv, Reported, Lose, broadcastVars
  <2>5. QED
    BY <2>2, <2>3, <2>4 DEF XInv
<1>3. QED
  BY <1>1, <1>2

LEMMA XStutterStep == XInv /\ UNCHANGED xVars => XInv'
  BY DEF XInv, XTypeOK, Locked, Kept, Reported, InDial, Dialling, xVars,
     connVars, broadcastVars

LEMMA XNextInv == XInv /\ [XNext]_xVars => XInv'
<1> SUFFICES ASSUME XInv, XNext PROVE XInv'
  BY XStutterStep
<1>1. CASE \E j \in Jobs : Work(j)
  <2>1. PICK j \in Jobs : Work(j)
    BY <1>1
  <2>2. QED
    BY <2>1, ReuseStep, DialStep, ConnectStep, ConnectFailsStep, ShakesStep,
       ShakeTimeoutStep, JobStep DEF Work
<1>2. CASE \E u \in Callers, s \in Addrs : Start(u, s)
  BY <1>2, StartStep
<1>3. CASE \E S \in SUBSET Addrs \ {{}} : Broadcast(S)
  BY <1>3, BroadcastStep
<1>4. CASE \E s \in Addrs : Succeeded(s)
  BY <1>4, SucceededStep
<1>5. CASE Close \/ \E c \in Conns : Lose(c)
  BY <1>5, EnvironmentStep
<1>6. QED
  BY <1>1, <1>2, <1>3, <1>4, <1>5 DEF XNext

------------------------------------------------------------------------------
\* The inductive invariant: types, the mutex, the connections, the Broadcast.
THEOREM XInvariant == XSpec => []XInv
  BY XInitInv, XNextInv, PTL DEF XSpec

\* Every open connection is cached or being dialled under the mutex, so that
\* XClient.Close and the drop of a lost client leave none behind.
THEOREM NoLeakHolds == XSpec => []NoLeak
<1>1. XInv => NoLeak
  BY DEF XInv, Kept, NoLeak
<1>2. QED
  BY <1>1, XInvariant, PTL

\* Broadcast reports an error exactly when a call failed, and otherwise the
\* answer of a server that answered.
THEOREM BroadcastTruthHolds == XSpec => []BroadcastTruth
<1>1. XInv => BroadcastTruth
  <2> SUFFICES ASSUME XInv, told # {},
                      \A s \in told : job[s] \in {"done", "failed"}
               PROVE  /\ e # None <=> \E s \in told : job[s] = "failed"
                      /\ e = None => reply # None
                      /\ reply # None => reply \in told /\ job[reply] = "done"
    BY DEF BroadcastTruth
  <2>1. told \subseteq Addrs
    BY DEF XInv, XTypeOK
  <2>2. e # None <=> \E s \in told : job[s] = "failed"
    BY <2>1 DEF XInv, Reported
  <2>3. e = None => reply # None
    BY <2>1, <2>2 DEF XInv, Reported
  <2>4. reply # None => reply \in told /\ job[reply] = "done"
    BY DEF XInv, Reported
  <2>5. QED
    BY <2>2, <2>3, <2>4
<1>2. QED
  BY <1>1, XInvariant, PTL
==============================================================================
