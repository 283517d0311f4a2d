-------------------------- MODULE CacheGroupProofs --------------------------
(***************************************************************************)
(* Proofs about CacheGroup, for any nodes, keys, hash rings and users: if  *)
(* keys survive the trip in a URL, Get returns the content of its key; if  *)
(* the nodes agree on owners too, a key has one loader, no chain of peers  *)
(* is longer than one, and requests never wait for each other in a circle. *)
(*                                                                         *)
(* What the group does to its flights is a step of SingleFlight, so that   *)
(* the lemmas of SingleFlightProofs carry over.                            *)
(***************************************************************************)
EXTENDS CacheGroup, TLAPS

Sub == INSTANCE SingleFlightProofs
       WITH Callers <- Requests, Keys <- Slots, Results <- Keys \cup {Empty}

LEMMA NoneNoValue == None \notin Requests \cup Slots \cup (Keys \cup {Empty})
  BY GroupAssumption

\* A request is a user and a number of hops.
LEMMA RequestFacts ==
    ASSUME NEW r \in Requests
    PROVE  /\ r[1] \in Users /\ r[2] \in 0 .. MaxHops /\ r[2] \in Nat /\ r = <<r[1], r[2]>>
           /\ r[2] < MaxHops => r \in Callers
<1>1. PICK u \in Users, i \in 0 .. MaxHops : r = <<u, i>>
  BY DEF Requests
<1>2. i < MaxHops => i \in 0 .. MaxHops - 1
  BY GroupAssumption
<1> QED
  BY <1>1, <1>2, GroupAssumption DEF Callers

LEMMA ChildFacts ==
    ASSUME NEW r \in Callers
    PROVE  /\ r \in Requests /\ Child(r) \in Requests
           /\ r[2] \in Nat /\ r[2] < MaxHops
           /\ Child(r)[2] = r[2] + 1 /\ Child(r)[2] > 0 /\ Child(r) # r
<1>1. PICK u \in Users, i \in 0 .. MaxHops - 1 : r = <<u, i>>
  BY DEF Callers
<1>2. i \in 0 .. MaxHops /\ i + 1 \in 0 .. MaxHops /\ i \in Nat /\ i < MaxHops
  BY GroupAssumption
<1>3. Child(r) = <<u, i + 1>> /\ Child(r)[2] = i + 1 /\ r[2] = i
  BY <1>1 DEF Child
<1> QED
  BY <1>1, <1>2, <1>3 DEF Requests

\* Children of different requests are different.
LEMMA ChildOnce == ASSUME NEW r \in Callers, NEW s \in Callers, Child(r) = Child(s) PROVE r = s
<1>1. r[1] = s[1] /\ r[2] + 1 = s[2] + 1
  BY DEF Child
<1>2. r = <<r[1], r[2]>> /\ s = <<s[1], s[2]>> /\ r[2] \in Nat /\ s[2] \in Nat
  BY ChildFacts, RequestFacts
<1> QED
  BY <1>1, <1>2

\* What a user issues is nobody's child.
LEMMA IssuedFacts ==
    ASSUME NEW u \in Users
    PROVE  /\ <<u, 0>> \in Requests /\ <<u, 0>>[2] = 0
           /\ \A r \in Callers : Child(r) # <<u, 0>>
<1>1. <<u, 0>> \in Requests
  BY GroupAssumption DEF Requests
<1>2. ASSUME NEW r \in Callers PROVE Child(r) # <<u, 0>>
  <2>1. Child(r)[2] > 0
    BY ChildFacts
  <2> QED
    BY <2>1
<1> QED
  BY <1>1, <1>2

\* The owner of a slot is a node, and what a peer gets is a slot of its own.
LEMMA OwnerFacts ==
    ASSUME NEW w \in Slots
    PROVE  /\ w[1] \in Nodes /\ w[2] \in Keys /\ Peer(w) \in Nodes
           /\ Sent(w) \in Slots /\ Sent(w)[1] = Peer(w) /\ Sent(w)[2] = UrlKey[w[2]]
           /\ Peer(w) = Owner[w[1]][w[2]]
<1>1. PICK n \in Nodes, k \in Keys : w = <<n, k>>
  BY DEF Slots
<1>2. Owner[n][k] \in Nodes /\ UrlKey[k] \in Keys
  BY GroupAssumption
<1> QED
  BY <1>1, <1>2 DEF Slots, Peer, Sent

\* What the getter gives for a key.
LEMMA ContentFacts ==
    /\ \A k \in Keys : Content(k) \in Values
    /\ \A k \in Known : Content(k) = k /\ k \in Keys
  BY GroupAssumption DEF Content, Values

------------------------------------------------------------------------------
(* The flights.                                                            *)

LEMMA SameStep == [Sub!Next]_(Sub!flightVars) <=> [Flight!Next]_flightVars
  BY DEF Sub!Next, Flight!Next, Sub!flightVars, flightVars, Sub!Join, Flight!Join, Sub!Lead,
     Flight!Lead, Sub!Fn, Flight!Fn, Sub!Do, Flight!Do, Sub!FnReturns, Flight!FnReturns,
     Sub!FnPanics, Flight!FnPanics, Sub!Release, Flight!Release, Sub!Forget, Flight!Forget,
     Sub!Wake, Flight!Wake, Sub!Goto, Flight!Goto, Sub!Found, Flight!Found, Sub!Signal,
     Flight!Signal, Sub!Delete, Flight!Delete, Sub!Ready, Flight!Ready

LEMMA SameInv ==
    /\ Sub!TypeOK <=> Flight!TypeOK
    /\ Sub!LeadInv <=> Flight!LeadInv
    /\ Sub!ResultInv <=> Flight!ResultInv
    /\ Sub!SharedResult <=> Flight!SharedResult
    /\ Sub!IInv <=> Flight!IInv
    /\ Sub!Init <=> Flight!Init
    /\ Sub!OneFlight <=> Flight!OneFlight
  BY DEF Sub!TypeOK, Flight!TypeOK, Sub!LeadInv, Flight!LeadInv, Sub!ResultInv,
     Flight!ResultInv, Sub!SharedResult, Flight!SharedResult, Sub!IInv, Flight!IInv,
     Sub!Leading, Flight!Leading, Sub!Init, Flight!Init, Sub!OneFlight, Flight!OneFlight

LEMMA SameInvPrimed ==
    /\ Sub!TypeOK' <=> Flight!TypeOK'
    /\ Sub!LeadInv' <=> Flight!LeadInv'
    /\ Sub!ResultInv' <=> Flight!ResultInv'
    /\ Sub!SharedResult' <=> Flight!SharedResult'
  BY DEF Sub!TypeOK, Flight!TypeOK, Sub!LeadInv, Flight!LeadInv, Sub!ResultInv,
     Flight!ResultInv, Sub!SharedResult, Flight!SharedResult, Sub!Leading, Flight!Leading

LEMMA FlightInit == Flight!Init => Flight!IInv
  BY NoneNoValue, SameInv, Sub!InitIInv

\* A step of the flights keeps the invariant of SingleFlight.
LEMMA FlightStep == Flight!IInv /\ [Flight!Next]_flightVars => Flight!IInv'
<1> SUFFICES ASSUME Flight!IInv, [Flight!Next]_flightVars PROVE Flight!IInv'
  OBVIOUS
<1>1. Sub!IInv /\ [Sub!Next]_(Sub!flightVars)
  BY SameStep, SameInv
<1>2. Sub!TypeOK
  BY <1>1 DEF Sub!IInv
<1>3. Sub!TypeOK'
  BY <1>1, <1>2, NoneNoValue, Sub!TypeStep
<1>4. Sub!LeadInv'
  BY <1>1, NoneNoValue, Sub!LeadStep
<1>5. Sub!ResultInv' /\ Sub!SharedResult'
  BY <1>1, NoneNoValue, Sub!ResultStep
<1> QED
  BY <1>3, <1>4, <1>5, SameInvPrimed DEF Flight!IInv

\* A peer that has answered has answered with a value.
LEMMA PeerValue ==
    ASSUME IInv, NEW r \in Requests, step[r] = "peer", step[Child(r)] = "returned"
    PROVE  /\ r \in Callers /\ Child(r) \in Requests
           /\ want[r] \in Slots /\ want[Child(r)] = Sent(want[r])
           /\ answer[Child(r)] = Content(UrlKey[want[r][2]]) /\ answer[Child(r)] \in Values
<1>1. r \in Callers /\ Child(r) \in Requests /\ want[r] \in Slots
  BY RequestFacts, ChildFacts DEF IInv, HopInv, StepInv
<1>2. want[Child(r)] = Sent(want[r])
  BY <1>1 DEF IInv, ChildInv
<1>3. answer[Child(r)] = Content(want[Child(r)][2])
  BY <1>1 DEF IInv, RightValue
<1>4. Sent(want[r])[2] = UrlKey[want[r][2]] /\ UrlKey[want[r][2]] \in Keys
  BY <1>1, OwnerFacts, GroupAssumption
<1> QED
  BY <1>1, <1>2, <1>3, <1>4, ContentFacts

\* Every step of the group is one of its flights, or leaves them alone.
LEMMA GroupFlights == ASSUME IInv, [Next]_vars PROVE [Flight!Next]_flightVars
<1>1. ASSUME NEW r \in Requests, Run(r) PROVE [Flight!Next]_flightVars
  <2>1. CASE Lookup(r) \/ Pick(r)
    BY <2>1 DEF Lookup, Pick
  <2>2. CASE Enter(r)
    <3>1. want[r] \in Slots
      BY <2>2 DEF Enter, IInv, StepInv
    <3> QED
      BY <2>2, <3>1 DEF Enter, Flight!Next
  <2>3. CASE PeerAnswers(r)
    <3>1. answer[Child(r)] \in Keys \cup {Empty}
      BY <2>3, PeerValue DEF PeerAnswers, Values
    <3> QED
      BY <2>3, <3>1 DEF PeerAnswers, Flight!Next, Flight!Fn
  <2>4. CASE GetLocally(r)
    <3>1. want[r] \in Slots
      BY <2>4 DEF GetLocally, IInv, StepInv
    <3>2. Content(want[r][2]) \in Keys \cup {Empty}
      BY <3>1, OwnerFacts, ContentFacts DEF Values
    <3> QED
      BY <2>4, <3>2 DEF GetLocally, Flight!Next, Flight!Fn
  <2>5. CASE Release(r) \/ Forget(r) \/ Wake(r)
    BY <2>5 DEF Release, Forget, Wake, Flight!Next, Flight!Do
  <2> QED
    BY <1>1, <2>1, <2>2, <2>3, <2>4, <2>5 DEF Run
<1>2. CASE UNCHANGED flightVars
  BY <1>2
<1> QED
  BY <1>1, <1>2 DEF Next, Issue, Arrive, PeerFails, Unreached, Register, vars

------------------------------------------------------------------------------
(* The parts of the invariant, one by one.  Requests touch only their own  *)
(* variables, the cache and the flights.                                   *)

FlightOf(r) == <<result[r], pc[r], key[r]>>
RequestOf(r) == <<step[r], why[r], answer[r]>>

LEMMA RunLocal ==
    ASSUME IInv, NEW r \in Requests, Run(r)
    PROVE  /\ UNCHANGED <<want, registered>>
           /\ \A s \in Requests \ {r} : /\ UNCHANGED RequestOf(s)
                                        /\ UNCHANGED FlightOf(s)
<1> USE DEF IInv, TypeOK, Flight!IInv, Flight!TypeOK, Goto, Flight!Goto, FlightOf, RequestOf,
            flightVars
<1>1. CASE Lookup(r)
  BY <1>1 DEF Lookup, Answer
<1>2. CASE Enter(r)
  BY <1>2 DEF Enter, Flight!Join, Flight!Lead
<1>3. CASE Pick(r)
  BY <1>3 DEF Pick
<1>4. CASE PeerAnswers(r)
  BY <1>4 DEF PeerAnswers, Flight!FnReturns
<1>5. CASE GetLocally(r)
  BY <1>5 DEF GetLocally, Flight!FnReturns
<1>6. CASE Release(r)
  BY <1>6 DEF Release, Flight!Release
<1>7. CASE Forget(r)
  BY <1>7 DEF Forget, Flight!Forget, Answer
<1>8. CASE Wake(r)
  BY <1>8 DEF Wake, Flight!Wake, Answer
<1> QED
  BY <1>1, <1>2, <1>3, <1>4, <1>5, <1>6, <1>7, <1>8 DEF Run

\* The steps of one request through Get and Do.
Looks(r) == /\ step[r] = "lookup" /\ step'[r] \in {"missed", "returned"}
            /\ step'[r] = "returned" => answer'[r] = Content(want[r][2])
            /\ UNCHANGED FlightOf(r)
Enters(r) == /\ step[r] = "missed" /\ UNCHANGED result[r] /\ key'[r] = want[r]
             /\ \/ step'[r] = "wait" /\ pc'[r] = "wait"
                \/ step'[r] = "pick" /\ pc'[r] = "fn"
Picks(r) == /\ step[r] = "pick" /\ UNCHANGED FlightOf(r)
            /\ \/ step'[r] = "peer" /\ r[2] < MaxHops /\ Peer(want[r]) # want[r][1]
               \/ /\ step'[r] = "getter"
                  /\ why'[r] = "owner" => Peer(want[r]) = want[r][1]
Loads(r) == /\ step[r] \in {"peer", "getter"} /\ step'[r] = "leave"
            /\ pc'[r] = "done" /\ UNCHANGED key[r]
            /\ result'[r] = Content(want[r][2])
Releases(r) == /\ step[r] = "leave" /\ step'[r] = "leave"
               /\ pc'[r] = "delete" /\ UNCHANGED <<key[r], result[r]>>
Returns(r) == /\ step[r] \in {"leave", "wait"} /\ step'[r] = "returned"
              /\ pc'[r] = "returned" /\ UNCHANGED <<key[r], result[r]>>
              /\ answer'[r] = Content(want[r][2])

LEMMA RunSteps ==
    ASSUME IInv, KeysSurvive, NEW r \in Requests, Run(r)
    PROVE  /\ Looks(r) \/ Enters(r) \/ Picks(r) \/ Loads(r) \/ Releases(r) \/ Returns(r)
           /\ want[r] \in Slots
<1>0. /\ TypeOK /\ Flight!TypeOK /\ Flight!ResultInv /\ StepInv /\ ContentInv
  BY DEF IInv, Flight!IInv
<1>1. want[r] \in Slots /\ want[r][2] \in Keys
  <2>1. step[r] # "none"
    BY DEF Run, Lookup, Enter, Pick, PeerAnswers, GetLocally, Release, Forget, Wake
  <2> QED
    BY <1>0, <2>1, OwnerFacts DEF StepInv
<1>2. CASE Lookup(r)
  <2>1. Hit(want[r]) => cache[want[r]] = Content(want[r][2])
    BY <1>0, <1>1, ContentFacts DEF Hit, ContentInv
  <2> QED
    BY <1>0, <1>1, <1>2, <2>1 DEF Lookup, Answer, Goto, TypeOK, Looks, FlightOf, flightVars
<1>3. CASE Enter(r)
  <2>1. CASE Flight!Join(r, want[r]) /\ Goto(r, "wait")
    BY <1>0, <1>1, <1>3, <2>1 DEF Enter, Goto, TypeOK, Enters, Flight!TypeOK, Flight!Join,
         Flight!Goto
  <2>2. CASE Flight!Lead(r, want[r]) /\ Goto(r, "pick")
    BY <1>0, <1>1, <1>3, <2>2 DEF Enter, Goto, TypeOK, Enters, Flight!TypeOK, Flight!Lead,
         Flight!Goto
  <2> QED
    BY <1>1, <1>3, <2>1, <2>2 DEF Enter
<1>4. CASE Pick(r)
  BY <1>0, <1>1, <1>4 DEF Pick, Goto, Remote, TypeOK, Picks, FlightOf, flightVars
<1>5. CASE PeerAnswers(r)
  <2>1. answer[Child(r)] = Content(want[r][2])
    BY <1>1, <1>5, PeerValue DEF PeerAnswers, KeysSurvive
  <2> QED
    BY <1>0, <1>1, <1>5, <2>1 DEF PeerAnswers, Goto, TypeOK, Loads, Flight!TypeOK,
         Flight!FnReturns, Flight!Goto
<1>6. CASE GetLocally(r)
  BY <1>0, <1>1, <1>6 DEF GetLocally, Goto, TypeOK, Loads, Flight!TypeOK, Flight!FnReturns,
       Flight!Goto
<1>7. CASE Release(r)
  BY <1>0, <1>1, <1>7 DEF Release, TypeOK, Releases, Flight!TypeOK, Flight!Release, Flight!Goto
<1>8. ASSUME NEW s \in Requests, result[s] \in Keys \cup {Empty}
      PROVE  result[s] = Content(want[s][2])
  BY <1>0, <1>8, NoneNoValue DEF ContentInv
<1>9. CASE Forget(r)
  <2>1. pc[r] = "delete"
    BY <1>9 DEF Forget, Flight!Forget
  <2>2. result[r] = Content(want[r][2])
    BY <1>0, <1>8, <2>1 DEF Flight!ResultInv
  <2> QED
    BY <1>0, <1>1, <1>9, <2>2 DEF Forget, Answer, Goto, TypeOK, Returns, Flight!TypeOK,
         Flight!Forget, Flight!Goto
<1>10. CASE Wake(r)
  <2>1. pc[r] = "wait" /\ flight[r] \in released
    BY <1>10 DEF Wake, Flight!Wake, Flight!Ready
  <2>2. flight[r] \in Requests /\ key[flight[r]] = key[r] /\ result[flight[r]] \in Keys \cup {Empty}
        /\ pc[flight[r]] # "idle"
    BY <1>0, <2>1 DEF Flight!ResultInv
  <2>3. want[flight[r]] = want[r]
    BY <1>0, <2>1, <2>2 DEF StepInv
  <2>4. result[flight[r]] = Content(want[r][2])
    BY <1>8, <2>2, <2>3
  <2> QED
    BY <1>0, <1>1, <1>10, <2>4 DEF Wake, Answer, Goto, TypeOK, Returns, Flight!TypeOK,
         Flight!Wake, Flight!Goto
<1> QED
  BY <1>1, <1>2, <1>3, <1>4, <1>5, <1>6, <1>7, <1>9, <1>10 DEF Run

\* The steps by which a request comes into being, with its node and key, and
\* the failure of a peer.
Begins(r, w) == /\ step[r] = "none" /\ w \in Slots
                /\ want' = [want EXCEPT ![r] = w]
                /\ step' = [step EXCEPT ![r] = "lookup"]

LEMMA OtherSteps ==
    ASSUME IInv, [Next]_vars, \A r \in Requests : ~Run(r)
    PROVE  /\ UNCHANGED <<cache, answer, flightVars>>
           /\ registered \subseteq registered'
           /\ \/ UNCHANGED <<step, want, why>>
              \/ \E u \in Users, w \in Slots : Begins(<<u, 0>>, w) /\ UNCHANGED why
              \/ \E r \in Callers : /\ step[r] = "peer"
                                    /\ Begins(Child(r), Sent(want[r])) /\ UNCHANGED why
              \/ \E r \in Callers : /\ step[r] = "peer" /\ UNCHANGED want
                                    /\ step' = [step EXCEPT ![r] = "getter"]
                                    /\ why' = [why EXCEPT ![r] = "peerFailed"]
<1>1. CASE UNCHANGED vars
  BY <1>1 DEF vars
<1>2. ASSUME NEW u \in Users, NEW n \in Nodes, NEW k \in Keys, Issue(u, n, k)
      PROVE  /\ UNCHANGED <<cache, answer, flightVars>> /\ registered \subseteq registered'
             /\ <<n, k>> \in Slots /\ Begins(<<u, 0>>, <<n, k>>) /\ UNCHANGED why
  BY <1>2 DEF Issue, Begins, Goto, Slots
<1>3. ASSUME NEW r \in Callers, Arrive(r)
      PROVE  /\ UNCHANGED <<cache, answer, flightVars>> /\ registered \subseteq registered'
             /\ step[r] = "peer" /\ Begins(Child(r), Sent(want[r])) /\ UNCHANGED why
  <2>1. r \in Requests /\ step[r] = "peer"
    BY <1>3, ChildFacts DEF Arrive
  <2>2. want[r] \in Slots
    BY <2>1 DEF IInv, StepInv
  <2> QED
    BY <1>3, <2>1, <2>2, OwnerFacts DEF Arrive, Begins, Goto
<1>4. ASSUME NEW r \in Callers, PeerFails(r)
      PROVE  /\ UNCHANGED <<cache, answer, flightVars>> /\ registered \subseteq registered'
             /\ step[r] = "peer" /\ UNCHANGED want
             /\ step' = [step EXCEPT ![r] = "getter"]
             /\ why' = [why EXCEPT ![r] = "peerFailed"]
  BY <1>4 DEF PeerFails, Unreached, Goto
<1>5. ASSUME NEW n \in Nodes, Register(n)
      PROVE  /\ UNCHANGED <<cache, answer, flightVars>> /\ registered \subseteq registered'
             /\ UNCHANGED <<step, want, why>>
  BY <1>5 DEF Register
<1> QED
  BY <1>1, <1>2, <1>3, <1>4, <1>5 DEF Next

LEMMA TypeStep == IInv /\ KeysSurvive /\ [Next]_vars => TypeOK'
<1> SUFFICES ASSUME IInv, KeysSurvive, [Next]_vars PROVE TypeOK'
  OBVIOUS
<1>0. TypeOK
  BY DEF IInv
<1>1. CASE UNCHANGED vars
  BY <1>0, <1>1 DEF TypeOK, vars
<1>2. ASSUME NEW r \in Requests, Run(r) PROVE TypeOK'
  <2>1. want[r] \in Slots /\ want[r][2] \in Keys
    BY <1>2, RunSteps, OwnerFacts
  <2>2. CASE Lookup(r)
    BY <1>0, <2>1, <2>2 DEF TypeOK, Lookup, Answer, Goto
  <2>3. CASE Enter(r)
    BY <1>0, <2>3 DEF TypeOK, Enter, Goto
  <2>4. CASE Pick(r)
    BY <1>0, <2>4 DEF TypeOK, Pick, Goto
  <2>5. CASE PeerAnswers(r) \/ Release(r)
    BY <1>0, <2>5 DEF TypeOK, PeerAnswers, Release, Goto
  <2>6. CASE GetLocally(r)
    <3>1. cache' \in [Slots -> Values \cup {None}]
      <4>1. Content(want[r][2]) \in Values
        BY <2>1, ContentFacts
      <4>2. CASE Put(want[r], Content(want[r][2]))
        BY <1>0, <4>1, <4>2 DEF TypeOK, Put
      <4> QED
        BY <1>0, <2>6, <4>2 DEF TypeOK, GetLocally
    <3> QED
      BY <1>0, <2>6, <3>1 DEF TypeOK, GetLocally, Goto
  <2>7. CASE Forget(r)
    <3>1. result[r] \in Values \cup {None}
      BY DEF IInv, Flight!IInv, Flight!TypeOK, Values
    <3> QED
      BY <1>0, <2>7, <3>1 DEF TypeOK, Forget, Answer, Goto
  <2>8. CASE Wake(r)
    <3>1. result[flight[r]] \in Values \cup {None}
      BY <2>8 DEF Wake, Flight!Wake, IInv, Flight!IInv, Flight!TypeOK, Flight!ResultInv, Values
    <3> QED
      BY <1>0, <2>8, <3>1 DEF TypeOK, Wake, Answer, Goto
  <2> QED
    BY <1>2, <2>2, <2>3, <2>4, <2>5, <2>6, <2>7, <2>8 DEF Run
<1>3. ASSUME NEW u \in Users, NEW n \in Nodes, NEW k \in Keys, Issue(u, n, k) PROVE TypeOK'
  <2>1. <<n, k>> \in Slots
    BY DEF Slots
  <2> QED
    BY <1>0, <1>3, <2>1 DEF TypeOK, Issue, Goto
<1>4. ASSUME NEW r \in Callers, Arrive(r) PROVE TypeOK'
  <2>1. Sent(want[r]) \in Slots
    BY <1>4, ChildFacts, OwnerFacts DEF Arrive, IInv, StepInv
  <2> QED
    BY <1>0, <1>4, <2>1 DEF TypeOK, Arrive, Goto
<1>5. ASSUME NEW r \in Callers, PeerFails(r) PROVE TypeOK'
  BY <1>0, <1>5 DEF TypeOK, PeerFails, Unreached, Goto
<1>6. ASSUME NEW n \in Nodes, Register(n) PROVE TypeOK'
  BY <1>0, <1>6 DEF TypeOK, Register
<1> QED
  BY <1>1, <1>2, <1>3, <1>4, <1>5, <1>6 DEF Next

LEMMA StepStep == IInv /\ KeysSurvive /\ [Next]_vars => StepInv'
<1> SUFFICES ASSUME IInv, KeysSurvive, [Next]_vars PROVE StepInv'
  OBVIOUS
<1>0. TypeOK /\ StepInv /\ Flight!TypeOK
  BY DEF IInv, Flight!IInv
<1>1. ASSUME NEW r \in Requests, Run(r) PROVE StepInv'
  <2>1. UNCHANGED <<want, registered>>
        /\ \A s \in Requests \ {r} : UNCHANGED RequestOf(s) /\ UNCHANGED FlightOf(s)
    BY <1>1, RunLocal
  <2>2. want[r] \in Slots
        /\ (Looks(r) \/ Enters(r) \/ Picks(r) \/ Loads(r) \/ Releases(r) \/ Returns(r))
    BY <1>1, RunSteps
  <2> SUFFICES ASSUME NEW s \in Requests
               PROVE  /\ step'[s] \in {"none", "lookup", "missed"} => pc'[s] = "idle"
                      /\ step'[s] = "wait" => pc'[s] = "wait"
                      /\ step'[s] \in {"pick", "peer", "getter"} => pc'[s] = "fn"
                      /\ step'[s] = "leave" => pc'[s] \in {"done", "delete"}
                      /\ step'[s] = "returned" => pc'[s] \in {"idle", "returned"}
                      /\ step'[s] # "none" => want'[s] \in Slots
                      /\ pc'[s] # "idle" => key'[s] = want'[s]
                      /\ result'[s] # None => step'[s] \in {"leave", "returned"}
                      /\ step'[s] = "getter" /\ why'[s] = "owner" =>
                            Peer(want'[s]) = want'[s][1]
    BY DEF StepInv, Peer
  <2>3. CASE s # r
    BY <1>0, <2>1, <2>3 DEF StepInv, RequestOf, FlightOf
  <2>4. CASE s = r
    BY <1>0, <2>1, <2>2, <2>4 DEF StepInv, Looks, Enters, Picks, Loads, Releases, Returns, FlightOf
  <2> QED
    BY <2>3, <2>4
<1>2. ASSUME \A r \in Requests : ~Run(r) PROVE StepInv'
  <2>1. UNCHANGED <<pc, key, result>>
    BY <1>2, OtherSteps DEF flightVars
  <2>2. ASSUME NEW r \in Requests, NEW w \in Slots, Begins(r, w), UNCHANGED why PROVE StepInv'
    BY <1>0, <2>1, <2>2 DEF StepInv, TypeOK, Begins, Peer
  <2>3. ASSUME NEW r \in Requests, step[r] = "peer", UNCHANGED want,
               step' = [step EXCEPT ![r] = "getter"], why' = [why EXCEPT ![r] = "peerFailed"]
        PROVE  StepInv'
    BY <1>0, <2>1, <2>3 DEF StepInv, TypeOK, Peer
  <2>4. CASE UNCHANGED <<step, want, why>>
    BY <1>0, <2>1, <2>4 DEF StepInv, Peer
  <2>5. ASSUME NEW r \in Callers, step[r] = "peer"
        PROVE  r \in Requests /\ Child(r) \in Requests /\ Sent(want[r]) \in Slots
    BY <1>0, <2>5, ChildFacts, OwnerFacts DEF StepInv
  <2> QED
    BY <1>2, <2>2, <2>3, <2>4, <2>5, OtherSteps, IssuedFacts
<1> QED
  BY <1>1, <1>2

LEMMA ChildStep == IInv /\ KeysSurvive /\ [Next]_vars => ChildInv'
<1> SUFFICES ASSUME IInv, KeysSurvive, [Next]_vars PROVE ChildInv'
  OBVIOUS
<1>0. TypeOK /\ StepInv /\ ChildInv
  BY DEF IInv
<1>1. ASSUME NEW r \in Requests, Run(r) PROVE ChildInv'
  <2>1. UNCHANGED want /\ \A s \in Requests \ {r} : step'[s] = step[s]
    BY <1>1, RunLocal DEF RequestOf
  <2>2. /\ step[r] # "none" /\ step'[r] # "none"
        /\ step[r] \in {"peer", "getter", "leave", "returned"} =>
              step'[r] \in {"leave", "returned"}
        /\ step'[r] = "peer" => step[r] = "pick"
    BY <1>1, RunSteps DEF Looks, Enters, Picks, Loads, Releases, Returns
  <2> SUFFICES ASSUME NEW s \in Callers
               PROVE  /\ step'[Child(s)] # "none" =>
                            step'[s] \in {"peer", "getter", "leave", "returned"}
                      /\ step'[s] = "peer" /\ step'[Child(s)] # "none" =>
                            want'[Child(s)] = Sent(want'[s])
    BY DEF ChildInv, Sent, Peer
  <2>3. s \in Requests /\ Child(s) \in Requests /\ Child(s) # s
    BY ChildFacts
  <2> QED
    BY <1>0, <2>1, <2>2, <2>3 DEF ChildInv
<1>2. ASSUME \A r \in Requests : ~Run(r) PROVE ChildInv'
  <2>1. ASSUME NEW r \in Requests, NEW w \in Slots, Begins(r, w),
               \A s \in Callers : Child(s) = r => step[s] = "peer" /\ w = Sent(want[s])
        PROVE  ChildInv'
    <3> SUFFICES ASSUME NEW s \in Callers
                 PROVE  /\ step'[Child(s)] # "none" =>
                              step'[s] \in {"peer", "getter", "leave", "returned"}
                        /\ step'[s] = "peer" /\ step'[Child(s)] # "none" =>
                              want'[Child(s)] = Sent(want'[s])
      BY DEF ChildInv, Sent, Peer
    <3>1. s \in Requests /\ Child(s) \in Requests /\ Child(s) # s
      BY ChildFacts
    <3>2. CASE r = s
      <4>1. step[Child(s)] = "none"
        BY <1>0, <2>1, <3>2 DEF ChildInv, Begins
      <4> QED
        BY <1>0, <2>1, <3>1, <3>2, <4>1 DEF Begins, TypeOK
    <3>3. CASE r = Child(s)
      BY <1>0, <2>1, <3>1, <3>3 DEF Begins, TypeOK
    <3>4. CASE r # s /\ r # Child(s)
      BY <1>0, <2>1, <3>1, <3>4 DEF Begins, TypeOK, ChildInv
    <3> QED
      BY <3>2, <3>3, <3>4
  <2>2. ASSUME NEW u \in Users, NEW w \in Slots, Begins(<<u, 0>>, w) PROVE ChildInv'
    BY <2>1, <2>2, IssuedFacts
  <2>3. ASSUME NEW r \in Callers, step[r] = "peer", Begins(Child(r), Sent(want[r]))
        PROVE  ChildInv'
    <3>1. Child(r) \in Requests /\ Sent(want[r]) \in Slots
      BY <1>0, <2>3, ChildFacts, OwnerFacts DEF StepInv
    <3>2. \A s \in Callers : Child(s) = Child(r) => s = r
      BY ChildOnce
    <3> QED
      BY <2>1, <2>3, <3>1, <3>2
  <2>4. ASSUME NEW r \in Callers, step[r] = "peer", UNCHANGED want,
               step' = [step EXCEPT ![r] = "getter"]
        PROVE  ChildInv'
    BY <1>0, <2>4, ChildFacts DEF ChildInv, TypeOK, Sent, Peer
  <2>5. CASE UNCHANGED <<step, want>>
    BY <1>0, <2>5 DEF ChildInv, Sent, Peer
  <2> QED
    BY <1>2, <2>2, <2>3, <2>4, <2>5, OtherSteps
<1> QED
  BY <1>1, <1>2

LEMMA HopStep == IInv /\ KeysSurvive /\ [Next]_vars => HopInv'
<1> SUFFICES ASSUME IInv, KeysSurvive, [Next]_vars PROVE HopInv'
  OBVIOUS
<1>0. TypeOK /\ StepInv /\ HopInv
  BY DEF IInv
<1>1. ASSUME NEW r \in Requests, Run(r) PROVE HopInv'
  <2>1. UNCHANGED want /\ \A s \in Requests \ {r} : step'[s] = step[s]
    BY <1>1, RunLocal DEF RequestOf
  <2>2. /\ step[r] # "none"
        /\ step'[r] = "peer" => r[2] < MaxHops /\ Peer(want[r]) # want[r][1]
    BY <1>1, RunSteps DEF Looks, Enters, Picks, Loads, Releases, Returns
  <2> QED
    BY <1>0, <2>1, <2>2 DEF HopInv, Peer
<1>2. ASSUME \A r \in Requests : ~Run(r) PROVE HopInv'
  <2>1. ASSUME NEW r \in Requests, NEW w \in Slots, Begins(r, w),
               Agreed /\ r[2] > 0 => Peer(w) = w[1]
        PROVE  HopInv'
    <3>1. \A s \in Requests \ {r} : step'[s] = step[s] /\ want'[s] = want[s]
      BY <1>0, <2>1 DEF Begins, TypeOK
    <3>2. step'[r] = "lookup" /\ want'[r] = w
      BY <1>0, <2>1 DEF Begins, TypeOK
    <3> QED
      BY <1>0, <2>1, <3>1, <3>2 DEF HopInv, Peer
  <2>2. ASSUME NEW u \in Users, NEW w \in Slots, Begins(<<u, 0>>, w) PROVE HopInv'
    BY <2>1, <2>2, IssuedFacts
  <2>3. ASSUME NEW r \in Callers, step[r] = "peer", Begins(Child(r), Sent(want[r]))
        PROVE  HopInv'
    <3>1. Child(r) \in Requests /\ want[r] \in Slots
      BY <1>0, <2>3, ChildFacts DEF StepInv
    <3>2. ASSUME Agreed PROVE Peer(Sent(want[r])) = Sent(want[r])[1]
      <4>1. /\ Sent(want[r]) \in Slots /\ Sent(want[r])[1] = Peer(want[r])
            /\ Sent(want[r])[2] = want[r][2] /\ want[r][2] \in Keys
            /\ want[r][1] \in Nodes /\ Peer(want[r]) \in Nodes
        BY <3>1, <3>2, OwnerFacts DEF Agreed, KeysSurvive
      <4> QED
        BY <3>1, <3>2, <4>1, OwnerFacts DEF Agreed
    <3> QED
      BY <2>1, <2>3, <3>1, <3>2, OwnerFacts
  <2>4. ASSUME NEW r \in Callers, step[r] = "peer", UNCHANGED want,
               step' = [step EXCEPT ![r] = "getter"]
        PROVE  HopInv'
    BY <1>0, <2>4, ChildFacts DEF HopInv, TypeOK, Peer
  <2>5. CASE UNCHANGED <<step, want>>
    BY <1>0, <2>5 DEF HopInv, Peer
  <2> QED
    BY <1>2, <2>2, <2>3, <2>4, <2>5, OtherSteps
<1> QED
  BY <1>1, <1>2

LEMMA ContentStep == IInv /\ KeysSurvive /\ [Next]_vars => ContentInv' /\ RightValue'
<1> SUFFICES ASSUME IInv, KeysSurvive, [Next]_vars PROVE ContentInv' /\ RightValue'
  OBVIOUS
<1>0. TypeOK /\ StepInv /\ ContentInv /\ RightValue
  BY DEF IInv
<1>1. \A w \in Slots : cache'[w] # None => w[2] \in Known /\ cache'[w] = w[2]
  <2>1. CASE UNCHANGED cache
    BY <1>0, <2>1 DEF ContentInv
  <2>2. ASSUME NEW r \in Requests, GetLocally(r), ~UNCHANGED cache
        PROVE  \A w \in Slots : cache'[w] # None => w[2] \in Known /\ cache'[w] = w[2]
    <3>1. want[r] \in Slots /\ want[r][2] \in Known
          /\ Put(want[r], Content(want[r][2]))
      BY <1>0, <2>2 DEF GetLocally, StepInv, Cached
    <3>2. Content(want[r][2]) = want[r][2]
      BY <3>1, ContentFacts
    <3> QED
      BY <1>0, <3>1, <3>2 DEF Put, ContentInv
  <2> QED
    BY <2>1, <2>2 DEF Next, Issue, Run, Lookup, Enter, Pick, PeerAnswers, Release, Forget, Wake,
       Arrive, PeerFails, Register, vars
<1>2. ASSUME NEW r \in Requests, Run(r) PROVE ContentInv' /\ RightValue'
  <2>1. UNCHANGED want
        /\ \A s \in Requests \ {r} : /\ step'[s] = step[s] /\ answer'[s] = answer[s]
                                     /\ result'[s] = result[s]
    BY <1>2, RunLocal DEF RequestOf, FlightOf
  <2>2. /\ result'[r] = result[r] \/ result'[r] = Content(want[r][2])
        /\ step'[r] = "returned" => answer'[r] = Content(want[r][2])
    BY <1>2, RunSteps DEF Looks, Enters, Picks, Loads, Releases, Returns, FlightOf
  <2>3. \A s \in Requests : result'[s] # None => result'[s] = Content(want[s][2])
    BY <1>0, <2>1, <2>2 DEF ContentInv
  <2>4. \A s \in Requests : step'[s] = "returned" => answer'[s] = Content(want[s][2])
    BY <1>0, <2>1, <2>2 DEF RightValue
  <2> QED
    BY <1>1, <2>1, <2>3, <2>4 DEF ContentInv, RightValue, Content
<1>3. ASSUME \A r \in Requests : ~Run(r) PROVE ContentInv' /\ RightValue'
  <2>1. UNCHANGED <<answer, result>>
    BY <1>3, OtherSteps DEF flightVars
  <2>2. ASSUME NEW r \in Requests, NEW w \in Slots, Begins(r, w)
        PROVE  ContentInv' /\ RightValue'
    <3>1. /\ \A s \in Requests \ {r} : step'[s] = step[s] /\ want'[s] = want[s]
          /\ step'[r] = "lookup" /\ result[r] = None
      BY <1>0, <2>2 DEF Begins, TypeOK, StepInv
    <3>2. \A s \in Requests : result'[s] # None => result'[s] = Content(want'[s][2])
      BY <1>0, <2>1, <3>1 DEF ContentInv
    <3>3. \A s \in Requests : step'[s] = "returned" => answer'[s] = Content(want'[s][2])
      BY <1>0, <2>1, <3>1 DEF RightValue
    <3> QED
      BY <1>1, <3>2, <3>3 DEF ContentInv, RightValue, Content
  <2>3. ASSUME NEW r \in Callers, step' = [step EXCEPT ![r] = "getter"], UNCHANGED want
        PROVE  ContentInv' /\ RightValue'
    BY <1>0, <1>1, <2>1, <2>3 DEF ContentInv, RightValue, Content, TypeOK
  <2>4. CASE UNCHANGED <<step, want>>
    BY <1>0, <1>1, <2>1, <2>4 DEF ContentInv, RightValue, Content
  <2>5. ASSUME NEW r \in Callers, step[r] = "peer"
        PROVE  Child(r) \in Requests /\ Sent(want[r]) \in Slots
    BY <1>0, <2>5, ChildFacts, OwnerFacts DEF StepInv
  <2> QED
    BY <1>3, <2>2, <2>3, <2>4, <2>5, OtherSteps, IssuedFacts
<1> QED
  BY <1>2, <1>3

------------------------------------------------------------------------------
LEMMA InitInv == Init => IInv
<1> SUFFICES ASSUME Init PROVE IInv
  OBVIOUS
<1>1. Flight!IInv
  BY FlightInit DEF Init
<1>2. \A r \in Requests : pc[r] = "idle" /\ result[r] = None
  BY DEF Init, Flight!Init
<1>3. TypeOK /\ StepInv
  BY <1>2 DEF Init, TypeOK, StepInv
<1>4. ChildInv
  BY ChildFacts DEF Init, ChildInv
<1>5. HopInv /\ ContentInv /\ RightValue
  BY <1>2 DEF Init, HopInv, ContentInv, RightValue
<1> QED
  BY <1>1, <1>3, <1>4, <1>5 DEF IInv

LEMMA StepIInv == IInv /\ KeysSurvive /\ [Next]_vars => IInv'
  BY TypeStep, StepStep, ChildStep, HopStep, ContentStep, GroupFlights, FlightStep DEF IInv

LEMMA InvOneLoader == IInv => OneLoader
<1> SUFFICES ASSUME IInv, Agreed, NEW r \in Requests, NEW s \in Requests,
                    step[r] = "getter", why[r] = "owner", step[s] = "getter", why[s] = "owner",
                    want[r][2] = want[s][2]
             PROVE  r = s
  BY DEF OneLoader
<1>1. /\ want[r] \in Slots /\ want[s] \in Slots
      /\ Peer(want[r]) = want[r][1] /\ Peer(want[s]) = want[s][1]
      /\ pc[r] = "fn" /\ pc[s] = "fn" /\ key[r] = want[r] /\ key[s] = want[s]
  BY DEF IInv, StepInv
<1>2. want[r][1] = want[s][1]
  BY <1>1, OwnerFacts DEF Agreed
<1>3. want[r] = want[s]
  BY <1>1, <1>2 DEF Slots
<1>4. m[key[r]] = r /\ m[key[s]] = s
  BY <1>1 DEF IInv, Flight!IInv, Flight!LeadInv, Flight!Leading
<1> QED
  BY <1>1, <1>3, <1>4

\* What a request waits for in its flight runs, or asks a peer, with the same
\* node and key.
LEMMA FlightRuns ==
    ASSUME IInv, NEW r \in Requests, step[r] = "wait", ~Flight!Ready(r)
    PROVE  /\ flight[r] \in Requests /\ want[flight[r]] = want[r]
           /\ step[flight[r]] \in {"pick", "peer", "getter", "leave"}
<1>1. pc[r] = "wait" /\ key[r] = want[r]
  BY DEF IInv, StepInv
<1>2. /\ flight[r] \in Requests /\ key[flight[r]] = key[r]
      /\ pc[flight[r]] \in {"fn", "done", "delete", "panicked", "returned"}
      /\ pc[flight[r]] = "returned" => flight[flight[r]] \in released
      /\ flight[flight[r]] = flight[r]
  BY <1>1 DEF IInv, Flight!IInv, Flight!ResultInv, Flight!Leading
<1>3. pc[flight[r]] # "returned"
  BY <1>2 DEF Flight!Ready
<1>4. step[flight[r]] \in {"pick", "peer", "getter", "leave"}
  BY <1>2, <1>3 DEF IInv, StepInv, TypeOK
<1> QED
  BY <1>1, <1>2, <1>4 DEF IInv, StepInv

\* A request at the owner of its key waits for a flight that runs, if at all.
LEMMA AtOwner ==
    ASSUME IInv, NEW r \in Requests, step[r] \notin {"none", "returned"},
           Peer(want[r]) = want[r][1]
    PROVE  r \in WaitsOn(Running)
<1>1. \A s \in Requests : Peer(want[s]) = want[s][1] => step[s] # "peer"
  BY DEF IInv, HopInv
<1>2. CASE step[r] = "wait" /\ ~Flight!Ready(r)
  BY <1>1, <1>2, FlightRuns DEF WaitsOn, Running
<1>3. CASE step[r] = "wait" => Flight!Ready(r)
  BY <1>1, <1>3 DEF WaitsOn, Running, IInv, TypeOK
<1> QED
  BY <1>2, <1>3

LEMMA InvNoCircle == IInv => NoCircle
<1> SUFFICES ASSUME IInv, Agreed, NEW r \in Requests, step[r] \notin {"none", "returned"}
             PROVE  r \in WaitsOn(WaitsOn(WaitsOn(Running)))
  BY DEF NoCircle
<1>1. \A q : q \in WaitsOn(Running) => q \in WaitsOn(WaitsOn(Running))
  BY DEF WaitsOn
<1>2. ASSUME NEW s \in Requests, step[s] = "peer" PROVE s \in WaitsOn(WaitsOn(Running))
  <2>1. Child(s) \in Requests /\ Child(s)[2] > 0
    BY <1>2, RequestFacts, ChildFacts DEF IInv, HopInv
  <2>2. CASE step[Child(s)] \in {"none", "returned"}
    BY <1>2, <2>2 DEF WaitsOn, Running
  <2>3. CASE step[Child(s)] \notin {"none", "returned"}
    <3>1. Child(s) \in WaitsOn(Running)
      BY <2>1, <2>3, AtOwner DEF IInv, HopInv
    <3> QED
      BY <1>2, <3>1 DEF WaitsOn
  <2> QED
    BY <2>2, <2>3
<1>3. CASE step[r] = "wait" /\ ~Flight!Ready(r)
  <2>1. flight[r] \in WaitsOn(WaitsOn(Running))
    <3>1. step[flight[r]] \in {"pick", "getter", "leave"} => flight[r] \in WaitsOn(Running)
      BY <1>3, FlightRuns DEF WaitsOn, Running
    <3> QED
      BY <1>1, <1>2, <1>3, <3>1, FlightRuns
  <2> QED
    BY <1>3, <2>1 DEF WaitsOn
<1>4. CASE step[r] = "peer"
  BY <1>2, <1>4 DEF WaitsOn
<1>5. CASE step[r] # "peer" /\ (step[r] = "wait" => Flight!Ready(r))
  BY <1>5 DEF WaitsOn, Running, IInv, TypeOK
<1> QED
  BY <1>3, <1>4, <1>5

\* There is a chain of two only if the one in the middle was not at the owner.
LEMMA HopInit == Init => OneHop
  BY DEF Init, OneHop

LEMMA HopLimit == IInv /\ KeysSurvive /\ OneHop /\ [Next]_vars => OneHop'
<1> SUFFICES ASSUME IInv, KeysSurvive, OneHop, [Next]_vars, Agreed,
                    NEW q \in Requests, q[2] > 1
             PROVE  step'[q] = "none"
  BY DEF OneHop, Agreed, KeysSurvive
<1>0. TypeOK /\ StepInv /\ HopInv /\ step[q] = "none"
  BY DEF IInv, OneHop
<1>1. ASSUME NEW r \in Requests, Run(r) PROVE step'[q] = "none"
  <2>1. q # r
    BY <1>0, <1>1, RunSteps DEF Looks, Enters, Picks, Loads, Releases, Returns
  <2> QED
    BY <1>0, <1>1, <2>1, RunLocal DEF RequestOf
<1>2. ASSUME NEW u \in Users, NEW w \in Slots, Begins(<<u, 0>>, w) PROVE step'[q] = "none"
  <2>1. q # <<u, 0>>
    BY IssuedFacts
  <2> QED
    BY <1>0, <1>2, <2>1 DEF Begins, TypeOK
<1>3. ASSUME NEW r \in Callers, step[r] = "peer", Begins(Child(r), Sent(want[r]))
      PROVE  step'[q] = "none"
  <2>1. r[2] = 0
    BY <1>0, <1>3, ChildFacts DEF HopInv
  <2>2. q # Child(r)
    BY <2>1, ChildFacts
  <2> QED
    BY <1>0, <1>3, <2>2 DEF Begins, TypeOK
<1>4. ASSUME NEW r \in Callers, step[r] = "peer", step' = [step EXCEPT ![r] = "getter"]
      PROVE  step'[q] = "none"
  BY <1>0, <1>4 DEF TypeOK
<1>5. CASE UNCHANGED step
  BY <1>0, <1>5
<1> QED
  BY <1>1, <1>2, <1>3, <1>4, <1>5, OtherSteps

\* The inductive invariant, when keys survive the trip in a URL.
THEOREM Invariance == ASSUME KeysSurvive PROVE Spec => []IInv
<1>1. Init => IInv
  BY InitInv
<1>2. IInv /\ [Next]_vars => IInv'
  BY StepIInv
<1> QED
  BY <1>1, <1>2, PTL DEF Spec

\* Get returns the content of its key, from whichever node or flight it comes
\* (geecache.go:69-113).
THEOREM SpecRightValue == ASSUME KeysSurvive PROVE Spec => []RightValue
<1>1. IInv => RightValue
  BY DEF IInv
<1> QED
  BY <1>1, Invariance, PTL

\* The requests use the flights of each node as the callers of Group.Do, so the
\* group implements SingleFlight with the node and the key for its key
\* (geecache.go:99).
THEOREM GroupImplementsFlights == ASSUME KeysSurvive PROVE Spec => Flight!Spec
<1>1. Init => Flight!Init
  BY DEF Init
<1>2. IInv /\ [Next]_vars => [Flight!Next]_flightVars
  BY GroupFlights
<1>3. IInv /\ [Next]_vars => [Flight!Next]_(Flight!flightVars)
  BY <1>2 DEF flightVars, Flight!flightVars
<1> QED
  BY <1>1, <1>3, Invariance, PTL DEF Spec, Flight!Spec

\* If the nodes agree, only the owner loads a key, once at a time
\* (geecache.go:99).
THEOREM SpecOneLoader == Spec => []OneLoader
<1>1. CASE KeysSurvive
  BY <1>1, InvOneLoader, Invariance, PTL
<1>2. CASE ~KeysSurvive
  <2>1. OneLoader
    BY <1>2 DEF OneLoader, Agreed
  <2> QED
    BY <2>1, PTL
<1> QED
  BY <1>1, <1>2

\* If the nodes agree, requests that wait for each other's flights and peers
\* always come to one that can go on (geecache.go:99, http.go:94): there is no
\* deadlock, for any number of nodes.
THEOREM SpecNoCircle == Spec => []NoCircle
<1>1. CASE KeysSurvive
  BY <1>1, InvNoCircle, Invariance, PTL
<1>2. CASE ~KeysSurvive
  <2>1. NoCircle
    BY <1>2 DEF NoCircle, Agreed
  <2> QED
    BY <2>1, PTL
<1> QED
  BY <1>1, <1>2

\* If the nodes agree, a peer never asks a peer (http.go:88, PickPeer).
THEOREM SpecOneHop == Spec => []OneHop
<1>1. CASE KeysSurvive
  <2>1. Init => OneHop
    BY HopInit
  <2>2. IInv /\ OneHop /\ [Next]_vars => OneHop'
    BY <1>1, HopLimit
  <2> QED
    BY <1>1, <2>1, <2>2, Invariance, PTL DEF Spec
<1>2. CASE ~KeysSurvive
  <2>1. OneHop
    BY <1>2 DEF OneHop, Agreed
  <2> QED
    BY <2>1, PTL
<1> QED
  BY <1>1, <1>2
=============================================================================
