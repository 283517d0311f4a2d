------------------------- MODULE SingleFlightProofs -------------------------
(***************************************************************************)
(* For all callers, keys and results: two executions of fn for one key     *)
(* never overlap, and every caller returns the result of its own flight.   *)
(***************************************************************************)
EXTENDS SingleFlight, TLAPS

LEMMA InitIInv == Init => IInv
  BY DEF Init, IInv, TypeOK, LeadInv, ResultInv, SharedResult, Leading

LEMMA TypeStep == TypeOK /\ [Next]_flightVars => TypeOK'
<1> SUFFICES ASSUME TypeOK, [Next]_flightVars PROVE TypeOK'
  OBVIOUS
<1> USE DEF TypeOK, Leading
<1>1. ASSUME NEW c \in Callers, NEW k \in Keys, Join(c, k) \/ Lead(c, k)
      PROVE  TypeOK'
  BY <1>1 DEF Join, Lead, Goto, Found
<1>2. ASSUME NEW c \in Callers, Fn(c) PROVE TypeOK'
  BY <1>2 DEF Fn, FnReturns, FnPanics, Goto
<1>3. ASSUME NEW c \in Callers, Release(c) PROVE TypeOK'
  BY <1>3 DEF Release, Signal, Goto
<1>4. ASSUME NEW c \in Callers, Forget(c) PROVE TypeOK'
  BY <1>4 DEF Forget, Delete, Goto
<1>5. ASSUME NEW c \in Callers, Wake(c) PROVE TypeOK'
  BY <1>5 DEF Wake, Ready, Goto
<1>6. CASE UNCHANGED flightVars
  BY <1>6 DEF flightVars
<1> QED
  BY <1>1, <1>2, <1>3, <1>4, <1>5, <1>6 DEF Next, Do

LEMMA LeadStep == IInv /\ [Next]_flightVars => LeadInv'
<1> SUFFICES ASSUME IInv, [Next]_flightVars PROVE LeadInv'
  OBVIOUS
<1> USE FlightAssumption DEF IInv, TypeOK, LeadInv, Leading
<1>1. ASSUME NEW c \in Callers, NEW k \in Keys, Join(c, k) PROVE LeadInv'
  BY <1>1 DEF Join, Goto, Found
<1>2. ASSUME NEW c \in Callers, NEW k \in Keys, Lead(c, k) PROVE LeadInv'
  BY <1>2 DEF Lead, Goto, Found
<1>3. ASSUME NEW c \in Callers, Fn(c) PROVE LeadInv'
  BY <1>3 DEF Fn, FnReturns, FnPanics, Goto
<1>4. ASSUME NEW c \in Callers, Release(c) PROVE LeadInv'
  BY <1>4 DEF Release, Signal, Goto
<1>5. ASSUME NEW c \in Callers, Forget(c) PROVE LeadInv'
  BY <1>5 DEF Forget, Delete, Goto
<1>6. ASSUME NEW c \in Callers, Wake(c) PROVE LeadInv'
  BY <1>6 DEF Wake, Ready, Goto
<1>7. CASE UNCHANGED flightVars
  BY <1>7 DEF flightVars
<1> QED
  BY <1>1, <1>2, <1>3, <1>4, <1>5, <1>6, <1>7 DEF Next, Do

LEMMA ResultStep ==
    IInv /\ [Next]_flightVars => ResultInv' /\ SharedResult'
<1> SUFFICES ASSUME IInv, [Next]_flightVars PROVE ResultInv' /\ SharedResult'
  OBVIOUS
<1> USE FlightAssumption DEF IInv, TypeOK, ResultInv, SharedResult, Leading
<1>1. ASSUME NEW c \in Callers, NEW k \in Keys, Join(c, k)
      PROVE  ResultInv' /\ SharedResult'
  <2>1. /\ m[k] \in Callers /\ m[k] # c /\ key[m[k]] = k /\ pc[m[k]] \in Leading
        /\ flight[m[k]] = m[k]
    BY <1>1 DEF Join, Found, LeadInv
  <2>2. /\ flight'[c] = m[k] /\ \A d \in Callers \ {c} : flight'[d] = flight[d]
        /\ key'[c] = k /\ \A d \in Callers \ {c} : key'[d] = key[d]
        /\ pc'[c] = "wait" /\ \A d \in Callers \ {c} : pc'[d] = pc[d]
        /\ pc[c] = "idle" /\ UNCHANGED <<released, result, got>>
    BY <1>1 DEF Join, Goto
  <2>3. \A d \in Callers : pc[d] \in {"wait", "returned"} => flight[d] \in Callers \ {c}
    BY <2>2
  <2> QED
    BY <2>1, <2>2, <2>3
<1>2. ASSUME NEW c \in Callers, NEW k \in Keys, Lead(c, k)
      PROVE  ResultInv' /\ SharedResult'
  <2>1. \A d \in Callers : pc[d] \in {"wait", "returned"} => flight[d] # c
    BY <1>2 DEF Lead, LeadInv
  <2> QED
    BY <1>2, <2>1 DEF Lead, Goto
<1>3. ASSUME NEW c \in Callers, Fn(c) PROVE ResultInv' /\ SharedResult'
  BY <1>3 DEF Fn, FnReturns, FnPanics, Goto
<1>4. ASSUME NEW c \in Callers, Release(c) PROVE ResultInv' /\ SharedResult'
  BY <1>4 DEF Release, Signal, Goto
<1>5. ASSUME NEW c \in Callers, Forget(c) PROVE ResultInv' /\ SharedResult'
  BY <1>5 DEF Forget, Delete, Goto, LeadInv
<1>6. ASSUME NEW c \in Callers, Wake(c) PROVE ResultInv' /\ SharedResult'
  BY <1>6 DEF Wake, Ready, Goto
<1>7. CASE UNCHANGED flightVars
  BY <1>7 DEF flightVars
<1> QED
  BY <1>1, <1>2, <1>3, <1>4, <1>5, <1>6, <1>7 DEF Next, Do

\* The inductive invariant holds in every reachable state (singleFlight.go:19).
THEOREM Invariance == Spec => []IInv
<1>1. IInv /\ [Next]_flightVars => IInv'
  BY TypeStep, LeadStep, ResultStep DEF IInv
<1> QED
  BY InitIInv, <1>1, PTL DEF Spec

\* Executions of fn for one key do not overlap (singleFlight.go:18), because
\* both would be the one call that m names.
THEOREM OneFlightAtATime == Spec => []OneFlight
<1>1. IInv => OneFlight
  BY DEF IInv, LeadInv, OneFlight, Leading
<1> QED
  BY Invariance, <1>1, PTL

\* Every Do returns the result of the fn of its own key (singleFlight.go:27,
\* 41), read after it was written.
THEOREM ResultShared == Spec => []SharedResult
<1>1. IInv => SharedResult
  BY DEF IInv
<1> QED
  BY Invariance, <1>1, PTL
=============================================================================
