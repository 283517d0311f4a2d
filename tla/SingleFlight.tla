---------------------------- MODULE SingleFlight ----------------------------
(***************************************************************************)
(* Group.Do of geeCache/singleFlight/singleFlight.go: concurrent callers   *)
(* of the same key share one execution of fn.                              *)
(*                                                                         *)
(* A caller is one execution of Do.  A call (the record in Group.m with    *)
(* its WaitGroup and result) is named by the caller that made it.  The     *)
(* critical sections of Group.mu are single steps.                         *)
(***************************************************************************)
EXTENDS Naturals

CONSTANTS Callers,   \* the executions of Do
          Keys,
          Results,   \* what fn may return: values and errors
          None       \* no caller, no key, no result

ASSUME FlightAssumption == None \notin Callers \cup Keys \cup Results

VARIABLES
    m,         \* Group.m: the call in flight of each key
    released,  \* the calls whose WaitGroup is done
    result,    \* val and err of each call
    pc,        \* where each caller is in Do
    key,       \* its argument
    flight,    \* the call it made or found
    got        \* what Do returned

flightVars == <<m, released, result, pc, key, flight, got>>

Init ==
    /\ m = [k \in Keys |-> None]
    /\ released = {}
    /\ result = [c \in Callers |-> None]
    /\ pc = [c \in Callers |-> "idle"]
    /\ key = [c \in Callers |-> None]
    /\ flight = [c \in Callers |-> None]
    /\ got = [c \in Callers |-> None]

------------------------------------------------------------------------------
(* Slips that the properties at the end must catch.                        *)

FoundNever(k) == FALSE                          \* m not looked at
ReadyAtOnce(c) == TRUE                          \* no wg.Wait
SignalNever(c) == UNCHANGED released            \* no wg.Done
DeleteNever(k) == UNCHANGED m                   \* no delete

------------------------------------------------------------------------------
Goto(c, label) == pc' = [pc EXCEPT ![c] = label]

Found(k) == m[k] # None

\* A call for the key is in flight: wait for it.
Join(c, k) ==
    /\ pc[c] = "idle" /\ Found(k)
    /\ key' = [key EXCEPT ![c] = k]
    /\ flight' = [flight EXCEPT ![c] = m[k]]
    /\ Goto(c, "wait")
    /\ UNCHANGED <<m, released, result, got>>

\* There is none: make one, and call fn outside the mutex.
Lead(c, k) ==
    /\ pc[c] = "idle" /\ ~Found(k)
    /\ key' = [key EXCEPT ![c] = k]
    /\ flight' = [flight EXCEPT ![c] = c]
    /\ m' = [m EXCEPT ![k] = c]
    /\ Goto(c, "fn")
    /\ UNCHANGED <<released, result, got>>

FnReturns(c, r) ==
    /\ pc[c] = "fn"
    /\ result' = [result EXCEPT ![c] = r]
    /\ Goto(c, "done")
    /\ UNCHANGED <<m, released, key, flight, got>>

\* A panic of fn leaves Do; nothing in Do is deferred.
FnPanics(c) ==
    /\ pc[c] = "fn"
    /\ Goto(c, "panicked")
    /\ UNCHANGED <<m, released, result, key, flight, got>>

\* c.wg.Done(), delete(g.m, k)
Signal(c) == released' = released \cup {c}
Delete(k) == m' = [m EXCEPT ![k] = None]

Release(c) ==
    /\ pc[c] = "done"
    /\ Signal(c)
    /\ Goto(c, "delete")
    /\ UNCHANGED <<m, result, key, flight, got>>

\* The caller that made the call takes it out of m, and returns.
Forget(c) ==
    /\ pc[c] = "delete"
    /\ Delete(key[c])
    /\ got' = [got EXCEPT ![c] = result[c]]
    /\ Goto(c, "returned")
    /\ UNCHANGED <<released, result, key, flight>>

\* c.wg.Wait() returns.
Ready(c) == flight[c] \in released

Wake(c) ==
    /\ pc[c] = "wait" /\ Ready(c)
    /\ got' = [got EXCEPT ![c] = result[flight[c]]]
    /\ Goto(c, "returned")
    /\ UNCHANGED <<m, released, result, key, flight>>
------------------------------------------------------------------------------
Fn(c) == (\E r \in Results : FnReturns(c, r)) \/ FnPanics(c)

Do(c) == Release(c) \/ Forget(c) \/ Wake(c)

Next == \E c \in Callers :
            \/ \E k \in Keys : Join(c, k) \/ Lead(c, k)
            \/ Fn(c)
            \/ Do(c)

Spec == Init /\ [][Next]_flightVars

\* The goroutines run; fn need not end.
FairSpec == Spec /\ \A c \in Callers : WF_flightVars(Do(c))

\* ... and fn ends, in one way or the other.
FnEndsSpec == FairSpec /\ \A c \in Callers : WF_flightVars(Fn(c))

------------------------------------------------------------------------------
Leading == {"fn", "done", "delete", "panicked"}

TypeOK ==
    /\ m \in [Keys -> Callers \cup {None}]
    /\ released \subseteq Callers
    /\ result \in [Callers -> Results \cup {None}]
    /\ pc \in [Callers -> {"idle", "wait", "returned"} \cup Leading]
    /\ key \in [Callers -> Keys \cup {None}]
    /\ flight \in [Callers -> Callers \cup {None}]
    /\ got \in [Callers -> Results \cup {None}]

\* The caller that leads the flight of a key is the one m names.
LeadInv ==
    /\ \A c \in Callers : pc[c] \in Leading =>
          key[c] \in Keys /\ m[key[c]] = c /\ flight[c] = c
    /\ \A k \in Keys : m[k] # None => pc[m[k]] \in Leading /\ key[m[k]] = k

\* A caller that waits or has returned has a flight of its key, and the
\* result of a flight is there before anybody is woken.
ResultInv ==
    /\ \A c \in Callers : pc[c] \in {"wait", "returned"} =>
          /\ flight[c] \in Callers /\ key[c] \in Keys /\ key[flight[c]] = key[c]
          /\ pc[flight[c]] \in Leading \cup {"returned"}
          /\ flight[flight[c]] = flight[c]
          /\ pc[c] = "returned" => flight[c] \in released
    /\ \A c \in Callers : pc[c] \in {"done", "delete"} => result[c] \in Results
    /\ \A c \in Callers : pc[c] = "delete" => c \in released
    /\ \A c \in Callers : c \in released =>
          pc[c] \in {"delete", "returned"} /\ result[c] \in Results

\* Two executions of fn for one key never overlap (singleFlight.go:18), not
\* even when a flight ends while others join it.
OneFlight == \A c, d \in Callers :
    pc[c] = "fn" /\ pc[d] = "fn" /\ key[c] = key[d] => c = d

\* Every caller returns what fn returned for its own key: nobody reads val and
\* err before they are written.
SharedResult == \A c \in Callers : pc[c] = "returned" =>
    got[c] \in Results /\ got[c] = result[flight[c]] /\ key[flight[c]] = key[c]

IInv == TypeOK /\ LeadInv /\ ResultInv /\ SharedResult

\* A waiter returns, unless the fn it waits for does not: joining a flight
\* between wg.Done and delete is no trap, and a flight that is over is not
\* found any more.
WaiterServed == \A c \in Callers : pc[c] = "wait" ~>
    \/ pc[c] = "returned"
    \/ flight[c] # None /\ pc[flight[c]] \in {"fn", "panicked"}

\* A finished flight does not stay in m.
FlightForgotten == \A k \in Keys : m[k] # None ~>
    m[k] = None \/ pc[m[k]] \in {"fn", "panicked"}

\* "wait until the call of fn has ended, return the value or the error"
\* (singleFlight.go:18).
WaiterReturns == \A c \in Callers : pc[c] = "wait" ~> pc[c] = "returned"
=============================================================================
