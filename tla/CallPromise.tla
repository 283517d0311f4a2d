----------------------------- MODULE CallPromise -----------------------------
(***************************************************************************)
(* What geeRPC promises to the code that issues a call, whatever happens   *)
(* on the connection: the call ends at most once, it ends in success only  *)
(* with the answer to its own request, and once the caller has been told   *)
(* of success nothing touches the answer any more.  An answer may still    *)
(* land in the reply variable of a call its caller has given up.           *)
(***************************************************************************)

CONSTANTS Calls,     \* the calls of the program, one per Go or Call
          NoReply,   \* a reply variable nobody has written yet
          Own(_)     \* Own(c): the answer to the request of call c

VARIABLES outcome,   \* what the caller knows of each call
          reply      \* the reply variable of each call

promiseVars == <<outcome, reply>>

Outcomes == {"idle", "open", "ok", "failed", "abandoned"}

Init == /\ outcome = [c \in Calls |-> "idle"]
        /\ reply = [c \in Calls |-> NoReply]

Move(c, from, to) == /\ outcome[c] = from
                     /\ outcome' = [outcome EXCEPT ![c] = to]
                     /\ UNCHANGED reply

Issue(c) == Move(c, "idle", "open")

Answer(c) == /\ outcome[c] \in {"open", "abandoned"}
             /\ reply' = [reply EXCEPT ![c] = Own(c)]
             /\ UNCHANGED outcome

Succeed(c) == reply[c] = Own(c) /\ Move(c, "open", "ok")

Fail(c) == Move(c, "open", "failed")

Abandon(c) == Move(c, "open", "abandoned")

Next == \E c \in Calls : \/ Issue(c)
                         \/ Answer(c)
                         \/ Succeed(c)
                         \/ Fail(c)
                         \/ Abandon(c)

Spec == Init /\ [][Next]_promiseVars
==============================================================================
