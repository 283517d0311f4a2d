------------------------------- MODULE XClient -------------------------------
(***************************************************************************)
(* geeRPC/xclient/xclient.go over the dialling of geeRPC/client.go: calls  *)
(* that share one client per server, a Broadcast to several servers, and   *)
(* Close, at any time and again.                                           *)
(*                                                                         *)
(* A job is one execution of XClient.call: by Call, or by one of the       *)
(* goroutines of a Broadcast.  A client is named by its connection; what   *)
(* goes on in it is RpcClient's matter; here a call of it is answered,     *)
(* fails, or gets no answer.                                               *)
(***************************************************************************)
EXTENDS Naturals, FiniteSets

CONSTANTS Addrs,     \* the servers' addresses
          Callers,   \* the executions of Call
          Conns,     \* connections, each dialled once
          TimeLimit, \* whether opt.ConnectTimeout is set
          None

Jobs == Callers \cup Addrs    \* a Broadcast has a goroutine per server

ASSUME XClientAssumption == None \notin Jobs \cup Conns /\ Callers \cap Addrs = {}

VARIABLES clients,   \* XClient.clients
          xmu,       \* the job that holds XClient.mu
          conn,      \* "new", "open", "lost" (not available) or "closed"
          helper,    \* dialTimeout's goroutine for it: "none", "run" or "stuck"
          job,       \* where each job is
          at,        \* its server
          using,     \* its connection
          told,      \* the servers of the Broadcast
          e,         \* its error: the server, or None
          reply      \* the server whose answer was copied to its reply

connVars == <<clients, conn, helper>>
broadcastVars == <<told, e, reply>>
xVars == <<connVars, xmu, job, at, using, broadcastVars>>

XInit ==
    /\ clients = [s \in Addrs |-> None]
    /\ xmu = None
    /\ conn = [c \in Conns |-> "new"]
    /\ helper = [c \in Conns |-> "none"]
    /\ job = [j \in Jobs |-> "idle"]
    /\ at = [j \in Jobs |-> None]
    /\ using = [j \in Jobs |-> None]
    /\ told = {} /\ e = None /\ reply = None

------------------------------------------------------------------------------
(* Slips that the properties at the end must catch.                        *)

GiveUpOpen(j) == UNCHANGED conn          \* no deferred conn.Close
KeepLock(j) == xmu' = IF job'[j] = "settle" THEN xmu ELSE None
ReplyWanted == TRUE                      \* replyDone := reply != nil

------------------------------------------------------------------------------
Move(j, label) == job' = [job EXCEPT ![j] = label]
Set(c, state) == conn' = [conn EXCEPT ![c] = state]

Unlocks(j) == xmu' = None

\* Call has got a server from the discovery; without one it has ended.
Start(u, s) ==
    /\ job[u] = "idle"
    /\ Move(u, "dial")
    /\ at' = [at EXCEPT ![u] = s]
    /\ UNCHANGED <<connVars, xmu, using, broadcastVars>>

Available(s) == clients[s] # None /\ conn[clients[s]] = "open"

\* dial under XClient.mu: the cached client, or, after the one that is not
\* available has been closed and dropped, a new connection.
Reuse(j) ==
    /\ job[j] = "dial" /\ xmu = None /\ Available(at[j])
    /\ using' = [using EXCEPT ![j] = clients[at[j]]]
    /\ Move(j, "call")
    /\ UNCHANGED <<connVars, xmu, at, broadcastVars>>

Dial(j) ==
    /\ job[j] = "dial" /\ xmu = None /\ ~Available(at[j])
    /\ xmu' = j
    /\ clients' = [clients EXCEPT ![at[j]] = None]
    /\ conn' = [c \in Conns |-> IF c = clients[at[j]] THEN "closed" ELSE conn[c]]
    /\ Move(j, "connect")
    /\ UNCHANGED <<helper, at, using, broadcastVars>>

\* net.DialTimeout, and then a goroutine that makes the client: NewClient sends
\* the option, NewHTTPClient waits for the answer to its CONNECT before.
Connect(j, c) ==
    /\ job[j] = "connect" /\ conn[c] = "new"
    /\ Set(c, "open")
    /\ helper' = [helper EXCEPT ![c] = "run"]
    /\ using' = [using EXCEPT ![j] = c]
    /\ Move(j, "handshake")
    /\ UNCHANGED <<clients, xmu, at, broadcastVars>>

GiveUp(j) == conn' = [c \in Conns |-> IF c = using[j] THEN "closed" ELSE conn[c]]

Fails(j) == /\ using' = [using EXCEPT ![j] = None]
            /\ Move(j, "settle") /\ Unlocks(j)

\* No connection, a wrong address, or an option that cannot be used.
ConnectFails(j) ==
    /\ job[j] = "connect"
    /\ Fails(j)
    /\ UNCHANGED <<connVars, at, broadcastVars>>

\* The goroutine's result comes in time: a client, which is cached, or an error.
Shakes(j) ==
    /\ job[j] = "handshake"
    /\ helper' = [helper EXCEPT ![using[j]] = "none"]
    /\ \/ /\ clients' = [clients EXCEPT ![at[j]] = using[j]]
          /\ Move(j, "call") /\ Unlocks(j)
          /\ UNCHANGED <<conn, using>>
       \/ GiveUp(j) /\ Fails(j) /\ UNCHANGED clients
    /\ UNCHANGED <<at, broadcastVars>>

\* The timeout comes first: the connection is closed by the deferred function,
\* and the goroutine will wait for ever to send its result.
ShakeTimeout(j) ==
    /\ job[j] = "handshake" /\ TimeLimit
    /\ helper' = [helper EXCEPT ![using[j]] = "stuck"]
    /\ GiveUp(j) /\ Fails(j)
    /\ UNCHANGED <<clients, at, broadcastVars>>

\* Client.Call: an answer comes over an open connection; an error comes when
\* the server or the connection fails, or the context is cancelled.
Answered(j) ==
    /\ job[j] = "call" /\ conn[using[j]] = "open"
    /\ Move(j, IF j \in Addrs THEN "good" ELSE "done")
    /\ using' = [using EXCEPT ![j] = None]
    /\ UNCHANGED <<connVars, xmu, at, broadcastVars>>

CallFails(j) ==
    /\ job[j] \in {"call", "unanswered"}
    /\ Move(j, "settle")
    /\ using' = [using EXCEPT ![j] = None]
    /\ UNCHANGED <<connVars, xmu, at, broadcastVars>>

\* No answer will come: a failed Write has dropped the call, or the server has
\* lost the request behind the option.  The call may wait for ever.
NoAnswer(j) ==
    /\ job[j] = "call"
    /\ Move(j, "unanswered")
    /\ UNCHANGED <<connVars, xmu, at, using, broadcastVars>>

Lose(c) ==
    /\ conn[c] = "open"
    /\ Set(c, "lost")
    /\ UNCHANGED <<clients, helper, xmu, job, at, using, broadcastVars>>

\* XClient.Close
Close ==
    /\ xmu = None
    /\ conn' = [c \in Conns |-> IF \E s \in Addrs : clients[s] = c
                                THEN "closed" ELSE conn[c]]
    /\ clients' = [s \in Addrs |-> None]
    /\ UNCHANGED <<helper, xmu, job, at, using, broadcastVars>>

------------------------------------------------------------------------------
\* Broadcast to the servers that GetAll has returned.
Broadcast(S) ==
    /\ told = {} /\ told' = S
    /\ job' = [j \in Jobs |-> IF j \in S THEN "dial" ELSE job[j]]
    /\ at' = [j \in Jobs |-> IF j \in S THEN j ELSE at[j]]
    /\ UNCHANGED <<connVars, xmu, using, e, reply>>

ReplyDone == reply # None

\* The context of a goroutine: cancel is called with the first error.
Cancelled(j) == j \in Addrs /\ e # None

\* The end of a goroutine, under the local mutex; an error cancels the others.
Succeeded(s) ==
    /\ job[s] = "good"
    /\ reply' = IF ReplyDone THEN reply ELSE s
    /\ Move(s, "done")
    /\ UNCHANGED <<connVars, xmu, at, using, told, e>>

Settle(j) ==
    /\ job[j] = "settle"
    /\ e' = IF j \in Addrs /\ e = None THEN j ELSE e
    /\ Move(j, "failed")
    /\ UNCHANGED <<connVars, xmu, at, using, told, reply>>

Work(j) ==
    \/ Reuse(j) \/ Dial(j) \/ (\E c \in Conns : Connect(j, c))
    \/ ConnectFails(j) \/ Shakes(j) \/ ShakeTimeout(j)
    \/ Answered(j) \/ NoAnswer(j) \/ CallFails(j) \/ Settle(j)

XNext ==
    \/ \E u \in Callers, s \in Addrs : Start(u, s)
    \/ \E S \in SUBSET Addrs \ {{}} : Broadcast(S)
    \/ \E j \in Jobs : Work(j)
    \/ \E s \in Addrs : Succeeded(s)
    \/ \E c \in Conns : Lose(c)
    \/ Close

\* The mutex is fair to those who wait for it; connecting ends; the handshake
\* ends by its timeout at the latest.  A call is answered, fails or is one that
\* gets no answer, which need not end: of those only a call of a Broadcast with
\* an error does, whose context is cancelled.
XFairness ==
    \A j \in Jobs :
        /\ SF_xVars(Reuse(j) \/ Dial(j))
        /\ WF_xVars(ConnectFails(j) \/ \E c \in Conns : Connect(j, c))
        /\ WF_xVars(Shakes(j) \/ ShakeTimeout(j))
        /\ WF_xVars(Answered(j) \/ NoAnswer(j) \/ CallFails(j))
        /\ WF_xVars(Cancelled(j) /\ CallFails(j))
        /\ WF_xVars(Settle(j)) /\ WF_xVars(j \in Addrs /\ Succeeded(j))

XSpec == XInit /\ [][XNext]_xVars /\ XFairness

------------------------------------------------------------------------------
XTypeOK ==
    /\ clients \in [Addrs -> Conns \cup {None}]
    /\ xmu \in Jobs \cup {None}
    /\ conn \in [Conns -> {"new", "open", "lost", "closed"}]
    /\ helper \in [Conns -> {"none", "run", "stuck"}]
    /\ job \in [Jobs -> {"idle", "dial", "connect", "handshake", "call",
                         "unanswered", "good", "settle", "done", "failed"}]
    /\ at \in [Jobs -> Addrs \cup {None}]
    /\ using \in [Jobs -> Conns \cup {None}]
    /\ told \subseteq Addrs
    /\ e \in Addrs \cup {None} /\ reply \in Addrs \cup {None}

\* The one job that has a connection which is not cached yet.
Dialling(c) == \E j \in Jobs : /\ xmu = j /\ job[j] = "handshake"
                               /\ using[j] = c

\* No connection is left open where nobody will close it: it is cached, for
\* one server, or its job is in the handshake and holds the mutex.  So Close
\* closes everything that is not being dialled, and a server never has two.
NoLeak ==
    /\ XTypeOK
    /\ \A c \in Conns : conn[c] \in {"open", "lost"} =>
           Dialling(c) \/ \E s \in Addrs : clients[s] = c

\* A Broadcast that has returned reports an error exactly when a call of it
\* failed, and has an answer, of a server that did answer, when none failed.
BroadcastTruth ==
    (told # {} /\ \A s \in told : job[s] \in {"done", "failed"}) =>
        /\ e # None <=> \E s \in told : job[s] = "failed"
        /\ e = None => reply # None
        /\ reply # None => reply \in told /\ job[reply] = "done"

\* Whatever holds the mutex meanwhile, dialling ends: a call of an XClient fails,
\* or it reaches the server, and then it has ended unless no answer comes.  A
\* Broadcast with an error returns also if one of its calls gets no answer.
CallsEnd ==
    /\ \A j \in Jobs :
          job[j] = "dial" ~> job[j] \in {"unanswered", "done", "failed"}
    /\ e # None ~> \A s \in told : job[s] \in {"done", "failed"}
=============================================================================
