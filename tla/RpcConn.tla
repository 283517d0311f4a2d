------------------------------- MODULE RpcConn -------------------------------
(***************************************************************************)
(* Client and server of geeRPC over one connection: what RpcClient writes  *)
(* is the stream that RpcServer reads, and the responses that RpcServer    *)
(* writes are what the receive goroutine of RpcClient reads, in order.     *)
(* Either end, and the network, may end the connection for both.           *)
(***************************************************************************)
EXTENDS RpcClient, FiniteSets

CONSTANTS Unknown,   \* the calls whose method the server does not know
          NoRequest

ASSUME ConnAssumption ==
    IsFiniteSet(Calls) /\ Unknown \subseteq Calls /\ NoRequest \notin Calls

VARIABLES
    \* the state of RpcServer, its mutex under a name of its own
    in, sentReqs, hungUp, overread, loop, req, wg, handler, method, failed,
    responding, phase, out,
    \* the parts of out that receive has read
    read

S == INSTANCE RpcServer WITH Requests <- Calls, sending <- responding

clientEnd == vars
serverLoop == <<overread, loop, req, wg, handler, method, failed, responding,
                phase, out>>
serverEnd == <<in, sentReqs, hungUp, serverLoop>>
connectionVars == <<clientEnd, serverEnd, read>>

ConnInit == Init /\ S!Init /\ read = 0

------------------------------------------------------------------------------
ServerIdle == UNCHANGED <<serverEnd, read>>
ClientIdle == UNCHANGED <<seq, pending, closing, shutdown, sending, mu, header,
                          callVars, recvVars, wire, crashed, read>>

\* What is written on a connection that is gone reaches nobody.
Transmit(c) == IF hungUp = "no" THEN S!ClientSends(c) ELSE UNCHANGED serverEnd

\* Without the body, which could not be encoded.
TransmitHeader(c) ==
    /\ in' = Append(in, S!Part("header", c))
    /\ sentReqs' = sentReqs \cup {c}
    /\ UNCHANGED <<hungUp, serverLoop>>

HangUp == IF hungUp = "no" THEN S!PeerLeaves ELSE UNCHANGED serverEnd

Sends(c) ==
    \/ (\/ RegisterCall(c) \/ RejectCall(c) \/ SetHeader(c) \/ WriteError(c)
        \/ FailSend(c)) /\ ServerIdle
    \/ WriteOk(c) /\ Transmit(c) /\ UNCHANGED read
    \/ WriteBadArgs(c) /\ TransmitHeader(c) /\ UNCHANGED read
    \/ CloseOnError(c) /\ HangUp /\ UNCHANGED read

------------------------------------------------------------------------------
Arrived(part) == read < Len(out) /\ out[read + 1].part = part

ReceiveHeader ==
    /\ Arrived("header")
    /\ ReadHeader
    /\ rhdr'.args = out[read + 1].req
    /\ rhdr'.error = IF out[read + 1].error THEN "remote" ELSE "none"
    /\ read' = read + 1
    /\ UNCHANGED serverEnd

\* The body comes, is cut off by the end of the connection, or is waited for.
ReceiveBody ==
    /\ ReadBody
    /\ IF Arrived("body") THEN read' = read + 1
                          ELSE ~connUp /\ rfail' /\ UNCHANGED read
    /\ UNCHANGED serverEnd

Receives ==
    \/ ReceiveHeader \/ ReceiveBody
    \/ (\/ ReadHeaderFails \/ Dispatch \/ Notify \/ Terminate \/ TerminateCall
        \/ TerminateEnd) /\ ServerIdle

------------------------------------------------------------------------------
\* Every step of the server; the one that ends the connection ends it for the
\* client.
ClientSees == connUp' = (connUp /\ hungUp' = "no")

ServerSteps ==
    /\ \/ S!Loop
       \/ \E r \in Calls : S!Handle(r) \/ S!MethodReturns(r)
       \/ \E w \in S!Writers : S!Respond(w)
    /\ ClientSees /\ ClientIdle

\* A nil call ends the process only after its Write has failed: nothing of the
\* connection is left then.
ClientSteps ==
    /\ ~crashed
    /\ \/ \E c \in Calls : \/ Sends(c)
                           \/ (Go(c) \/ Return(c) \/ Timeout(c)) /\ ServerIdle
       \/ Drain /\ ServerIdle
       \/ (Close \/ ConnLost) /\ HangUp /\ UNCHANGED read
       \/ Receives

ConnNext == ClientSteps \/ ServerSteps

\* The goroutines of both ends run, and the timers of the server fire.  That
\* the server answers is not assumed, nor that a deadline of the client passes.
ConnFairness ==
    /\ \A c \in Calls : /\ WF_connectionVars(~crashed /\ Sends(c))
                        /\ WF_connectionVars(~crashed /\ Return(c) /\ ServerIdle)
                        /\ WF_connectionVars(S!Handle(c) /\ ClientIdle /\ ClientSees)
    /\ WF_connectionVars(~crashed /\ Drain /\ ServerIdle)
    /\ WF_connectionVars(~crashed /\ Receives)
    /\ WF_connectionVars(S!Loop /\ ClientIdle /\ ClientSees)
    /\ \A w \in S!Writers :
          WF_connectionVars(S!Respond(w) /\ ClientIdle /\ ClientSees)

ConnSpec == ConnInit /\ [][ConnNext]_connectionVars /\ ConnFairness

------------------------------------------------------------------------------
\* The server is the environment that RpcClient takes it for: each response on
\* its way answers a request that the client has written whole, or with an
\* error one that it has not, and to which it has read no answer; and the body
\* that receive reads next is that of the header it has read.  Both ends keep
\* their invariants.
Outstanding ==
    /\ IInv /\ S!IInv
    /\ \A k \in read + 1 .. Len(out) : out[k].part = "header" =>
          \E m \in wire : m.args = out[k].req /\ (m.whole \/ out[k].error)
    /\ rpc \in {"dispatch", "body"} => out[read].req = rhdr.args
    /\ rpc \in {"dispatch", "body"} /\ read < Len(out) =>
          out[read + 1] = [out[read] EXCEPT !.part = "body"]

\* What a caller is told is true of the server, with a timer at each end: a
\* call that succeeded was run to its end and not given up by its handler, and
\* one that the client refused was never run.
ToldTruth == \A c \in Calls :
    /\ ret[c] = "ok" => /\ handler[c] \in {"waitSent", "done"}
                        /\ method[c] \in {"respond", "sent", "done"}
    /\ error[c] = "shutdown" => method[c] = "none"

\* The decoder of the option took c's bytes, and nothing has come behind them:
\* the server would take that for garbage and end the connection.
Swallowed(c) ==
    overread /\ c \in sentReqs /\ in = << >> /\ loop = "header" /\ pc[c] = "wait"

\* Without any help of a deadline, a call ends by the server's answer, by the
\* timer of its handler or with the connection, whatever its method does, also
\* if the decoder of the option took other requests.  But for a failed Write
\* (see CallEnds), only a call that is swallowed, and stays the last one, waits
\* for ever.
AnsweredOrOver == \A c \in Calls : pc[c] = "send" ~>
    pc[c] = "returned" \/ Lost(c) \/ crashed \/ []Swallowed(c)
=============================================================================
