---------------------------- MODULE RpcConnProofs ----------------------------
(***************************************************************************)
(* Proofs about RpcConn, for any finite set of calls.  What the client     *)
(* does on the connection is a step of RpcClient and what the server does  *)
(* is one of RpcServer, so both keep their invariants; ConnInv says how    *)
(* the two states belong together.                                         *)
(***************************************************************************)
EXTENDS RpcConn, RpcClientProofs

Sub == INSTANCE RpcServerProofs WITH Requests <- Calls, sending <- responding

------------------------------------------------------------------------------
(* The server of the connection is the one of RpcServerProofs.             *)

LEMMA SameStep == [Sub!Next]_(Sub!vars) <=> [S!Next]_(S!vars)
  BY DEF Sub!Next, S!Next, Sub!vars, S!vars, Sub!Writers, S!Writers,
     Sub!NoWriter, S!NoWriter, Sub!connVars, S!connVars, Sub!loopVars,
     S!loopVars, Sub!handlerVars, S!handlerVars, Sub!sendVars, S!sendVars,
     Sub!Part, S!Part, Sub!Client, S!Client, Sub!ClientSends, S!ClientSends,
     Sub!ClientSendsHeader, S!ClientSendsHeader, Sub!PeerLeaves, S!PeerLeaves,
     Sub!Loop, S!Loop, Sub!ReadOption, S!ReadOption, Sub!RefuseOption,
     S!RefuseOption, Sub!ReadHeader, S!ReadHeader, Sub!ReadHeaderFails,
     S!ReadHeaderFails, Sub!Undecodable, S!Undecodable, Sub!Refuse, S!Refuse,
     Sub!Accept, S!Accept, Sub!ReadBody, S!ReadBody, Sub!ReadBodyFails,
     S!ReadBodyFails, Sub!AllHandled, S!AllHandled, Sub!Close, S!Close,
     Sub!Handle, S!Handle, Sub!MethodReturns, S!MethodReturns, Sub!Called,
     S!Called, Sub!TakesCalled, S!TakesCalled, Sub!HandleTimeout,
     S!HandleTimeout, Sub!Expire, S!Expire, Sub!Sent, S!Sent, Sub!WgDone,
     S!WgDone, Sub!Respond, S!Respond, Sub!Lock, S!Lock, Sub!Wants, S!Wants,
     Sub!MutexFree, S!MutexFree, Sub!Unlock, S!Unlock, Sub!WriteHeader,
     S!WriteHeader, Sub!WriteBody, S!WriteBody, Sub!WriteFails, S!WriteFails,
     Sub!Deliver, S!Deliver, Sub!Responded, S!Responded

LEMMA SameInit == Sub!Init <=> S!Init
  BY DEF Sub!Init, S!Init, Sub!NoWriter, S!NoWriter, Sub!Writers, S!Writers

LEMMA SameInv ==
    /\ Sub!TypeOK <=> S!TypeOK
    /\ Sub!MutexInv <=> S!MutexInv
    /\ Sub!HandlerInv <=> S!HandlerInv
    /\ Sub!WgInv <=> S!WgInv
    /\ Sub!StreamInv <=> S!StreamInv
    /\ Sub!FreshInv <=> S!FreshInv
    /\ Sub!TailInv <=> S!TailInv
    /\ Sub!OneResponse <=> S!OneResponse
    /\ Sub!Framed <=> S!Framed
    /\ Sub!Truthful <=> S!Truthful
<1>1. Sub!TypeOK <=> S!TypeOK
  BY DEF Sub!TypeOK, S!TypeOK, Sub!Writers, S!Writers, Sub!NoWriter, S!NoWriter
<1>2. Sub!MutexInv <=> S!MutexInv
  BY DEF Sub!MutexInv, S!MutexInv, Sub!Writers, S!Writers, Sub!Wants, S!Wants
<1>3. Sub!HandlerInv <=> S!HandlerInv
  BY DEF Sub!HandlerInv, S!HandlerInv
<1>4. Sub!WgInv <=> S!WgInv
  BY DEF Sub!WgInv, S!WgInv, Sub!Handling, S!Handling,
     Sub!Cardinality, S!Cardinality, Sub!IsFiniteSet, S!IsFiniteSet
<1>5. Sub!StreamInv <=> S!StreamInv
  BY DEF Sub!StreamInv, S!StreamInv
<1>6. Sub!FreshInv <=> S!FreshInv
  BY DEF Sub!FreshInv, S!FreshInv, Sub!Unanswered, S!Unanswered, Sub!Writers, S!Writers, Sub!Part, S!Part
<1>7. Sub!TailInv <=> S!TailInv
  BY DEF Sub!TailInv, S!TailInv, Sub!Writers, S!Writers
<1>8. Sub!OneResponse <=> S!OneResponse
  BY DEF Sub!OneResponse, S!OneResponse
<1>9. Sub!Framed <=> S!Framed
  BY DEF Sub!Framed, S!Framed
<1>10. Sub!Truthful <=> S!Truthful
  BY DEF Sub!Truthful, S!Truthful
<1> QED
  BY <1>1, <1>2, <1>3, <1>4, <1>5, <1>6, <1>7, <1>8, <1>9, <1>10

LEMMA SameInvPrimed ==
    /\ Sub!TypeOK' <=> S!TypeOK'
    /\ Sub!MutexInv' <=> S!MutexInv'
    /\ Sub!HandlerInv' <=> S!HandlerInv'
    /\ Sub!WgInv' <=> S!WgInv'
    /\ Sub!StreamInv' <=> S!StreamInv'
    /\ Sub!FreshInv' <=> S!FreshInv'
    /\ Sub!TailInv' <=> S!TailInv'
    /\ Sub!OneResponse' <=> S!OneResponse'
    /\ Sub!Framed' <=> S!Framed'
    /\ Sub!Truthful' <=> S!Truthful'
<1>1. Sub!TypeOK' <=> S!TypeOK'
  BY DEF Sub!TypeOK, S!TypeOK, Sub!Writers, S!Writers, Sub!NoWriter, S!NoWriter
<1>2. Sub!MutexInv' <=> S!MutexInv'
  BY DEF Sub!MutexInv, S!MutexInv, Sub!Writers, S!Writers, Sub!Wants, S!Wants
<1>3. Sub!HandlerInv' <=> S!HandlerInv'
  BY DEF Sub!HandlerInv, S!HandlerInv
<1>4. Sub!WgInv' <=> S!WgInv'
  BY DEF Sub!WgInv, S!WgInv, Sub!Handling, S!Handling,
     Sub!Cardinality, S!Cardinality, Sub!IsFiniteSet, S!IsFiniteSet
<1>5. Sub!StreamInv' <=> S!StreamInv'
  BY DEF Sub!StreamInv, S!StreamInv
<1>6. Sub!FreshInv' <=> S!FreshInv'
  BY DEF Sub!FreshInv, S!FreshInv, Sub!Unanswered, S!Unanswered, Sub!Writers, S!Writers, Sub!Part, S!Part
<1>7. Sub!TailInv' <=> S!TailInv'
  BY DEF Sub!TailInv, S!TailInv, Sub!Writers, S!Writers
<1>8. Sub!OneResponse' <=> S!OneResponse'
  BY DEF Sub!OneResponse, S!OneResponse
<1>9. Sub!Framed' <=> S!Framed'
  BY DEF Sub!Framed, S!Framed
<1>10. Sub!Truthful' <=> S!Truthful'
  BY DEF Sub!Truthful, S!Truthful
<1> QED
  BY <1>1, <1>2, <1>3, <1>4, <1>5, <1>6, <1>7, <1>8, <1>9, <1>10

LEMMA FiniteCalls ==
    Sub!IsFiniteSet(Calls) /\ Unknown \subseteq Calls /\ NoRequest \notin Calls
  BY ConnAssumption DEF IsFiniteSet, Sub!IsFiniteSet

LEMMA ServerInit == S!Init => S!IInv
<1>1. Sub!Init => Sub!IInv
  BY FiniteCalls, Sub!InitInv
<1> QED
  BY <1>1, SameInit, SameInv DEF Sub!IInv, S!IInv

\* A step of the server keeps the invariant of RpcServer.
LEMMA ServerStep == S!IInv /\ [S!Next]_(S!vars) => S!IInv'
<1> SUFFICES ASSUME S!IInv, [S!Next]_(S!vars) PROVE S!IInv'
  OBVIOUS
<1>1. Sub!IInv
  BY SameInv DEF Sub!IInv, S!IInv
<1>2. [Sub!Next]_(Sub!vars)
  BY SameStep
<1>3. Sub!IInv'
  BY <1>1, <1>2, FiniteCalls, Sub!StepInv
<1> QED
  BY <1>3, SameInvPrimed DEF Sub!IInv, S!IInv

------------------------------------------------------------------------------
(* How the two ends belong together.                                       *)

\* The method of the call has returned, and its handler has taken that.
Ran(c) == method[c] \in {"respond", "sent", "done"}

\* Both ends know when the connection is gone; a Write that fails and the nil
\* dereference behind it come after that.
EndsInv ==
    /\ connUp <=> hungUp = "no"
    /\ crashed => ~connUp
    /\ \A c \in Calls : pc[c] = "failed" => ~connUp

\* A request is sent by the Write of its call, which a refused call never has.
SentInv == \A c \in Calls :
    /\ pc[c] \in {"idle", "send", "reject", "header", "write"} => c \notin sentReqs
    /\ error[c] = "shutdown" =>
          pc[c] \in {"reject", "wait", "returned"} /\ c \notin sentReqs

\* The header that receive works on is the part of the responses it read last.
ReadInv ==
    /\ read \in 0 .. Len(out)
    /\ rpc \in {"dispatch", "body"} =>
          read > 0 /\ out[read].part = "header" /\ out[read].req = rhdr.args

HasRead(c) == \E k \in 1 .. read : out[k].part = "header" /\ out[k].req = c

\* The client waits for the answer to every request until it has read one.
HeldInv == \A c \in sentReqs : HasRead(c) \/ \E m \in wire : m.args = c

\* A header without a body is the end of the stream: its call keeps
\* client.sending until it has closed the connection.
HalfInv == \A m \in wire : ~m.whole =>
    /\ handler[m.args] = "none"
    /\ connUp => pc[m.args] = "abort"
    /\ \A i \in 1 .. Len(in) : in[i].req = m.args => i = Len(in)
    /\ loop = "body" /\ req = m.args => in = << >>

\* An answer without an error, on its way to a reply variable or in it, is that
\* of a method that has run.
RanInv ==
    /\ rpc \in {"dispatch", "body", "notify"} /\ rhdr.error = "none" => Ran(rhdr.args)
    /\ \A c \in Calls : reply[c] # NoReply => Ran(c)

ConnInv == /\ IInv /\ S!IInv
           /\ EndsInv /\ SentInv /\ ReadInv /\ HeldInv /\ HalfInv /\ RanInv

------------------------------------------------------------------------------
(* What the steps of the connection are to its two ends.                   *)

\* Steps of the client that write nothing and do not touch the connection.
Local ==
    /\ \/ \E c \in Calls : \/ RegisterCall(c) \/ RejectCall(c) \/ SetHeader(c)
                           \/ WriteError(c) \/ FailSend(c) \/ Go(c)
                           \/ Return(c) \/ Timeout(c)
       \/ Drain \/ ReadHeaderFails \/ Dispatch \/ Notify \/ Terminate
       \/ TerminateCall \/ TerminateEnd
    /\ ServerIdle

SendsWhole(c) == WriteOk(c) /\ Transmit(c) /\ UNCHANGED read
SendsHalf(c) == WriteBadArgs(c) /\ TransmitHeader(c) /\ UNCHANGED read

Leaves == /\ (\E c \in Calls : CloseOnError(c)) \/ Close \/ ConnLost
          /\ HangUp /\ UNCHANGED read

LEMMA StepKinds ==
    ConnNext => \/ ServerSteps
                \/ ~crashed /\ (\/ Local \/ Leaves \/ ReceiveHeader \/ ReceiveBody
                                \/ \E c \in Calls : SendsWhole(c) \/ SendsHalf(c))
  BY DEF ConnNext, ClientSteps, Sends, Receives, Local, Leaves, SendsWhole,
     SendsHalf

LEMMA ClientStep == IInv /\ EndsInv /\ [ConnNext]_connectionVars => [Next]_vars
<1> SUFFICES ASSUME IInv, EndsInv, ConnNext PROVE [Next]_vars
  BY DEF connectionVars, clientEnd
<1>1. CASE ServerSteps
  <2>1. connUp' = connUp \/ (connUp /\ connUp' = FALSE)
    BY <1>1 DEF ServerSteps, ClientSees, IInv, TypeOK, ConnType
  <2>2. UNCHANGED <<seq, pending, closing, shutdown, sending, mu, header,
                    callVars, recvVars, wire, crashed>>
    BY <1>1 DEF ServerSteps, ClientIdle
  <2>3. CASE connUp' = connUp
    BY <2>2, <2>3 DEF vars, clientVars
  <2>4. CASE connUp /\ connUp' = FALSE
    <3>1. ConnLost
      BY <2>2, <2>4 DEF ConnLost, clientVars
    <3>2. ~crashed
      BY <2>4 DEF EndsInv
    <3> QED
      BY <3>1, <3>2 DEF Next
  <2> QED
    BY <2>1, <2>3, <2>4
<1>2. CASE ~crashed /\ (Local \/ Leaves \/ ReceiveHeader \/ ReceiveBody)
  BY <1>2 DEF Local, Leaves, ReceiveHeader, ReceiveBody, Next, Send, Receive
<1>3. CASE ~crashed /\ \E c \in Calls : SendsWhole(c) \/ SendsHalf(c)
  BY <1>3 DEF SendsWhole, SendsHalf, Next, Send
<1> QED
  BY <1>1, <1>2, <1>3, StepKinds

LEMMA ServerEndStep ==
    ASSUME S!IInv, EndsInv, SentInv, [ConnNext]_connectionVars
    PROVE  S!IInv'
<1>1. CASE UNCHANGED serverEnd
  <2>1. [S!Next]_(S!vars)
    BY <1>1 DEF serverEnd, serverLoop, S!vars
  <2> QED
    BY <2>1, ServerStep
<1>2. CASE ServerSteps
  <2>1. S!Next
    BY <1>2 DEF ServerSteps, S!Next
  <2> QED
    BY <2>1, ServerStep
<1>3. ASSUME NEW c \in Calls, SendsWhole(c) PROVE S!IInv'
  <2>1. CASE S!ClientSends(c)
    <3>1. S!Next
      BY <2>1 DEF S!Next, S!Client
    <3> QED
      BY <3>1, ServerStep
  <2> QED
    BY <1>1, <1>3, <2>1 DEF SendsWhole, Transmit
<1>4. ASSUME NEW c \in Calls, SendsHalf(c) PROVE S!IInv'
  <2>1. /\ c \notin sentReqs /\ sentReqs' = sentReqs \cup {c}
        /\ in' = Append(in, Sub!Part("header", c))
        /\ UNCHANGED <<hungUp, serverLoop>>
    BY <1>4 DEF SendsHalf, TransmitHeader, WriteBadArgs, SentInv, S!Part, Sub!Part
  <2>2. UNCHANGED <<hungUp, overread, Sub!loopVars, Sub!handlerVars, Sub!sendVars>>
    BY <2>1 DEF serverLoop, Sub!loopVars, Sub!handlerVars, Sub!sendVars
  <2>3. Sub!IInv
    BY SameInv DEF Sub!IInv, S!IInv
  <2>4. Sub!IInv'
    BY <2>1, <2>2, <2>3, FiniteCalls, Sub!HeaderStep
  <2> QED
    BY <2>4, SameInvPrimed DEF Sub!IInv, S!IInv
<1>5. CASE Leaves
  <2>1. CASE S!PeerLeaves
    <3>1. S!Next
      BY <2>1 DEF S!Next, S!Client
    <3> QED
      BY <3>1, ServerStep
  <2> QED
    BY <1>1, <1>5, <2>1 DEF Leaves, HangUp
<1>6. CASE Local \/ ReceiveHeader \/ ReceiveBody
  BY <1>1, <1>6 DEF Local, ServerIdle, ReceiveHeader, ReceiveBody
<1> QED
  BY <1>1, <1>2, <1>3, <1>4, <1>5, <1>6, StepKinds DEF connectionVars

LEMMA ClientEndStep ==
    ASSUME IInv, EndsInv, [ConnNext]_connectionVars PROVE IInv'
  BY ClientStep, StepInv

\* What the connection relies on when the server steps: responses are only
\* appended, and a method that has run stays so.
LEMMA ServerMoves ==
    ASSUME S!IInv, ServerSteps
    PROVE  /\ UNCHANGED <<seq, pending, closing, shutdown, sending, mu, header,
                          pc, seqno, error, reply, ret, ndone, chan, rpc, rhdr,
                          rcall, rfail, toNotify, wire, crashed, read, sentReqs>>
           /\ connUp' = (connUp /\ hungUp' = "no")
           /\ hungUp' = "no" => hungUp = "no"
           /\ out' = out \/ \E e \in [part : {"header", "body"}, req : Calls,
                                      error : BOOLEAN] : out' = Append(out, e)
           /\ \A c \in Calls : Ran(c) => Ran(c)'
<1>0. S!TypeOK /\ S!MutexInv /\ S!HandlerInv /\ S!StreamInv
  BY DEF S!IInv
<1>1. /\ UNCHANGED <<seq, pending, closing, shutdown, sending, mu, header,
                     pc, seqno, error, reply, ret, ndone, chan, rpc, rhdr,
                     rcall, rfail, toNotify, wire, crashed, read>>
      /\ connUp' = (connUp /\ hungUp' = "no")
  BY DEF ServerSteps, ClientIdle, ClientSees, callVars, recvVars
<1>2. CASE S!Loop
  <2>1. UNCHANGED <<sentReqs, out>> /\ (hungUp' = "no" => hungUp = "no")
    BY <1>2 DEF S!Loop, S!ReadOption, S!RefuseOption, S!ReadHeader,
       S!ReadHeaderFails, S!ReadBody, S!ReadBodyFails, S!Close, S!connVars,
       S!sendVars
  <2>2. method' = method \/ (/\ loop = "body"
                             /\ method' = [method EXCEPT ![req] = "calling"])
    BY <1>2 DEF S!Loop, S!ReadOption, S!RefuseOption, S!ReadHeader,
       S!ReadHeaderFails, S!ReadBody, S!ReadBodyFails, S!Close, S!Accept,
       S!Refuse, S!handlerVars
  <2>3. loop = "body" => ~Ran(req)
    BY <1>0 DEF S!StreamInv, S!HandlerInv, S!TypeOK, Ran
  <2>4. \A c \in Calls : Ran(c) => Ran(c)'
    BY <1>0, <2>2, <2>3 DEF S!TypeOK, Ran
  <2> QED
    BY <1>1, <2>1, <2>4
<1>3. ASSUME NEW r \in Calls, S!Handle(r) \/ S!MethodReturns(r)
      PROVE  /\ UNCHANGED <<sentReqs, hungUp, out>>
             /\ \A c \in Calls : Ran(c) => Ran(c)'
  BY <1>0, <1>3 DEF S!TypeOK, Ran, S!Handle, S!MethodReturns, S!Called,
     S!HandleTimeout, S!Sent, S!connVars, S!sendVars
<1>4. ASSUME NEW w \in S!Writers, S!Respond(w)
      PROVE  /\ UNCHANGED sentReqs
             /\ hungUp' = "no" => hungUp = "no"
             /\ out' = out \/ \E e \in [part : {"header", "body"}, req : Calls,
                                        error : BOOLEAN] : out' = Append(out, e)
             /\ \A c \in Calls : Ran(c) => Ran(c)'
  <2>0. w.req \in Calls
    BY DEF S!Writers
  <2>1. UNCHANGED sentReqs /\ (hungUp' = "no" => hungUp = "no")
    BY <1>4 DEF S!Respond, S!Lock, S!WriteHeader, S!WriteBody, S!WriteFails,
       S!connVars
  <2>2. \/ UNCHANGED out
        \/ \E p \in {"header", "body"} : out' = Append(out,
              [part |-> p, req |-> w.req, error |-> failed[w.req]])
    BY <1>4 DEF S!Respond, S!Lock, S!WriteHeader, S!WriteBody, S!WriteFails,
       S!Deliver
  <2>3. method' = method \/ method' = [method EXCEPT ![w.req] = "sent"]
    BY <1>4 DEF S!Respond, S!Lock, S!WriteHeader, S!WriteBody, S!WriteFails,
       S!Responded, S!handlerVars
  <2>4. \A c \in Calls : Ran(c) => Ran(c)'
    BY <1>0, <2>3 DEF S!TypeOK, Ran
  <2>5. failed[w.req] \in BOOLEAN
    BY <1>0, <2>0 DEF S!TypeOK
  <2> QED
    BY <2>0, <2>1, <2>2, <2>4, <2>5
<1> QED
  BY <1>1, <1>2, <1>3, <1>4 DEF ServerSteps

\* What is in the stream of responses stays where it is.
LEMMA OutGrows ==
    ASSUME S!IInv, ServerSteps
    PROVE  /\ Len(out) \in Nat /\ Len(out') \in Nat /\ Len(out) <= Len(out')
           /\ \A i \in 1 .. Len(out) : out'[i] = out[i]
<1> DEFINE Parts == [part : {"header", "body"}, req : Calls, error : BOOLEAN]
<1>1. out \in Seq(Parts)
  BY DEF S!IInv, S!TypeOK
<1>2. out' = out \/ \E e \in Parts : out' = Append(out, e)
  BY ServerMoves
<1> HIDE DEF Parts
<1>3. CASE out' = out
  BY <1>1, <1>3
<1>4. ASSUME NEW e \in Parts, out' = Append(out, e)
      PROVE  /\ Len(out) \in Nat /\ Len(out') = Len(out) + 1
             /\ \A i \in 1 .. Len(out) : out'[i] = out[i]
  BY <1>1, <1>4, AppendLast
<1> QED
  BY <1>2, <1>3, <1>4

\* What the server relies on when the client steps.
LEMMA ClientMoves ==
    ASSUME ConnNext, ~ServerSteps
    PROVE  ~crashed /\ UNCHANGED <<overread, loop, req, wg, handler, method,
                                   failed, responding, phase, out>>
<1>1. \/ ~crashed /\ (\/ Local \/ Leaves \/ ReceiveHeader \/ ReceiveBody
                      \/ \E c \in Calls : SendsWhole(c) \/ SendsHalf(c))
  BY StepKinds
<1>2. CASE Local \/ ReceiveHeader \/ ReceiveBody
  BY <1>1, <1>2 DEF Local, ServerIdle, ReceiveHeader, ReceiveBody, serverEnd,
     serverLoop
<1>3. CASE Leaves \/ \E c \in Calls : SendsWhole(c) \/ SendsHalf(c)
  BY <1>1, <1>3 DEF Leaves, HangUp, S!PeerLeaves, SendsWhole, Transmit,
     S!ClientSends, SendsHalf, TransmitHeader, serverEnd, serverLoop,
     S!loopVars, S!handlerVars, S!sendVars
<1> QED
  BY <1>1, <1>2, <1>3

------------------------------------------------------------------------------
(* The parts of the invariant, one by one.                                 *)

LEMMA EndsStep == ConnInv /\ [ConnNext]_connectionVars => EndsInv'
<1> SUFFICES ASSUME ConnInv, ConnNext PROVE EndsInv'
  BY DEF ConnInv, connectionVars, clientEnd, serverEnd, vars, callVars, EndsInv
<1>0. IInv /\ S!IInv /\ EndsInv /\ connUp \in BOOLEAN /\ pc \in [Calls ->
         {"idle", "wait", "returned"} \cup InSend]
  BY DEF ConnInv, IInv, TypeOK, ConnType, CallType
<1>1. CASE ServerSteps
  <2>1. /\ UNCHANGED <<pc, crashed>> /\ connUp' = (connUp /\ hungUp' = "no")
        /\ hungUp' = "no" => hungUp = "no"
    BY <1>0, <1>1, ServerMoves
  <2> QED
    BY <1>0, <2>1 DEF EndsInv
<1>2. CASE ~crashed /\ Local
  <2>1. UNCHANGED <<connUp, hungUp>>
    BY <1>2 DEF Local, ServerIdle, serverEnd, RegisterCall, RejectCall,
       SetHeader, WriteError, FailSend, Go, Return, Timeout, Drain,
       ReadHeaderFails, Dispatch, Notify, Terminate, TerminateCall, TerminateEnd
  <2>2. crashed' => crashed \/ \E c \in Calls : pc[c] = "failed"
    BY <1>2 DEF Local, RegisterCall, RejectCall,
       SetHeader, WriteError, FailSend, Go, Return, Timeout, Drain,
       ReadHeaderFails, Dispatch, Notify, Terminate, TerminateCall, TerminateEnd
  <2>3. \A c \in Calls : pc'[c] = "failed" => pc[c] = "failed" \/ ~connUp
    BY <1>0, <1>2 DEF Local, RegisterCall, RejectCall, Goto, callVars,
       SetHeader, WriteError, FailSend, Go, Return, Timeout, Drain,
       ReadHeaderFails, Dispatch, Notify, Terminate, TerminateCall, TerminateEnd
  <2> QED
    BY <1>0, <2>1, <2>2, <2>3 DEF EndsInv
<1>3. CASE Leaves
  <2>1. connUp' = FALSE /\ UNCHANGED crashed
    BY <1>3 DEF Leaves, CloseOnError, Close, ConnLost
  <2>2. hungUp' # "no"
    BY <1>3 DEF Leaves, HangUp, S!PeerLeaves, serverEnd
  <2> QED
    BY <2>1, <2>2 DEF EndsInv
<1>4. CASE ReceiveHeader \/ ReceiveBody
  <2>1. UNCHANGED <<connUp, crashed, pc, hungUp>>
    BY <1>4 DEF ReceiveHeader, ReceiveBody, ReadHeader, ReadBody, callVars,
       serverEnd
  <2> QED
    BY <1>0, <2>1 DEF EndsInv
<1>5. ASSUME NEW c \in Calls, SendsWhole(c) \/ SendsHalf(c) PROVE EndsInv'
  <2>1. UNCHANGED <<connUp, crashed, hungUp>>
    BY <1>5 DEF SendsWhole, SendsHalf, WriteOk, WriteBadArgs, Transmit,
       S!ClientSends, TransmitHeader, serverEnd
  <2>2. \A d \in Calls : pc'[d] = "failed" => pc[d] = "failed"
    BY <1>0, <1>5 DEF SendsWhole, SendsHalf, WriteOk, WriteBadArgs, Goto
  <2> QED
    BY <1>0, <2>1, <2>2 DEF EndsInv
<1> QED
  BY <1>1, <1>2, <1>3, <1>4, <1>5, StepKinds

\* What happens to the issuers and to Call.Error, when nothing is written.
LEMMA IssuerMoves ==
    ASSUME IInv, Local \/ Leaves \/ ReceiveHeader \/ ReceiveBody, NEW c \in Calls
    PROVE  /\ pc'[c] \in {"idle", "send", "reject", "header", "write"} =>
                 pc[c] \in {"idle", "send", "reject", "header", "write"}
           /\ error'[c] = "shutdown" =>
                 \/ pc[c] = "send" /\ pc'[c] = "reject"
                 \/ error[c] = "shutdown"
                    /\ \/ pc'[c] = pc[c]
                       \/ pc[c] \notin {"reject", "wait", "returned"}
                       \/ pc'[c] \in {"wait", "returned"}
<1>0. /\ pc \in [Calls -> {"idle", "wait", "returned"} \cup InSend]
      /\ error \in [Calls -> {"none", "shutdown", "remote", "body", "conn"}]
      /\ chan \in [Chans -> Seq(Calls)] /\ Shared \in Chans
  BY ChanOfCall DEF IInv, TypeOK, CallType, ChanType
<1>1. CASE \E d \in Calls : RegisterCall(d) \/ RejectCall(d) \/ SetHeader(d)
  BY <1>0, <1>1 DEF RegisterCall, RejectCall, SetHeader, Goto
<1>2. CASE \E d \in Calls : WriteError(d) \/ FailSend(d) \/ Go(d) \/ CloseOnError(d)
  BY <1>0, <1>2 DEF WriteError, FailSend, Go, CloseOnError, Goto
<1>3. CASE \E d \in Calls : Return(d) \/ Timeout(d)
  BY <1>0, <1>3 DEF Return, Timeout, Goto
<1>4. CASE Drain
  BY <1>0, <1>4 DEF Drain, Goto
<1>5. CASE ReadHeaderFails \/ Dispatch \/ Notify \/ Terminate \/ TerminateEnd
           \/ Close \/ ConnLost \/ ReceiveHeader
  BY <1>5 DEF ReadHeaderFails, Dispatch, Notify, Terminate, TerminateEnd, Close,
     ConnLost, ReceiveHeader, ReadHeader, callVars
<1>6. CASE TerminateCall
  BY <1>0, <1>6 DEF TerminateCall
<1>7. CASE ReceiveBody
  BY <1>0, <1>7 DEF ReceiveBody, ReadBody
<1> QED
  BY <1>1, <1>2, <1>3, <1>4, <1>5, <1>6, <1>7 DEF Local, Leaves

LEMMA SentStep == ConnInv /\ [ConnNext]_connectionVars => SentInv'
<1> SUFFICES ASSUME ConnInv, ConnNext PROVE SentInv'
  BY DEF ConnInv, connectionVars, clientEnd, serverEnd, vars, callVars, SentInv
<1>0. IInv /\ S!IInv /\ SentInv /\ pc \in [Calls ->
         {"idle", "wait", "returned"} \cup InSend]
  BY DEF ConnInv, IInv, TypeOK, CallType
<1>1. CASE ServerSteps
  BY <1>0, <1>1, ServerMoves DEF SentInv
<1>2. CASE Local \/ Leaves \/ ReceiveHeader \/ ReceiveBody
  <2>1. UNCHANGED sentReqs
    BY <1>2 DEF Local, ServerIdle, Leaves, HangUp, S!PeerLeaves, ReceiveHeader,
       ReceiveBody, serverEnd
  <2> QED
    BY <1>0, <1>2, <2>1, IssuerMoves DEF SentInv
<1>3. ASSUME NEW c \in Calls, SendsWhole(c) \/ SendsHalf(c) PROVE SentInv'
  <2>1. /\ pc[c] = "write" /\ UNCHANGED error
        /\ \/ pc' = [pc EXCEPT ![c] = "wait"]
           \/ pc' = [pc EXCEPT ![c] = "abort"]
    BY <1>3 DEF SendsWhole, SendsHalf, WriteOk, WriteBadArgs, Goto
  <2>2. sentReqs' = sentReqs \/ sentReqs' = sentReqs \cup {c}
    BY <1>3 DEF SendsWhole, SendsHalf, Transmit, S!ClientSends, TransmitHeader,
       serverEnd
  <2> QED
    BY <1>0, <2>1, <2>2 DEF SentInv
<1> QED
  BY <1>1, <1>2, <1>3, StepKinds

LEMMA ReadStep == ConnInv /\ [ConnNext]_connectionVars => ReadInv'
<1> SUFFICES ASSUME ConnInv, ConnNext PROVE ReadInv'
  BY DEF ConnInv, connectionVars, clientEnd, serverEnd, serverLoop, vars,
     recvVars, ReadInv
<1>0. IInv /\ S!IInv /\ ReadInv /\ Len(out) \in Nat
  BY DEF ConnInv, S!IInv, S!TypeOK
<1>1. CASE ServerSteps
  <2>1. UNCHANGED <<read, rpc, rhdr>>
    BY <1>0, <1>1, ServerMoves
  <2> QED
    BY <1>0, <1>1, <2>1, OutGrows DEF ReadInv
<1>2. CASE ReceiveHeader
  BY <1>0, <1>2 DEF ReceiveHeader, Arrived, serverEnd, serverLoop, ReadInv
<1>3. CASE ReceiveBody
  <2>1. rpc' \notin {"dispatch", "body"}
    BY <1>3 DEF ReceiveBody, ReadBody
  <2>2. read' \in 0 .. Len(out) /\ UNCHANGED out
    BY <1>0, <1>3 DEF ReceiveBody, Arrived, serverEnd, serverLoop, ReadInv
  <2> QED
    BY <2>1, <2>2 DEF ReadInv
<1>4. CASE Local \/ Leaves \/ \E c \in Calls : SendsWhole(c) \/ SendsHalf(c)
  <2>1. UNCHANGED read
    BY <1>4 DEF Local, ServerIdle, Leaves, SendsWhole, SendsHalf
  <2>2. UNCHANGED rhdr /\ (rpc' \in {"dispatch", "body"} => rpc \in {"dispatch", "body"})
    BY <1>4 DEF Local, Leaves, SendsWhole, SendsHalf, RegisterCall, RejectCall,
       SetHeader, WriteError, FailSend, Go, Return, Timeout, Drain,
       ReadHeaderFails, Dispatch, Notify, Terminate, TerminateCall,
       TerminateEnd, CloseOnError, Close, ConnLost, WriteOk, WriteBadArgs,
       recvVars
  <2>3. UNCHANGED out
    BY <1>4 DEF Local, ServerIdle, Leaves, HangUp, S!PeerLeaves, SendsWhole,
       Transmit, S!ClientSends, SendsHalf, TransmitHeader, serverEnd,
       serverLoop, S!sendVars
  <2> QED
    BY <1>0, <2>1, <2>2, <2>3 DEF ReadInv
<1> QED
  BY <1>1, <1>2, <1>3, <1>4, StepKinds

LEMMA HeldStep == ConnInv /\ [ConnNext]_connectionVars => HeldInv'
<1> SUFFICES ASSUME ConnInv, ConnNext PROVE HeldInv'
  BY DEF ConnInv, connectionVars, clientEnd, serverEnd, serverLoop, vars,
     HeldInv, HasRead
<1>0. IInv /\ S!IInv /\ EndsInv /\ ReadInv /\ HeldInv /\ Len(out) \in Nat
  BY DEF ConnInv, S!IInv, S!TypeOK
<1>1. CASE ServerSteps
  <2>1. UNCHANGED <<read, sentReqs, wire>>
    BY <1>0, <1>1, ServerMoves
  <2>2. \A c \in Calls : HasRead(c) => HasRead(c)'
    BY <1>0, <1>1, <2>1, OutGrows DEF HasRead, ReadInv
  <2>3. sentReqs \subseteq Calls
    BY <1>0 DEF S!IInv, S!TypeOK
  <2> QED
    BY <1>0, <2>1, <2>2, <2>3 DEF HeldInv
<1>2. CASE ReceiveHeader
  <2>1. /\ read' = read + 1 /\ read + 1 \in 1 .. Len(out) /\ UNCHANGED <<out, sentReqs>>
        /\ out[read + 1].part = "header"
    BY <1>0, <1>2 DEF ReceiveHeader, Arrived, serverEnd, serverLoop, ReadInv
  <2>2. PICK m \in wire : wire' = wire \ {m} /\ m.args = out[read + 1].req
    BY <1>2 DEF ReceiveHeader, ReadHeader
  <2>3. \A c : HasRead(c) => HasRead(c)'
    BY <1>0, <2>1 DEF HasRead, ReadInv
  <2>4. HasRead(m.args)'
    BY <1>0, <2>1, <2>2 DEF HasRead, ReadInv
  <2> QED
    BY <1>0, <2>1, <2>2, <2>3, <2>4 DEF HeldInv
<1>3. CASE ReceiveBody
  <2>1. UNCHANGED <<out, sentReqs, wire>> /\ read' \in {read, read + 1}
    BY <1>3 DEF ReceiveBody, ReadBody, serverEnd, serverLoop
  <2>2. \A c : HasRead(c) => HasRead(c)'
    BY <1>0, <2>1 DEF HasRead, ReadInv
  <2> QED
    BY <1>0, <2>1, <2>2 DEF HeldInv
<1>4. CASE Local \/ Leaves
  <2>1. UNCHANGED <<wire, read>>
    BY <1>4 DEF Local, ServerIdle, Leaves, RegisterCall, RejectCall,
       SetHeader, WriteError, FailSend, Go, Return, Timeout, Drain,
       ReadHeaderFails, Dispatch, Notify, Terminate, TerminateCall,
       TerminateEnd, CloseOnError, Close, ConnLost
  <2>2. UNCHANGED <<out, sentReqs>>
    BY <1>4 DEF Local, ServerIdle, Leaves, HangUp, S!PeerLeaves, serverEnd,
       serverLoop, S!sendVars
  <2> QED
    BY <1>0, <2>1, <2>2 DEF HeldInv, HasRead
<1>5. ASSUME NEW c \in Calls, SendsWhole(c) \/ SendsHalf(c) PROVE HeldInv'
  <2>1. UNCHANGED <<out, read>>
    BY <1>5 DEF SendsWhole, Transmit, S!ClientSends, SendsHalf, TransmitHeader,
       serverEnd, serverLoop, S!sendVars
  <2>2. \/ UNCHANGED <<sentReqs, wire>>
        \/ /\ sentReqs' = sentReqs \cup {c}
           /\ \E b \in BOOLEAN : wire' = wire \cup {Request(c, b)}
    BY <1>0, <1>5 DEF SendsWhole, Transmit, S!ClientSends, SendsHalf,
       TransmitHeader, serverEnd, WriteOk, WriteBadArgs, EndsInv
  <2>3. \A b \in BOOLEAN : Request(c, b).args = c
    BY DEF Request
  <2> QED
    BY <1>0, <2>1, <2>2, <2>3 DEF HeldInv, HasRead
<1> QED
  BY <1>1, <1>2, <1>3, <1>4, <1>5, StepKinds

\* A stream without parts is empty.
LEMMA NoPart == ASSUME NEW T, NEW q \in Seq(T), Len(q) = 0 PROVE q = << >>
  OBVIOUS

\* What a read takes from a stream of one part leaves nothing.
LEMMA EmptyTail ==
    ASSUME NEW T, NEW q \in Seq(T), q # << >>, Len(q) = 1 PROVE Tail(q) = << >>
<1> DEFINE t == Tail(q)
<1>1. t \in Seq(T) /\ Len(t) = 0
  OBVIOUS
<1> HIDE DEF t
<1>2. t = << >>
  BY <1>1, NoPart
<1> QED
  BY <1>2 DEF t

\* What the user goroutine takes from its channel is a call made with Go.
LEMMA SharedHead ==
    ASSUME IInv, chan[Shared] # << >> PROVE Head(chan[Shared]) \in AsyncCalls
<1>1. chan[Shared] \in Seq(Calls) /\ Shared \in Chans
  BY ChanOfCall DEF IInv, TypeOK, ChanType
<1>2. /\ 1 \in 1 .. Len(chan[Shared]) /\ Head(chan[Shared]) = chan[Shared][1]
      /\ chan[Shared][1] \in Calls
  BY <1>1, TailShift
<1>3. ChanOf(chan[Shared][1]) = Shared
  BY <1>1, <1>2 DEF IInv, ChanInv
<1> QED
  BY <1>2, <1>3, ChanOfCall

\* What is left of a header without a body, when the server steps.
LEMMA HalfServer ==
    ASSUME S!IInv, ServerSteps, NEW c \in Calls,
           handler[c] = "none",
           \A i \in 1 .. Len(in) : in[i].req = c => i = Len(in),
           loop = "body" /\ req = c => in = << >>
    PROVE  /\ handler'[c] = "none"
           /\ \A i \in 1 .. Len(in') : in'[i].req = c => i = Len(in')
           /\ loop' = "body" /\ req' = c => in' = << >>
<1> DEFINE Parts == [part : {"header", "body"}, req : Calls]
<1>0. /\ S!TypeOK /\ S!MutexInv
      /\ in \in Seq(Parts) /\ handler \in [Calls ->
            {"none", "select", "timedOut", "waitSent", "done"}]
  BY DEF S!IInv, S!TypeOK
<1> HIDE DEF Parts
<1>1. CASE S!ReadOption
  <2>1. PICK n \in 0 .. Len(in) : in' = SubSeq(in, n + 1, Len(in))
    BY <1>1 DEF S!ReadOption
  <2>2. loop' = "header" /\ UNCHANGED handler
    BY <1>1 DEF S!ReadOption, S!handlerVars
  <2>3. /\ Len(in) \in Nat /\ Len(in') = Len(in) - n
        /\ \A i \in 1 .. Len(in) - n : in'[i] = in[i + n] /\ i + n \in 1 .. Len(in)
    BY <1>0, <2>1
  <2> QED
    BY <2>2, <2>3
<1>2. CASE S!ReadHeader \/ (S!ReadBody /\ req # c)
  <2>1. in # << >> /\ in' = Tail(in)
    BY <1>2 DEF S!ReadHeader, S!ReadBody
  <2>2. /\ Len(in) \in Nat \ {0} /\ Head(in) = in[1] /\ Len(in') = Len(in) - 1
        /\ \A i \in 1 .. Len(in) - 1 : in'[i] = in[i + 1]
    BY <1>0, <2>1, TailShift
  <2>3. \A i \in 1 .. Len(in') : in'[i].req = c => i = Len(in')
    BY <2>2
  <2>4. handler'[c] = "none"
    BY <1>0, <1>2 DEF S!ReadHeader, S!ReadBody, S!Accept, S!Refuse
  <2>5. CASE S!ReadHeader
    <3>1. req' = in[1].req
      BY <2>2, <2>5 DEF S!ReadHeader
    <3>2. req' = c => Len(in) = 1
      <4>1. 1 \in 1 .. Len(in)
        BY <2>2
      <4> QED
        BY <3>1, <4>1
    <3>3. Len(in) = 1 => in' = << >>
      BY <1>0, <2>1, EmptyTail
    <3> QED
      BY <2>3, <2>4, <3>2, <3>3
  <2>6. CASE S!ReadBody /\ req # c
    BY <2>3, <2>4, <2>6 DEF S!ReadBody
  <2> QED
    BY <1>2, <2>5, <2>6
<1>3. S!ReadBody => req # c
  BY DEF S!ReadBody
<1>4. CASE S!RefuseOption \/ S!ReadHeaderFails \/ S!ReadBodyFails \/ S!Close
  <2>1. UNCHANGED <<in, handler, req>> /\ loop' # "body"
    BY <1>4 DEF S!RefuseOption, S!ReadHeaderFails, S!ReadBodyFails, S!Close,
       S!Refuse, S!connVars, S!handlerVars
  <2> QED
    BY <2>1
<1>5. ASSUME NEW r \in Calls, S!Handle(r) \/ S!MethodReturns(r)
      PROVE  UNCHANGED <<in, req, loop>> /\ handler'[c] = "none"
  BY <1>0, <1>5 DEF S!Handle, S!MethodReturns, S!Called, S!TakesCalled,
     S!HandleTimeout, S!Sent, S!connVars, S!loopVars
<1>6. ASSUME NEW w \in S!Writers, S!Respond(w)
      PROVE  /\ UNCHANGED <<in, req>> /\ handler'[c] = "none"
             /\ loop' = "body" => loop = "body"
  <2>1. UNCHANGED <<in, req>> /\ (loop' = "body" => loop = "body")
    BY <1>6 DEF S!Respond, S!Lock, S!WriteHeader, S!WriteBody, S!WriteFails,
       S!Responded, S!connVars, S!loopVars
  <2>2. \/ UNCHANGED handler
        \/ /\ phase[w] = "body" /\ w.who = "handler"
           /\ handler' = [handler EXCEPT ![w.req] = "done"]
    BY <1>6 DEF S!Respond, S!Lock, S!WriteHeader, S!WriteBody, S!WriteFails,
       S!Responded, S!handlerVars
  <2>3. phase[w] = "body" /\ w.who = "handler" => handler[w.req] = "timedOut"
    BY <1>0 DEF S!MutexInv, S!Wants
  <2> QED
    BY <1>0, <2>1, <2>2, <2>3
<1>7. S!Loop => \/ S!ReadOption \/ S!ReadHeader \/ S!ReadBody
                \/ S!RefuseOption \/ S!ReadHeaderFails \/ S!ReadBodyFails \/ S!Close
  BY DEF S!Loop
<1> QED
  BY <1>1, <1>2, <1>3, <1>4, <1>5, <1>6, <1>7 DEF ServerSteps

LEMMA HalfStep == ConnInv /\ [ConnNext]_connectionVars => HalfInv'
<1> SUFFICES ASSUME ConnInv, ConnNext PROVE HalfInv'
  BY DEF ConnInv, connectionVars, clientEnd, serverEnd, serverLoop, vars,
     callVars, HalfInv
<1>0. /\ IInv /\ S!IInv /\ EndsInv /\ SentInv /\ HalfInv /\ LockInv
      /\ connUp \in BOOLEAN
      /\ pc \in [Calls -> {"idle", "wait", "returned"} \cup InSend]
  BY DEF ConnInv, IInv, TypeOK, ConnType, CallType
<1>t. \A m \in wire : m.args \in Calls /\ m.whole \in BOOLEAN
  BY DEF ConnInv, IInv, TypeOK, ConnType
<1>1. CASE ServerSteps
  <2>1. UNCHANGED <<wire, pc>> /\ connUp' = (connUp /\ hungUp' = "no")
    BY <1>0, <1>1, ServerMoves
  <2> SUFFICES ASSUME NEW m \in wire, ~m.whole
               PROVE  /\ handler'[m.args] = "none"
                      /\ connUp' => pc[m.args] = "abort"
                      /\ \A i \in 1 .. Len(in') : in'[i].req = m.args => i = Len(in')
                      /\ loop' = "body" /\ req' = m.args => in' = << >>
    BY <2>1 DEF HalfInv
  <2>2. /\ handler[m.args] = "none" /\ m.args \in Calls
        /\ connUp => pc[m.args] = "abort"
        /\ \A i \in 1 .. Len(in) : in[i].req = m.args => i = Len(in)
        /\ loop = "body" /\ req = m.args => in = << >>
    BY <1>0, <1>t DEF HalfInv
  <2> QED
    BY <1>0, <1>1, <2>1, <2>2, HalfServer
<1>2. CASE Local
  <2>1. UNCHANGED <<connUp, wire, in, loop, req, handler>>
    BY <1>2 DEF Local, ServerIdle, serverEnd, serverLoop, RegisterCall,
       RejectCall, SetHeader, WriteError, FailSend, Go, Return, Timeout, Drain,
       ReadHeaderFails, Dispatch, Notify, Terminate, TerminateCall, TerminateEnd
  <2>2. ASSUME NEW c \in Calls, pc[c] = "abort" PROVE pc'[c] = "abort"
    <3>1. CASE \E d \in Calls : \/ RegisterCall(d) \/ RejectCall(d) \/ SetHeader(d)
                                \/ WriteError(d) \/ FailSend(d) \/ Go(d)
                                \/ Return(d) \/ Timeout(d)
      BY <1>0, <2>2, <3>1 DEF RegisterCall, RejectCall, SetHeader, WriteError,
         FailSend, Go, Return, Timeout, Goto
    <3>2. CASE Drain
      <4>1. pc' = [pc EXCEPT ![Head(chan[Shared])] = "returned"]
        BY <3>2 DEF Drain, Goto
      <4>2. Head(chan[Shared]) \in AsyncCalls
        BY <1>0, <3>2, SharedHead DEF Drain
      <4>3. pc[Head(chan[Shared])] # "abort"
        BY <3>2, <4>2 DEF Drain, InSend
      <4> QED
        BY <1>0, <2>2, <4>1, <4>3
    <3>3. CASE \/ ReadHeaderFails \/ Dispatch \/ Notify \/ Terminate
               \/ TerminateCall \/ TerminateEnd
      BY <2>2, <3>3 DEF ReadHeaderFails, Dispatch, Notify, Terminate,
         TerminateCall, TerminateEnd, callVars
    <3> QED
      BY <1>2, <3>1, <3>2, <3>3 DEF Local
  <2> QED
    BY <1>0, <1>t, <2>1, <2>2 DEF HalfInv
<1>3. CASE Leaves
  <2>1. UNCHANGED <<wire, in, loop, req, handler>> /\ connUp' = FALSE
    BY <1>3 DEF Leaves, HangUp, S!PeerLeaves, serverEnd, serverLoop,
       CloseOnError, Close, ConnLost, S!loopVars, S!handlerVars
  <2> QED
    BY <1>0, <2>1 DEF HalfInv
<1>4. CASE ReceiveHeader \/ ReceiveBody
  <2>1. UNCHANGED <<connUp, pc, in, loop, req, handler>> /\ wire' \subseteq wire
    BY <1>4 DEF ReceiveHeader, ReceiveBody, ReadHeader, ReadBody, callVars,
       serverEnd, serverLoop
  <2> QED
    BY <1>0, <2>1 DEF HalfInv
<1>5. ASSUME NEW c \in Calls, pc[c] = "write", connUp
      PROVE  \A m \in wire : m.whole
  <2> SUFFICES ASSUME NEW m \in wire, ~m.whole PROVE FALSE
    OBVIOUS
  <2>1. m.args \in Calls /\ pc[m.args] = "abort"
    BY <1>0, <1>5, <1>t DEF HalfInv
  <2>2. sending = m.args /\ sending = c
    BY <1>0, <1>5, <2>1 DEF LockInv, Holding, InSend
  <2> QED
    BY <1>5, <2>1, <2>2
<1>6. ASSUME NEW c \in Calls, SendsWhole(c) PROVE HalfInv'
  <2>1. CASE connUp
    <3>1. \A m \in wire' : m.whole
      BY <1>5, <1>6, <2>1 DEF SendsWhole, WriteOk, Request
    <3> QED
      BY <3>1 DEF HalfInv
  <2>2. CASE ~connUp
    <3>1. UNCHANGED <<connUp, wire, in, loop, req, handler>>
      BY <1>0, <1>6, <2>2 DEF SendsWhole, WriteOk, Transmit, serverEnd,
         serverLoop, EndsInv
    <3> QED
      BY <1>0, <2>2, <3>1 DEF HalfInv
  <2> QED
    BY <2>1, <2>2
<1>7. ASSUME NEW c \in Calls, SendsHalf(c) PROVE HalfInv'
  <2>1. /\ pc[c] = "write" /\ connUp /\ pc' = [pc EXCEPT ![c] = "abort"]
        /\ wire' = wire \cup {Request(c, FALSE)}
        /\ in' = Append(in, S!Part("header", c)) /\ UNCHANGED <<loop, req, handler>>
    BY <1>7 DEF SendsHalf, WriteBadArgs, TransmitHeader, Goto, serverLoop
  <2>2. \A m \in wire' : ~m.whole => m.args = c
    BY <1>5, <2>1 DEF Request
  <2>3. c \notin sentReqs
    BY <1>0, <2>1 DEF SentInv
  <2>4. handler[c] = "none" /\ ~(loop = "body" /\ req = c)
    BY <1>0, <2>3 DEF S!IInv, S!StreamInv
  <2>5. \A i \in 1 .. Len(in') : in'[i].req = c => i = Len(in')
    <3>1. in \in Seq([part : {"header", "body"}, req : Calls])
      BY <1>0 DEF S!IInv, S!TypeOK
    <3>2. S!Part("header", c) \in [part : {"header", "body"}, req : Calls]
      BY DEF S!Part
    <3>3. /\ Len(in) \in Nat /\ Len(in') = Len(in) + 1
          /\ \A i \in 1 .. Len(in) : in'[i] = in[i]
      BY <2>1, <3>1, <3>2, AppendLast
    <3>4. \A i \in 1 .. Len(in) : in[i].req # c
      BY <1>0, <2>3 DEF S!IInv, S!StreamInv
    <3> QED
      BY <3>3, <3>4
  <2>6. pc'[c] = "abort"
    BY <1>0, <2>1
  <2> QED
    BY <2>1, <2>2, <2>4, <2>5, <2>6 DEF HalfInv
<1> QED
  BY <1>1, <1>2, <1>3, <1>4, <1>6, <1>7, StepKinds

LEMMA RanStep == ConnInv /\ [ConnNext]_connectionVars => RanInv'
<1> SUFFICES ASSUME ConnInv, ConnNext PROVE RanInv'
  BY DEF ConnInv, connectionVars, clientEnd, serverEnd, serverLoop, vars,
     callVars, recvVars, RanInv, Ran
<1>0. /\ IInv /\ S!IInv /\ WireInv /\ TakenInv /\ ReadInv /\ RanInv
      /\ reply \in [Calls -> {NoReply} \cup [method : Calls, args : Calls]]
  BY DEF ConnInv, IInv, TypeOK, CallType
<1>1. CASE ServerSteps
  <2>1. /\ UNCHANGED <<rpc, rhdr, reply>>
        /\ \A c \in Calls : Ran(c) => Ran(c)'
    BY <1>0, <1>1, ServerMoves
  <2>2. rpc \in {"dispatch", "body", "notify"} => rhdr.args \in Calls
    BY <1>0 DEF WireInv
  <2> QED
    BY <1>0, <2>1, <2>2 DEF RanInv
<1>2. CASE ~ServerSteps
  <2>0. UNCHANGED method
    BY <1>2, ClientMoves
  <2>1. CASE Local \/ Leaves \/ \E c \in Calls : SendsWhole(c) \/ SendsHalf(c)
    <3>1. UNCHANGED reply
      BY <2>1 DEF Local, Leaves, SendsWhole, SendsHalf, RegisterCall, RejectCall,
         SetHeader, WriteError, FailSend, Go, Return, Timeout, Drain,
         ReadHeaderFails, Dispatch, Notify, Terminate, TerminateCall,
         TerminateEnd, CloseOnError, Close, ConnLost, WriteOk, WriteBadArgs,
         callVars
    <3>2. /\ UNCHANGED rhdr
          /\ rpc' \in {"dispatch", "body", "notify"} =>
                rpc \in {"dispatch", "body", "notify"}
      BY <2>1 DEF Local, Leaves, SendsWhole, SendsHalf, RegisterCall, RejectCall,
         SetHeader, WriteError, FailSend, Go, Return, Timeout, Drain,
         ReadHeaderFails, Dispatch, Notify, Terminate, TerminateCall,
         TerminateEnd, CloseOnError, Close, ConnLost, WriteOk, WriteBadArgs,
         recvVars
    <3> QED
      BY <1>0, <2>0, <3>1, <3>2 DEF RanInv, Ran
  <2>2. CASE ReceiveHeader
    <3>1. /\ UNCHANGED reply /\ read + 1 \in 1 .. Len(out)
          /\ rhdr'.args = out[read + 1].req
          /\ rhdr'.error = "none" => ~out[read + 1].error
      BY <1>0, <2>2 DEF ReceiveHeader, ReadHeader, Arrived, callVars, ReadInv
    <3>2. ~out[read + 1].error => Ran(out[read + 1].req)
      BY <1>0, <3>1 DEF S!IInv, S!Truthful, Ran
    <3> QED
      BY <1>0, <2>0, <3>1, <3>2 DEF RanInv, Ran
  <2>3. CASE ReceiveBody
    <3>1. /\ UNCHANGED rhdr /\ rpc = "body"
          /\ \/ UNCHANGED reply
             \/ /\ rcall # NoCall /\ rhdr.error = "none"
                /\ reply' = [reply EXCEPT ![rcall] = [method |-> rhdr.method,
                                                      args |-> rhdr.args]]
      BY <2>3 DEF ReceiveBody, ReadBody
    <3>2. rhdr.error = "none" => Ran(rhdr.args)
      BY <1>0, <3>1 DEF RanInv
    <3>3. rcall # NoCall => rcall = rhdr.args
      BY <1>0 DEF TakenInv
    <3> QED
      BY <1>0, <2>0, <3>1, <3>2, <3>3 DEF RanInv, Ran
  <2> QED
    BY <1>2, <2>1, <2>2, <2>3, StepKinds
<1> QED
  BY <1>1, <1>2

------------------------------------------------------------------------------
(* The invariant and what it is for.                                       *)

LEMMA ConnInitInv == ConnInit => ConnInv
<1> SUFFICES ASSUME ConnInit PROVE ConnInv
  OBVIOUS
<1>1. IInv /\ S!IInv
  BY InitIInv, ServerInit DEF ConnInit
<1>2. EndsInv /\ SentInv /\ HeldInv /\ HalfInv
  BY DEF ConnInit, Init, S!Init, EndsInv, SentInv, HeldInv, HalfInv
<1>3. ReadInv /\ RanInv
  BY DEF ConnInit, Init, S!Init, ReadInv, RanInv
<1> QED
  BY <1>1, <1>2, <1>3 DEF ConnInv

LEMMA ConnStepInv == ConnInv /\ [ConnNext]_connectionVars => ConnInv'
<1> SUFFICES ASSUME ConnInv, [ConnNext]_connectionVars PROVE ConnInv'
  OBVIOUS
<1>1. IInv' /\ S!IInv'
  BY ClientEndStep, ServerEndStep DEF ConnInv
<1>2. EndsInv' /\ SentInv' /\ ReadInv' /\ HeldInv' /\ HalfInv' /\ RanInv'
  BY EndsStep, SentStep, ReadStep, HeldStep, HalfStep, RanStep
<1> QED
  BY <1>1, <1>2 DEF ConnInv

\* What is in the stream of responses is a part of one.
LEMMA ResponsePart ==
    ASSUME S!TypeOK
    PROVE  \A i \in 1 .. Len(out) :
              out[i] \in [part : {"header", "body"}, req : Calls, error : BOOLEAN]
<1> DEFINE Parts == [part : {"header", "body"}, req : Calls, error : BOOLEAN]
<1>1. out \in Seq(Parts)
  BY DEF S!TypeOK
<1> HIDE DEF Parts
<1>2. \A i \in 1 .. Len(out) : out[i] \in Parts
  BY <1>1
<1> QED
  BY <1>2 DEF Parts

\* For any finite set of calls, both ends of the connection keep their own
\* invariants and the relations between them, whatever either end or the
\* network does.
THEOREM ConnInvariant == ConnSpec => []ConnInv
  BY ConnInitInv, ConnStepInv, PTL DEF ConnSpec

\* Whatever both ends do together is something that the client alone may do in
\* the environment of RpcClient: the whole connection implements it.
THEOREM ConnImplementsClient == ConnSpec => Spec
<1>1. ConnInit => Init
  BY DEF ConnInit
<1>2. ConnInv /\ [ConnNext]_connectionVars => [Next]_vars
  BY ClientStep DEF ConnInv
<1> QED
  BY <1>1, <1>2, ConnInvariant, PTL DEF ConnSpec, Spec

\* Over a real server each issuer gets the answer to its own call, an error or
\* a timeout, once (Client.Call, Client.Go, Server.serveCodec).
THEOREM ConnKeepsPromise == ConnSpec => ImplementsPromise
  BY ConnImplementsClient, Refinement, PTL

\* The server of serveCodec is the environment that the client was verified
\* in: what receive can still read answers a request that it waits for, header
\* and body of one answer follow each other (client.receive, server.sendResponse).
THEOREM OutstandingHolds == ConnSpec => []Outstanding
<1>1. ASSUME ConnInv PROVE Outstanding
  <2>0. /\ IInv /\ S!IInv /\ ReadInv /\ HeldInv /\ HalfInv
        /\ S!TypeOK /\ S!MutexInv /\ S!HandlerInv /\ S!StreamInv /\ S!FreshInv
        /\ S!OneResponse /\ S!Framed /\ S!Truthful
    BY <1>1 DEF ConnInv, S!IInv
  <2>1. ASSUME NEW k \in read + 1 .. Len(out), out[k].part = "header"
        PROVE  \E m \in wire : m.args = out[k].req /\ (m.whole \/ out[k].error)
    <3> DEFINE r == out[k].req
    <3>1. k \in 1 .. Len(out) /\ Len(out) \in Nat /\ read \in Nat /\ k > read
      BY <2>0 DEF ReadInv, S!TypeOK
    <3>2. out[k] \in [part : {"header", "body"}, req : Calls, error : BOOLEAN]
      BY <2>0, <3>1, ResponsePart
    <3>3. r \in Calls /\ out[k].error \in BOOLEAN
      BY <3>2
    <3>4. r \in sentReqs
      <4> SUFFICES ASSUME r \notin sentReqs PROVE FALSE
        OBVIOUS
      <4>1. handler[r] = "none" /\ method[r] = "none"
        BY <2>0, <3>3 DEF S!StreamInv, S!HandlerInv
      <4>2. ASSUME NEW w \in S!Writers, w.req = r PROVE phase[w] # "body"
        BY <2>0, <4>1, <4>2 DEF S!MutexInv, S!Wants, S!StreamInv, S!Writers
      <4>3. S!Unanswered(r)
        BY <4>1, <4>2 DEF S!Unanswered
      <4> QED
        BY <2>0, <3>1, <3>3, <4>3 DEF S!FreshInv
    <3>5. ~HasRead(r)
      <4> SUFFICES ASSUME NEW j \in 1 .. read, out[j].part = "header",
                          out[j].req = r
                   PROVE  FALSE
        BY DEF HasRead
      <4>1. j \in 1 .. Len(out) /\ j # k
        BY <3>1
      <4> QED
        BY <2>0, <2>1, <3>1, <4>1 DEF S!OneResponse
    <3>6. PICK m \in wire : m.args = r
      BY <2>0, <3>4, <3>5 DEF HeldInv
    <3>7. ~m.whole => out[k].error
      <4>1. ~m.whole => method[r] = "none"
        BY <2>0, <3>3, <3>6 DEF HalfInv, S!HandlerInv
      <4> QED
        BY <2>0, <3>1, <3>3, <4>1 DEF S!Truthful
    <3> QED
      BY <3>6, <3>7
  <2>2. rpc \in {"dispatch", "body"} => out[read].req = rhdr.args
    BY <2>0 DEF ReadInv
  <2>3. ASSUME rpc \in {"dispatch", "body"}, read < Len(out)
        PROVE  out[read + 1] = [out[read] EXCEPT !.part = "body"]
    <3>1. /\ read \in 1 .. Len(out) /\ read + 1 \in 1 .. Len(out)
          /\ (read + 1) - 1 = read /\ out[read].part = "header"
      BY <2>0, <2>3 DEF ReadInv, S!TypeOK
    <3>2. out[read + 1].part = "body"
      BY <2>0, <2>3, <3>1 DEF S!Framed
    <3>3. out[read] = [out[read + 1] EXCEPT !.part = "header"]
      BY <2>0, <3>1, <3>2 DEF S!Framed
    <3>4. out[read + 1] \in [part : {"header", "body"}, req : Calls, error : BOOLEAN]
      BY <2>0, <3>1, ResponsePart
    <3> QED
      BY <3>2, <3>3, <3>4
  <2> QED
    BY <2>0, <2>1, <2>2, <2>3 DEF Outstanding
<1> QED
  BY <1>1, ConnInvariant, PTL

\* A call that returns without an error has been run to its end on the server
\* and its handler did not time out, and one that the client refused was never
\* run (client.Call, server.handleRequest).
THEOREM ToldTruthHolds == ConnSpec => []ToldTruth
<1>1. ASSUME ConnInv, NEW c \in Calls
      PROVE  /\ ret[c] = "ok" => /\ handler[c] \in {"waitSent", "done"}
                                 /\ method[c] \in {"respond", "sent", "done"}
             /\ error[c] = "shutdown" => method[c] = "none"
  <2>0. RetInv /\ RanInv /\ SentInv /\ S!HandlerInv /\ S!StreamInv
    BY <1>1 DEF ConnInv, IInv, S!IInv
  <2>1. Own(c) # NoReply
    BY ClientAssumption DEF Own
  <2>2. ret[c] = "ok" => Ran(c)
    BY <2>0, <2>1 DEF RetInv, RanInv
  <2>3. error[c] = "shutdown" => handler[c] = "none"
    BY <2>0 DEF SentInv, S!StreamInv
  <2> QED
    BY <2>0, <2>2, <2>3 DEF Ran, S!HandlerInv
<1>2. ConnInv => ToldTruth
  BY <1>1 DEF ToldTruth
<1> QED
  BY <1>2, ConnInvariant, PTL
==============================================================================
