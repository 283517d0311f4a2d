------------------------------ MODULE RpcServer ------------------------------
(***************************************************************************)
(* The server of geeRPC (geeRPC/server.go) on one connection: ServeConn    *)
(* reads the option and runs the loop of serveCodec, which starts for      *)
(* every request a handler (handleRequest) and, from it, a goroutine that  *)
(* calls the method.  Handler and method goroutine meet on the unbuffered  *)
(* channels called and sent; all responses go through one mutex.           *)
(***************************************************************************)
EXTENDS Naturals, Sequences, FiniteSets

CONSTANTS Requests,   \* the requests of the client, one of them per Seq
          Unknown,    \* the requests whose ServiceMethod is not registered
          NoRequest   \* no request

ASSUME ServerAssumption == /\ IsFiniteSet(Requests)
                           /\ Unknown \subseteq Requests
                           /\ NoRequest \notin Requests

\* Who may answer a request: the loop, its handler, its method goroutine.
Writers == [who : {"loop", "handler", "method"}, req : Requests]
NoWriter == [who |-> "none", req |-> NoRequest]

VARIABLES
    \* the bytes received and not read, as parts of requests; what the client
    \* has sent; who ended the connection
    in, sentReqs, hungUp,
    \* the handshake consumed bytes that follow the option
    overread,
    \* the loop of serveCodec, the request it reads, the WaitGroup
    loop, req, wg,
    \* per request: the handler, the method goroutine, whether h.Error is set
    handler, method, failed,
    \* the mutex of the responses, what each writer writes next, the responses
    sending, phase, out

vars == <<in, sentReqs, hungUp, overread, loop, req, wg, handler, method,
          failed, sending, phase, out>>

connVars == <<in, sentReqs, hungUp, overread>>
loopVars == <<loop, req, wg>>
handlerVars == <<handler, method, failed>>
sendVars == <<sending, phase, out>>

Part(p, r) == [part |-> p, req |-> r]

Init ==
    /\ in = << >> /\ sentReqs = {} /\ hungUp = "no" /\ overread = FALSE
    /\ loop = "option" /\ req = NoRequest /\ wg = 0
    /\ handler = [r \in Requests |-> "none"]
    /\ method = [r \in Requests |-> "none"]
    /\ failed = [r \in Requests |-> FALSE]
    /\ sending = NoWriter /\ phase = [w \in Writers |-> "none"] /\ out = << >>

------------------------------------------------------------------------------
(* Slips that the properties at the end must catch.                        *)

MutexUnused == TRUE                                     \* no sending.Lock
MutexKept == UNCHANGED sending                          \* no sending.Unlock
CalledBuffered(r) == handler[r] # "none"                \* make(chan, 1)
ExpireQuietly(r) == UNCHANGED failed                    \* no h.Error
GroupIgnored == TRUE                                    \* no wg.Wait
GroupKept == UNCHANGED wg                               \* no wg.Done

------------------------------------------------------------------------------
(* The client's end of the connection.                                     *)

ClientSends(r) ==
    /\ hungUp = "no" /\ r \notin sentReqs
    /\ in' = in \o <<Part("header", r), Part("body", r)>>
    /\ sentReqs' = sentReqs \cup {r}
    /\ UNCHANGED <<hungUp, overread, loopVars, handlerVars, sendVars>>

\* The client writes a header, cannot encode the body and closes.
ClientSendsHeader(r) ==
    /\ hungUp = "no" /\ r \notin sentReqs
    /\ in' = Append(in, Part("header", r))
    /\ sentReqs' = sentReqs \cup {r}
    /\ hungUp' = "peer"
    /\ UNCHANGED <<overread, loopVars, handlerVars, sendVars>>

\* The client closes, or the network loses the connection.
PeerLeaves ==
    /\ hungUp = "no"
    /\ hungUp' = "peer"
    /\ UNCHANGED <<in, sentReqs, overread, loopVars, handlerVars, sendVars>>

------------------------------------------------------------------------------
(* ServeConn and the loop of serveCodec.                                   *)

\* The JSON decoder of the option is thrown away together with whatever of
\* the requests behind the option it has buffered.
ReadOption ==
    /\ loop = "option"
    /\ \E n \in 0 .. Len(in) :
          /\ in' = SubSeq(in, n + 1, Len(in))
          /\ overread' = (n > 0)
    /\ loop' = "header"
    /\ UNCHANGED <<sentReqs, hungUp, req, wg, handlerVars, sendVars>>

\* An option that cannot be read, or that names no codec: ServeConn returns.
RefuseOption ==
    /\ loop = "option"
    /\ loop' = "closed"
    /\ hungUp' = IF hungUp = "no" THEN "option" ELSE hungUp
    /\ UNCHANGED <<in, sentReqs, overread, req, wg, handlerVars, sendVars>>

\* What cannot be decoded as a header: the body of a request whose header was
\* refused, or the rest of a stream whose beginning is lost.
Undecodable == in # << >> /\ (overread \/ Head(in).part = "body")

ReadHeader ==
    /\ loop = "header" /\ in # << >> /\ ~Undecodable
    /\ req' = Head(in).req
    /\ in' = Tail(in)
    /\ loop' = IF req' \in Unknown THEN "refuse" ELSE "body"
    /\ failed' = [failed EXCEPT ![req'] = req' \in Unknown]
    /\ UNCHANGED <<sentReqs, hungUp, overread, wg, handler, method, sendVars>>

\* readRequest returns a nil request: the loop ends.
ReadHeaderFails ==
    /\ loop = "header"
    /\ Undecodable \/ hungUp # "no"
    /\ loop' = "wait"
    /\ UNCHANGED <<connVars, req, wg, handlerVars, sendVars>>

Refuse(r) ==
    /\ failed' = [failed EXCEPT ![r] = TRUE]
    /\ loop' = "refuse"
    /\ UNCHANGED <<wg, handler, method>>

\* wg.Add, then the handler and its method goroutine are started.
Accept(r) ==
    /\ wg' = wg + 1
    /\ handler' = [handler EXCEPT ![r] = "select"]
    /\ method' = [method EXCEPT ![r] = "calling"]
    /\ loop' = "header"
    /\ UNCHANGED failed

\* A body is consumed, even when it has not the type of the argument.
ReadBody ==
    /\ loop = "body" /\ in # << >>
    /\ in' = Tail(in)
    /\ Accept(req) \/ Refuse(req)
    /\ UNCHANGED <<sentReqs, hungUp, overread, req, sendVars>>

\* There is no body, or the connection is lost while it is read.
ReadBodyFails ==
    /\ loop = "body" /\ hungUp # "no"
    /\ Refuse(req)
    /\ UNCHANGED <<connVars, req, sendVars>>

AllHandled == wg = 0

\* wg.Wait, then cc.Close.
Close ==
    /\ loop = "wait" /\ AllHandled
    /\ loop' = "closed"
    /\ hungUp' = IF hungUp = "no" THEN "server" ELSE hungUp
    /\ UNCHANGED <<in, sentReqs, overread, req, wg, handlerVars, sendVars>>

------------------------------------------------------------------------------
(* handleRequest and its method goroutine.                                 *)

WgDone == wg' = wg - 1

MethodReturns(r) ==
    /\ method[r] = "calling"
    /\ method' = [method EXCEPT ![r] = "called"]
    /\ UNCHANGED <<connVars, loopVars, handler, failed, sendVars>>

\* The handler receives from called; nobody else ever does.
TakesCalled(r) == handler[r] = "select"

Called(r) ==
    /\ method[r] = "called" /\ TakesCalled(r)
    /\ method' = [method EXCEPT ![r] = "respond"]
    /\ handler' = [handler EXCEPT ![r] = "waitSent"]
    /\ \E err \in BOOLEAN : failed' = [failed EXCEPT ![r] = err]
    /\ UNCHANGED <<connVars, loopVars, sendVars>>

Expire(r) == failed' = [failed EXCEPT ![r] = TRUE]

\* The timer of DefaultOption.HandleTimeout, which is not 0.
HandleTimeout(r) ==
    /\ handler[r] = "select"
    /\ handler' = [handler EXCEPT ![r] = "timedOut"]
    /\ Expire(r)
    /\ UNCHANGED <<connVars, loopVars, method, sendVars>>

Sent(r) ==
    /\ method[r] = "sent" /\ handler[r] = "waitSent"
    /\ method' = [method EXCEPT ![r] = "done"]
    /\ handler' = [handler EXCEPT ![r] = "done"]
    /\ WgDone
    /\ UNCHANGED <<connVars, loop, req, failed, sendVars>>

------------------------------------------------------------------------------
(* sendResponse, called by the writer w.                                   *)

Wants(w) ==
    \/ w.who = "loop" /\ loop = "refuse" /\ req = w.req
    \/ w.who = "handler" /\ handler[w.req] = "timedOut"
    \/ w.who = "method" /\ method[w.req] = "respond"

MutexFree == sending = NoWriter
Unlock == sending' = NoWriter

Lock(w) ==
    /\ Wants(w) /\ phase[w] = "none" /\ MutexFree
    /\ sending' = w
    /\ phase' = [phase EXCEPT ![w] = "header"]
    /\ UNCHANGED <<connVars, loopVars, handlerVars, out>>

\* Nothing is delivered on a connection that is gone.
Deliver(p, r) ==
    out' = IF hungUp = "no"
           THEN Append(out, [part |-> p, req |-> r, error |-> failed[r]])
           ELSE out

WriteHeader(w) ==
    /\ phase[w] = "header"
    /\ Deliver("header", w.req)
    /\ phase' = [phase EXCEPT ![w] = "body"]
    /\ UNCHANGED <<connVars, loopVars, handlerVars, sending>>

\* sendResponse returns to its caller.
Responded(w) ==
    /\ Unlock
    /\ phase' = [phase EXCEPT ![w] = "none"]
    /\ \/ /\ w.who = "loop"
          /\ loop' = "header"
          /\ UNCHANGED <<wg, handler, method>>
       \/ /\ w.who = "handler"
          /\ handler' = [handler EXCEPT ![w.req] = "done"]
          /\ WgDone
          /\ UNCHANGED <<loop, method>>
       \/ /\ w.who = "method"
          /\ method' = [method EXCEPT ![w.req] = "sent"]
          /\ UNCHANGED <<loop, wg, handler>>

WriteBody(w) ==
    /\ phase[w] = "body"
    /\ Deliver("body", w.req)
    /\ Responded(w)
    /\ UNCHANGED <<connVars, req, failed>>

\* A reply that cannot be encoded: cc.Write closes the connection.
WriteFails(w) ==
    /\ phase[w] = "body" /\ w.who = "method" /\ ~failed[w.req]
    /\ hungUp' = IF hungUp = "no" THEN "write" ELSE hungUp
    /\ Responded(w)
    /\ UNCHANGED <<in, sentReqs, overread, req, failed, out>>

------------------------------------------------------------------------------
Client == \/ \E r \in Requests : ClientSends(r) \/ ClientSendsHeader(r)
          \/ PeerLeaves

Loop == \/ ReadOption \/ RefuseOption \/ ReadHeader \/ ReadHeaderFails
        \/ ReadBody \/ ReadBodyFails \/ Close

Handle(r) == Called(r) \/ HandleTimeout(r) \/ Sent(r)

Respond(w) == Lock(w) \/ WriteHeader(w) \/ WriteBody(w) \/ WriteFails(w)

Next == \/ Client
        \/ Loop
        \/ \E r \in Requests : Handle(r) \/ MethodReturns(r)
        \/ \E w \in Writers : Respond(w)

Spec == Init /\ [][Next]_vars

\* The goroutines of the server run and its timers fire.  A method need not
\* return, and nothing obliges the client.
Fairness == /\ WF_vars(Loop)
            /\ \A r \in Requests : WF_vars(Handle(r))
            /\ \A w \in Writers : WF_vars(Respond(w))

FairSpec == Spec /\ Fairness
------------------------------------------------------------------------------
TypeOK ==
    /\ in \in Seq([part : {"header", "body"}, req : Requests])
    /\ sentReqs \subseteq Requests
    /\ hungUp \in {"no", "peer", "option", "write", "server"}
    /\ overread \in BOOLEAN
    /\ loop \in {"option", "header", "body", "refuse", "wait", "closed"}
    /\ req \in Requests \cup {NoRequest}
    /\ wg \in Nat
    /\ handler \in [Requests -> {"none", "select", "timedOut", "waitSent", "done"}]
    /\ method \in [Requests -> {"none", "calling", "called", "respond", "sent", "done"}]
    /\ failed \in [Requests -> BOOLEAN]
    /\ sending \in Writers \cup {NoWriter}
    /\ phase \in [Writers -> {"none", "header", "body"}]
    /\ out \in Seq([part : {"header", "body"}, req : Requests, error : BOOLEAN])

\* Who is in sendResponse holds the mutex, and still has its response to give.
MutexInv == \A w \in Writers : /\ phase[w] # "none" <=> sending = w
                               /\ phase[w] # "none" => Wants(w)

\* Handler and method goroutine meet twice or, after the timer, never.
HandlerInv == \A r \in Requests :
    \/ handler[r] = "none" /\ method[r] = "none"
    \/ handler[r] = "select" /\ method[r] \in {"calling", "called"}
    \/ handler[r] = "timedOut" /\ method[r] \in {"calling", "called"} /\ failed[r]
    \/ handler[r] = "waitSent" /\ method[r] \in {"respond", "sent"}
    \/ handler[r] = "done" /\ method[r] \in {"calling", "called"} /\ failed[r]
    \/ handler[r] = "done" /\ method[r] = "done"

Handling == {r \in Requests : handler[r] \notin {"none", "done"}}

\* The WaitGroup counts the handlers that run.
WgInv == /\ wg = Cardinality(Handling)
         /\ loop \in {"option", "closed"} => wg = 0

\* A request waits in the stream, or in the loop, before it has a handler.
StreamInv ==
    /\ \A i \in 1 .. Len(in) : in[i].req \in sentReqs
    /\ \A i \in 1 .. Len(in) : in[i].part = "header" =>
          /\ handler[in[i].req] = "none"
          /\ ~(loop \in {"body", "refuse"} /\ req = in[i].req)
    /\ \A i, j \in 1 .. Len(in) :
          in[i].part = "header" /\ in[j].part = "header"
             /\ in[i].req = in[j].req => i = j
    /\ \A r \in Requests \ sentReqs : handler[r] = "none"
    /\ loop \in {"body", "refuse"} => req \in sentReqs /\ handler[req] = "none"
    /\ loop = "refuse" => failed[req]

\* The requests whose response has not been begun.
Unanswered(r) ==
    /\ \/ r \notin sentReqs
       \/ \E i \in 1 .. Len(in) : in[i] = Part("header", r)
       \/ loop \in {"body", "refuse"} /\ req = r
       \/ handler[r] \in {"select", "timedOut", "waitSent"}
    /\ method[r] # "sent"
    /\ \A w \in Writers : w.req = r => phase[w] # "body"

FreshInv == \A r \in Requests : Unanswered(r) =>
    \A i \in 1 .. Len(out) : out[i].req # r

\* Between the header and the body of a response nothing else is written.
TailInv == hungUp = "no" =>
    IF \E w \in Writers : phase[w] = "body"
    THEN /\ out # << >>
         /\ \A w \in Writers : phase[w] = "body" => out[Len(out)] =
               [part |-> "header", req |-> w.req, error |-> failed[w.req]]
    ELSE out = << >> \/ out[Len(out)].part = "body"

\* Loop, handler and method goroutine never answer the same request twice.
OneResponse == \A i, j \in 1 .. Len(out) :
    /\ out[i].part = "header" /\ out[j].part = "header"
    /\ out[i].req = out[j].req
    => i = j

\* Responses are not interleaved: every body follows its own header, and only
\* the end of the stream may be cut off.
Framed == \A i \in 1 .. Len(out) :
    /\ out[i].part = "body" =>
          i > 1 /\ out[i - 1] = [out[i] EXCEPT !.part = "header"]
    /\ out[i].part = "header" /\ i < Len(out) => out[i + 1].part = "body"

\* A response without an error is the result of a method that has returned:
\* the handler whose timer fired reports an error.
Truthful == \A i \in 1 .. Len(out) :
    ~out[i].error => method[out[i].req] \in {"respond", "sent", "done"}

\* "make sure that all requests are complete" (server.go:96): when the loop
\* closes the connection every handler is through and nobody wants to write.
QuietClose == loop = "closed" =>
    /\ \A r \in Requests : handler[r] \in {"none", "done"}
    /\ sending = NoWriter /\ \A w \in Writers : ~Wants(w)

IInv == /\ TypeOK
        /\ MutexInv /\ HandlerInv /\ WgInv /\ StreamInv /\ FreshInv /\ TailInv
        /\ OneResponse /\ Framed /\ Truthful

\* A request that was accepted is answered, however long its method takes,
\* unless the connection is lost.
AcceptedAnswered == \A r \in Requests : handler[r] = "select" ~>
    \/ \E i \in 1 .. Len(out) : out[i].part = "body" /\ out[i].req = r
    \/ hungUp \in {"peer", "write"}

\* A connection that is lost is closed, whatever its methods do.
ClosesAfterLoss == hungUp # "no" ~> loop = "closed"

\* A method that returns after the timer of its handler finds nobody at the
\* unbuffered channel (server.go:208): its goroutine stays there for ever.
Late(r) == method[r] = "called" /\ handler[r] \in {"timedOut", "done"}
LateMethodStays == [][\A r \in Requests : Late(r) => Late(r)']_vars

\* "allow several requests to be received" (server.go:97), with the `continue`
\* for a request that was refused: the loop ends only with the connection.
RefusalKeepsConnection == loop = "wait" /\ ~overread => hungUp # "no"

\* "| Option | Header1 | Body1 | Header2 | Body2 | ..." (server.go:24): the
\* requests behind the option are served, if their methods are known.
OptionKeepsRequests == loop = "wait" => hungUp # "no"
==============================================================================
