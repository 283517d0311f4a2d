--------------------------- MODULE RpcServerProofs ---------------------------
(***************************************************************************)
(* Proofs about RpcServer, for any finite set of requests.  IInv is        *)
(* inductive: each part has a lemma that says that a step keeps it, with   *)
(* one step per action that touches the part.                              *)
(***************************************************************************)
EXTENDS RpcServer, FiniteSetTheorems, TLAPS

\* A writer is a goroutine and a request; nil is not a writer.
LEMMA WriterFacts ==
    /\ NoWriter \notin Writers
    /\ \A w \in Writers : w.who \in {"loop", "handler", "method"} /\ w.req \in Requests
    /\ \A v, w \in Writers : v.who = w.who /\ v.req = w.req => v = w
  BY DEF Writers, NoWriter

\* A stream consists of its elements.
LEMMA Element == ASSUME NEW S, NEW q \in Seq(S), NEW i \in 1 .. Len(q) PROVE q[i] \in S
  OBVIOUS

\* What Encode appends to a stream is its last element.
LEMMA AppendLast ==
    ASSUME NEW S, NEW q \in Seq(S), NEW e \in S
    PROVE  /\ Append(q, e) \in Seq(S)
           /\ Len(q) \in Nat /\ Len(Append(q, e)) = Len(q) + 1
           /\ \A i \in 1 .. Len(q) : Append(q, e)[i] = q[i] /\ q[i] \in S
           /\ Append(q, e)[Len(q) + 1] = e
  OBVIOUS

\* What a read takes from a stream is its first element.
LEMMA TailShift ==
    ASSUME NEW S, NEW q \in Seq(S), q # << >>
    PROVE  /\ Tail(q) \in Seq(S)
           /\ Len(q) \in Nat \ {0} /\ Len(Tail(q)) = Len(q) - 1
           /\ Head(q) = q[1] /\ q[1] \in S
           /\ \A i \in 1 .. Len(Tail(q)) : i + 1 \in 2 .. Len(q) /\ Tail(q)[i] = q[i + 1]
  OBVIOUS

\* The part of a request that the loop reads next.
LEMMA StreamHead ==
    ASSUME TypeOK, in # << >>
    PROVE  /\ Tail(in) \in Seq([part : {"header", "body"}, req : Requests])
           /\ Len(in) \in Nat \ {0} /\ 1 \in 1 .. Len(in)
           /\ Len(Tail(in)) = Len(in) - 1
           /\ Head(in) = in[1] /\ in[1].part \in {"header", "body"} /\ in[1].req \in Requests
           /\ \A i \in 1 .. Len(Tail(in)) : i + 1 \in 2 .. Len(in) /\ Tail(in)[i] = in[i + 1]
<1> DEFINE Parts == [part : {"header", "body"}, req : Requests]
<1>1. in \in Seq(Parts)
  BY DEF TypeOK
<1>2. \A p \in Parts : p.part \in {"header", "body"} /\ p.req \in Requests
  OBVIOUS
<1> HIDE DEF Parts
<1>3. /\ Tail(in) \in Seq(Parts)
      /\ Len(in) \in Nat \ {0} /\ Len(Tail(in)) = Len(in) - 1
      /\ Head(in) = in[1] /\ in[1] \in Parts
      /\ \A i \in 1 .. Len(Tail(in)) : i + 1 \in 2 .. Len(in) /\ Tail(in)[i] = in[i + 1]
  BY <1>1, TailShift
<1> QED
  BY <1>2, <1>3 DEF Parts

\* What the handshake leaves of a stream is its end.
LEMMA SuffixShift ==
    ASSUME NEW S, NEW q \in Seq(S), NEW n \in 0 .. Len(q)
    PROVE  /\ SubSeq(q, n + 1, Len(q)) \in Seq(S)
           /\ Len(SubSeq(q, n + 1, Len(q))) = Len(q) - n
           /\ \A i \in 1 .. Len(q) - n : /\ SubSeq(q, n + 1, Len(q))[i] = q[i + n]
                                         /\ i + n \in 1 .. Len(q)
  OBVIOUS

\* A request that a client sends is behind those it has sent.
LEMMA PairAppended ==
    ASSUME NEW S, NEW q \in Seq(S), NEW a \in S, NEW b \in S
    PROVE  /\ q \o <<a, b>> \in Seq(S)
           /\ Len(q) \in Nat /\ Len(q \o <<a, b>>) = Len(q) + 2
           /\ \A i \in 1 .. Len(q) : (q \o <<a, b>>)[i] = q[i] /\ q[i] \in S
           /\ (q \o <<a, b>>)[Len(q) + 1] = a
           /\ (q \o <<a, b>>)[Len(q) + 2] = b
  OBVIOUS

------------------------------------------------------------------------------
(* The handlers that run, and the WaitGroup.                               *)

LEMMA HandlingFinite == IsFiniteSet(Handling) /\ IsFiniteSet(Handling')
<1>1. Handling \subseteq Requests /\ Handling' \subseteq Requests
  BY DEF Handling
<1> QED
  BY <1>1, FS_Subset, ServerAssumption

\* wg.Done never brings the WaitGroup below zero.
LEMMA WgPositive ==
    ASSUME TypeOK, WgInv, NEW r \in Handling
    PROVE  wg \in Nat /\ wg > 0 /\ wg - 1 \in Nat
<1>1. Cardinality(Handling) # 0
  BY HandlingFinite, FS_EmptySet
<1> QED
  BY <1>1 DEF TypeOK, WgInv

\* Who is in the table of the handlers has sent its request, which the loop
\* has read.
LEMMA HandledGone ==
    ASSUME TypeOK, StreamInv, NEW r \in Requests, handler[r] # "none"
    PROVE  /\ r \in sentReqs
           /\ \A i \in 1 .. Len(in) : in[i] # Part("header", r)
           /\ ~(loop \in {"body", "refuse"} /\ req = r)
<1>1. \A i \in 1 .. Len(in) : in[i] # Part("header", r)
  <2> SUFFICES ASSUME NEW i \in 1 .. Len(in), in[i] = Part("header", r) PROVE FALSE
    OBVIOUS
  <2>1. in[i].part = "header" /\ in[i].req = r
    BY DEF Part
  <2> QED
    BY <2>1 DEF StreamInv
<1> QED
  BY <1>1 DEF StreamInv

\* While the loop refuses a request, its header is out of the stream.
LEMMA RefusedGone ==
    ASSUME TypeOK, StreamInv, loop \in {"body", "refuse"}
    PROVE  /\ req \in sentReqs
           /\ \A i \in 1 .. Len(in) : in[i] # Part("header", req)
<1> SUFFICES ASSUME NEW i \in 1 .. Len(in), in[i] = Part("header", req) PROVE FALSE
  BY DEF StreamInv
<1>1. in[i].part = "header" /\ in[i].req = req
  BY DEF Part
<1> QED
  BY <1>1 DEF StreamInv

\* Who is in sendResponse is there alone.
LEMMA Alone ==
    ASSUME MutexInv, NEW v \in Writers, phase[v] # "none"
    PROVE  sending = v /\ Wants(v) /\ \A w \in Writers \ {v} : phase[w] = "none"
  BY DEF MutexInv

------------------------------------------------------------------------------
(* The parts of the invariant, one by one.                                 *)

LEMMA TypeStep == IInv /\ [Next]_vars => TypeOK'
<1> SUFFICES ASSUME IInv, [Next]_vars PROVE TypeOK'
  OBVIOUS
<1> USE WriterFacts
<1>0. TypeOK /\ WgInv /\ StreamInv
  BY DEF IInv
<1>1. CASE UNCHANGED vars
  BY <1>0, <1>1 DEF TypeOK, vars
<1>2. ASSUME NEW r \in Requests, ClientSends(r) PROVE TypeOK'
  <2>1. Part("header", r) \in [part : {"header", "body"}, req : Requests]
        /\ Part("body", r) \in [part : {"header", "body"}, req : Requests]
    BY DEF Part
  <2>2. in' \in Seq([part : {"header", "body"}, req : Requests])
    BY <1>0, <1>2, <2>1, PairAppended DEF TypeOK, ClientSends
  <2> QED
    BY <1>0, <1>2, <2>2 DEF TypeOK, ClientSends, loopVars, handlerVars, sendVars
<1>3. ASSUME NEW r \in Requests, ClientSendsHeader(r) PROVE TypeOK'
  BY <1>0, <1>3 DEF TypeOK, ClientSendsHeader, Part, loopVars, handlerVars, sendVars
<1>4. CASE PeerLeaves
  BY <1>0, <1>4 DEF TypeOK, PeerLeaves, loopVars, handlerVars, sendVars
<1>5. CASE ReadOption
  <2>1. in' \in Seq([part : {"header", "body"}, req : Requests]) /\ overread' \in BOOLEAN
    <3>1. PICK n \in 0 .. Len(in) : /\ in' = SubSeq(in, n + 1, Len(in))
                                    /\ overread' = (n > 0)
      BY <1>5 DEF ReadOption
    <3>2. in \in Seq([part : {"header", "body"}, req : Requests])
      BY <1>0 DEF TypeOK
    <3>3. SubSeq(in, n + 1, Len(in)) \in Seq([part : {"header", "body"}, req : Requests])
      BY <3>2, SuffixShift
    <3>4. (n > 0) \in BOOLEAN
      OBVIOUS
    <3> QED
      BY <3>1, <3>3, <3>4
  <2> QED
    BY <1>0, <1>5, <2>1 DEF TypeOK, ReadOption, handlerVars, sendVars
<1>6. CASE ReadHeader
  <2>2. /\ in' \in Seq([part : {"header", "body"}, req : Requests])
        /\ req' \in Requests
    BY <1>0, <1>6, StreamHead DEF ReadHeader
  <2>3. failed' \in [Requests -> BOOLEAN] /\ loop' \in {"refuse", "body"}
    <3>1. CASE req' \in Unknown
      <4>1. failed' = [failed EXCEPT ![req'] = TRUE]
        BY <1>6, <3>1, Zenon DEF ReadHeader
      <4> QED
        BY <1>0, <1>6, <4>1 DEF TypeOK, ReadHeader
    <3>2. CASE req' \notin Unknown
      <4>1. failed' = [failed EXCEPT ![req'] = FALSE]
        <5>1. (req' \in Unknown) = FALSE
          BY <3>2
        <5> QED
          BY <1>6, <5>1, Zenon DEF ReadHeader
      <4> QED
        BY <1>0, <1>6, <4>1 DEF TypeOK, ReadHeader
    <3> QED
      BY <3>1, <3>2
  <2> QED
    BY <1>0, <1>6, <2>2, <2>3 DEF TypeOK, ReadHeader, sendVars
<1>7. CASE ReadBody
  <2>1. in' \in Seq([part : {"header", "body"}, req : Requests])
    BY <1>0, <1>7, TailShift DEF TypeOK, ReadBody
  <2>. UNCHANGED <<sentReqs, hungUp, overread, req, sending, phase, out>>
    BY <1>7 DEF ReadBody, sendVars
  <2>2. CASE Accept(req)
    <3>1. wg' \in Nat
      BY <1>0, <2>2 DEF TypeOK, Accept
    <3>2. /\ handler' \in [Requests -> {"none", "select", "timedOut", "waitSent", "done"}]
          /\ method' \in [Requests ->
               {"none", "calling", "called", "respond", "sent", "done"}]
      BY <1>0, <2>2 DEF TypeOK, Accept
    <3>3. loop' = "header" /\ UNCHANGED failed
      BY <2>2 DEF Accept
    <3> QED
      BY <1>0, <2>1, <3>1, <3>2, <3>3 DEF TypeOK
  <2>3. CASE Refuse(req)
    BY <1>0, <2>1, <2>3 DEF TypeOK, Refuse
  <2> QED
    BY <1>7, <2>2, <2>3 DEF ReadBody
<1>8. CASE RefuseOption \/ ReadHeaderFails \/ ReadBodyFails \/ Close
  BY <1>0, <1>8 DEF TypeOK, RefuseOption, ReadHeaderFails, ReadBodyFails, Refuse, Close,
       connVars, handlerVars, sendVars
<1>9. ASSUME NEW r \in Requests, Called(r) \/ HandleTimeout(r) \/ MethodReturns(r)
      PROVE  TypeOK'
  <2>1. CASE Called(r)
    <3>1. PICK err \in BOOLEAN : failed' = [failed EXCEPT ![r] = err]
      BY <2>1 DEF Called
    <3> QED
      BY <1>0, <2>1, <3>1 DEF TypeOK, Called, connVars, loopVars, sendVars
  <2>2. CASE HandleTimeout(r)
    BY <1>0, <2>2 DEF TypeOK, HandleTimeout, Expire, connVars, loopVars, sendVars
  <2>3. CASE MethodReturns(r)
    BY <1>0, <2>3 DEF TypeOK, MethodReturns, connVars, loopVars, sendVars
  <2> QED
    BY <1>9, <2>1, <2>2, <2>3
<1>10. ASSUME NEW r \in Requests, Sent(r) PROVE TypeOK'
  <2>1. wg - 1 \in Nat
    BY <1>0, <1>10, WgPositive DEF Sent, Handling
  <2> QED
    BY <1>0, <1>10, <2>1 DEF TypeOK, Sent, WgDone, connVars, sendVars
<1>11. ASSUME NEW w \in Writers, Lock(w) PROVE TypeOK'
  BY <1>0, <1>11 DEF TypeOK, Lock, connVars, loopVars, handlerVars
<1>12. ASSUME NEW w \in Writers, NEW p \in {"header", "body"}, Deliver(p, w.req)
       PROVE  out' \in Seq([part : {"header", "body"}, req : Requests, error : BOOLEAN])
  <2>1. [part |-> p, req |-> w.req, error |-> failed[w.req]]
          \in [part : {"header", "body"}, req : Requests, error : BOOLEAN]
    BY <1>0 DEF TypeOK
  <2> QED
    BY <1>0, <1>12, <2>1, AppendLast DEF TypeOK, Deliver
<1>13. ASSUME NEW w \in Writers, WriteHeader(w) PROVE TypeOK'
  BY <1>0, <1>12, <1>13 DEF TypeOK, WriteHeader, connVars, loopVars, handlerVars
<1>14. ASSUME NEW w \in Writers, phase[w] = "body", Responded(w), UNCHANGED req,
              UNCHANGED failed
       PROVE  /\ sending' \in Writers \cup {NoWriter}
              /\ phase' \in [Writers -> {"none", "header", "body"}]
              /\ loop' \in {"option", "header", "body", "refuse", "wait", "closed"}
              /\ wg' \in Nat
              /\ handler' \in [Requests ->
                   {"none", "select", "timedOut", "waitSent", "done"}]
              /\ method' \in [Requests ->
                   {"none", "calling", "called", "respond", "sent", "done"}]
  <2>1. CASE w.who = "handler"
    <3>1. Wants(w)
      BY <1>14, Alone DEF IInv
    <3>2. w.req \in Handling
      BY <2>1, <3>1 DEF Wants, Handling
    <3>3. wg - 1 \in Nat
      BY <1>0, <3>2, WgPositive
    <3> QED
      BY <1>0, <1>14, <2>1, <3>3 DEF TypeOK, Responded, Unlock, WgDone
  <2>2. CASE w.who # "handler"
    BY <1>0, <1>14, <2>2 DEF TypeOK, Responded, Unlock
  <2> QED
    BY <2>1, <2>2
<1>15. ASSUME NEW w \in Writers, WriteBody(w) PROVE TypeOK'
  BY <1>0, <1>12, <1>14, <1>15 DEF TypeOK, WriteBody, connVars
<1>16. ASSUME NEW w \in Writers, WriteFails(w) PROVE TypeOK'
  BY <1>0, <1>14, <1>16 DEF TypeOK, WriteFails
<1> QED
  BY <1>1, <1>2, <1>3, <1>4, <1>5, <1>6, <1>7, <1>8, <1>9, <1>10, <1>11, <1>13, <1>15,
     <1>16 DEF Next, Client, Loop, Handle, Respond

LEMMA MutexStep == IInv /\ [Next]_vars => MutexInv'
<1> SUFFICES ASSUME IInv, [Next]_vars PROVE MutexInv'
  OBVIOUS
<1> USE WriterFacts
<1>0. TypeOK /\ MutexInv /\ HandlerInv
  BY DEF IInv
<1>1. CASE UNCHANGED vars
  BY <1>0, <1>1 DEF MutexInv, Wants, vars
<1>2. CASE Client
  <2>1. UNCHANGED <<loop, req, handler, method, phase, sending>>
    BY <1>2 DEF Client, ClientSends, ClientSendsHeader, PeerLeaves,
         loopVars, handlerVars, sendVars
  <2> QED
    BY <1>0, <2>1 DEF MutexInv, Wants
<1>3. CASE ReadOption \/ RefuseOption \/ ReadHeaderFails \/ Close
  BY <1>0, <1>3 DEF MutexInv, Wants, ReadOption, RefuseOption, ReadHeaderFails, Close,
       connVars, handlerVars, sendVars
<1>4. CASE ReadHeader
  BY <1>0, <1>4 DEF MutexInv, Wants, ReadHeader, sendVars
<1>5. CASE ReadBody \/ ReadBodyFails
  BY <1>0, <1>5 DEF TypeOK, MutexInv, HandlerInv, StreamInv, IInv, Wants, ReadBody,
       ReadBodyFails, Accept, Refuse, connVars, handlerVars, sendVars
<1>6. ASSUME NEW r \in Requests, Handle(r) \/ MethodReturns(r) PROVE MutexInv'
  <2>1. UNCHANGED <<loop, req, phase, sending>>
    BY <1>6 DEF Handle, Called, HandleTimeout, Sent, MethodReturns, loopVars, sendVars
  <2>2. ASSUME NEW w \in Writers, Wants(w) PROVE Wants(w)'
    <3>1. CASE Called(r)
      BY <1>0, <2>1, <2>2, <3>1 DEF TypeOK, Wants, Called, TakesCalled
    <3>2. CASE HandleTimeout(r)
      BY <1>0, <2>1, <2>2, <3>2 DEF TypeOK, Wants, HandleTimeout
    <3>3. CASE Sent(r)
      BY <1>0, <2>1, <2>2, <3>3 DEF TypeOK, Wants, Sent
    <3>4. CASE MethodReturns(r)
      BY <1>0, <2>1, <2>2, <3>4 DEF TypeOK, Wants, MethodReturns
    <3> QED
      BY <1>6, <3>1, <3>2, <3>3, <3>4 DEF Handle
  <2> QED
    BY <1>0, <2>1, <2>2 DEF MutexInv
<1>7. ASSUME NEW w \in Writers, Lock(w) PROVE MutexInv'
  BY <1>0, <1>7 DEF TypeOK, MutexInv, Wants, Lock, MutexFree, loopVars, handlerVars
<1>8. ASSUME NEW w \in Writers, WriteHeader(w) PROVE MutexInv'
  BY <1>0, <1>8 DEF TypeOK, MutexInv, Wants, WriteHeader, loopVars, handlerVars
<1>9. ASSUME NEW w \in Writers, WriteBody(w) \/ WriteFails(w) PROVE MutexInv'
  <2>1. phase[w] = "body" /\ Responded(w)
    BY <1>9 DEF WriteBody, WriteFails
  <2>2. \A v \in Writers : phase'[v] = "none"
    BY <1>0, <2>1, Alone DEF TypeOK, Responded
  <2>3. sending' = NoWriter
    BY <2>1 DEF Responded, Unlock
  <2> QED
    BY <2>2, <2>3 DEF MutexInv
<1> QED
  BY <1>1, <1>2, <1>3, <1>4, <1>5, <1>6, <1>7, <1>8, <1>9 DEF Next, Loop, Respond

LEMMA HandlerStep == IInv /\ [Next]_vars => HandlerInv'
<1> SUFFICES ASSUME IInv, [Next]_vars PROVE HandlerInv'
  OBVIOUS
<1> USE WriterFacts
<1>0. TypeOK /\ MutexInv /\ HandlerInv /\ StreamInv
  BY DEF IInv
<1>1. CASE UNCHANGED handlerVars
  BY <1>0, <1>1 DEF HandlerInv, handlerVars
<1>2. CASE ReadHeader
  <2>1. req' \in Requests /\ handler[req'] = "none"
    <3>1. in # << >> /\ req' = Head(in).req /\ Head(in).part # "body"
      BY <1>2 DEF ReadHeader, Undecodable
    <3> QED
      BY <1>0, <3>1, StreamHead DEF StreamInv
  <2> QED
    BY <1>0, <1>2, <2>1 DEF TypeOK, HandlerInv, ReadHeader
<1>3. CASE ReadBody \/ ReadBodyFails
  <2>1. req \in Requests /\ handler[req] = "none"
    BY <1>0, <1>3 DEF TypeOK, StreamInv, ReadBody, ReadBodyFails
  <2>2. CASE Accept(req)
    BY <1>0, <2>1, <2>2 DEF TypeOK, HandlerInv, Accept
  <2>3. CASE Refuse(req)
    BY <1>0, <2>1, <2>3 DEF TypeOK, HandlerInv, Refuse
  <2> QED
    BY <1>3, <2>2, <2>3 DEF ReadBody, ReadBodyFails
<1>4. ASSUME NEW r \in Requests, Handle(r) \/ MethodReturns(r) PROVE HandlerInv'
  BY <1>0, <1>4 DEF TypeOK, HandlerInv, Handle, Called, TakesCalled, HandleTimeout, Expire,
       Sent, MethodReturns
<1>5. ASSUME NEW w \in Writers, WriteBody(w) \/ WriteFails(w) PROVE HandlerInv'
  <2>1. Responded(w) /\ Wants(w) /\ UNCHANGED failed
    BY <1>0, <1>5, Alone DEF WriteBody, WriteFails
  <2> QED
    BY <1>0, <2>1 DEF TypeOK, HandlerInv, Responded, Wants
<1> QED
  BY <1>1, <1>2, <1>3, <1>4, <1>5 DEF Next, Client, ClientSends, ClientSendsHeader,
     PeerLeaves, Loop, ReadOption, RefuseOption, ReadHeaderFails, Close, Respond, Lock,
     WriteHeader, vars, handlerVars

LEMMA WgStep == IInv /\ [Next]_vars => WgInv'
<1> SUFFICES ASSUME IInv, [Next]_vars PROVE WgInv'
  OBVIOUS
<1> USE WriterFacts
<1>0. TypeOK /\ MutexInv /\ HandlerInv /\ WgInv /\ StreamInv
  BY DEF IInv
<1>1. ASSUME UNCHANGED wg, Handling' = Handling,
             loop' \in {"option", "closed"} => loop \in {"option", "closed"} \/ wg = 0
      PROVE  WgInv'
  <2>1. Cardinality(Handling') = Cardinality(Handling)
    BY <1>1
  <2> QED
    BY <1>0, <1>1, <2>1 DEF WgInv
<1>2. CASE UNCHANGED <<loopVars, handlerVars>>
  <2>1. Handling' = Handling /\ UNCHANGED <<wg, loop>>
    BY <1>2 DEF Handling, handlerVars, loopVars
  <2> QED
    BY <1>1, <2>1
<1>3. CASE ReadOption \/ RefuseOption \/ ReadHeader \/ ReadHeaderFails \/ ReadBodyFails
           \/ Close
  <2>1. Handling' = Handling /\ UNCHANGED wg
    BY <1>3 DEF Handling, ReadOption, RefuseOption, ReadHeader, ReadHeaderFails,
         ReadBodyFails, Refuse, Close, handlerVars
  <2>2. loop' \in {"option", "closed"} => loop \in {"option", "closed"} \/ wg = 0
    BY <1>3 DEF ReadOption, RefuseOption, ReadHeader, ReadHeaderFails,
         ReadBodyFails, Refuse, Close, AllHandled
  <2> QED
    BY <1>1, <2>1, <2>2
<1>4. CASE ReadBody
  <2>1. CASE Refuse(req)
    <3>1. Handling' = Handling /\ UNCHANGED wg /\ loop' = "refuse"
      BY <2>1 DEF Handling, Refuse
    <3> QED
      BY <1>1, <3>1
  <2>2. CASE Accept(req)
    <3>1. req \in Requests /\ req \notin Handling
      BY <1>0, <1>4 DEF TypeOK, StreamInv, ReadBody, Handling
    <3>2. Handling' = Handling \cup {req}
      BY <1>0, <2>2, <3>1 DEF TypeOK, Handling, Accept
    <3>3. Cardinality(Handling') = Cardinality(Handling) + 1
      BY <3>1, <3>2, HandlingFinite, FS_AddElement
    <3> QED
      BY <1>0, <2>2, <3>3 DEF WgInv, Accept
  <2> QED
    BY <1>4, <2>1, <2>2 DEF ReadBody
<1>5. ASSUME NEW r \in Handling, handler' = [handler EXCEPT ![r] = "done"], WgDone,
             loop' = loop
      PROVE  WgInv'
  <2>1. Handling' = Handling \ {r}
    BY <1>0, <1>5 DEF TypeOK, Handling
  <2>2. Cardinality(Handling') = Cardinality(Handling) - 1
    BY <2>1, HandlingFinite, FS_RemoveElement
  <2>3. wg > 0 /\ wg' = wg - 1
    BY <1>0, <1>5, WgPositive DEF WgDone
  <2> QED
    BY <1>0, <1>5, <2>2, <2>3 DEF WgInv
<1>6. ASSUME NEW r \in Requests, Called(r) \/ HandleTimeout(r) \/ MethodReturns(r)
      PROVE  WgInv'
  <2>1. Handling' = Handling
    BY <1>0, <1>6 DEF TypeOK, Handling, Called, TakesCalled, HandleTimeout, MethodReturns
  <2>2. UNCHANGED <<wg, loop>>
    BY <1>6 DEF Called, HandleTimeout, MethodReturns, loopVars
  <2> QED
    BY <1>1, <2>1, <2>2
<1>7. ASSUME NEW r \in Requests, Sent(r) PROVE WgInv'
  <2>1. r \in Handling
    BY <1>7 DEF Sent, Handling
  <2> QED
    BY <1>5, <1>7, <2>1 DEF Sent
<1>8. ASSUME NEW w \in Writers, WriteBody(w) \/ WriteFails(w) PROVE WgInv'
  <2>1. Responded(w) /\ Wants(w)
    BY <1>0, <1>8, Alone DEF WriteBody, WriteFails
  <2>2. CASE w.who = "handler"
    <3>1. w.req \in Handling
      BY <2>1, <2>2 DEF Wants, Handling
    <3> QED
      BY <1>5, <2>1, <2>2, <3>1 DEF Responded
  <2>3. CASE w.who # "handler"
    <3>1. /\ UNCHANGED <<wg, handler>>
          /\ loop' \in {"option", "closed"} => loop \in {"option", "closed"}
      BY <2>1, <2>3 DEF Responded
    <3>2. Handling' = Handling
      BY <3>1 DEF Handling
    <3> QED
      BY <1>1, <3>1, <3>2
  <2> QED
    BY <2>2, <2>3
<1> QED
  BY <1>2, <1>3, <1>4, <1>6, <1>7, <1>8 DEF Next, Client, ClientSends, ClientSendsHeader,
     PeerLeaves, Loop, Handle, Respond, Lock, WriteHeader, vars, loopVars, handlerVars

\* A header that the client writes without its body is behind what it has sent.
LEMMA HeaderStream ==
    ASSUME TypeOK, StreamInv, NEW r \in Requests, r \notin sentReqs,
           sentReqs' = sentReqs \cup {r}, in' = Append(in, Part("header", r)),
           UNCHANGED <<loop, req, handler, failed>>
    PROVE  StreamInv'
<1>1. /\ Len(in) \in Nat /\ Len(in') = Len(in) + 1
      /\ \A i \in 1 .. Len(in) : in'[i] = in[i] /\ in[i].req # r
      /\ in'[Len(in) + 1] = Part("header", r)
  <2>1. in \in Seq([part : {"header", "body"}, req : Requests])
        /\ Part("header", r) \in [part : {"header", "body"}, req : Requests]
    BY DEF TypeOK, Part
  <2> QED
    BY <2>1, AppendLast DEF StreamInv
<1>2. \A i \in 1 .. Len(in') : \/ i \in 1 .. Len(in)
                               \/ i = Len(in) + 1 /\ in'[i] = Part("header", r)
  BY <1>1
<1>3. Part("header", r).part = "header" /\ Part("header", r).req = r
  BY DEF Part
<1>4. handler[r] = "none" /\ ~(loop \in {"body", "refuse"} /\ req = r)
  BY DEF StreamInv
<1> QED
  BY <1>1, <1>2, <1>3, <1>4 DEF StreamInv

LEMMA StreamStep == IInv /\ [Next]_vars => StreamInv'
<1> SUFFICES ASSUME IInv, [Next]_vars PROVE StreamInv'
  OBVIOUS
<1> USE WriterFacts
<1>0. TypeOK /\ MutexInv /\ HandlerInv /\ StreamInv
  BY DEF IInv
<1>1. ASSUME UNCHANGED <<in, sentReqs>>,
             \A r \in Requests : handler'[r] = "none" <=> handler[r] = "none",
             loop' \in {"body", "refuse"} => loop \in {"body", "refuse"} /\ req' = req,
             loop' = "refuse" => failed'[req']
      PROVE  StreamInv'
  <2>1. \A i \in 1 .. Len(in) : in[i].req \in Requests
    BY <1>0 DEF TypeOK, StreamInv
  <2>2. loop' \in {"body", "refuse"} => req' \in sentReqs /\ req' \in Requests
    BY <1>0, <1>1 DEF TypeOK, StreamInv
  <2> QED
    BY <1>0, <1>1, <2>1, <2>2 DEF StreamInv
<1>2. ASSUME NEW k \in Nat, UNCHANGED sentReqs,
             \A i \in 1 .. Len(in') : i + k \in 1 .. Len(in) /\ in'[i] = in[i + k],
             Len(in') \in Nat
      PROVE  /\ \A i \in 1 .. Len(in') : in'[i].req \in sentReqs'
             /\ \A i \in 1 .. Len(in') : in'[i].part = "header" =>
                   /\ handler[in'[i].req] = "none"
                   /\ ~(loop \in {"body", "refuse"} /\ req = in'[i].req)
             /\ \A i, j \in 1 .. Len(in') :
                   in'[i].part = "header" /\ in'[j].part = "header"
                      /\ in'[i].req = in'[j].req => i = j
  <2>1. \A i, j \in 1 .. Len(in') :
                   in'[i].part = "header" /\ in'[j].part = "header"
                      /\ in'[i].req = in'[j].req => i = j
    <3> SUFFICES ASSUME NEW i \in 1 .. Len(in'), NEW j \in 1 .. Len(in'),
                        in'[i].part = "header", in'[j].part = "header",
                        in'[i].req = in'[j].req
                 PROVE  i = j
      OBVIOUS
    <3>1. /\ i + k \in 1 .. Len(in) /\ in[i + k] = in'[i]
          /\ j + k \in 1 .. Len(in) /\ in[j + k] = in'[j]
      BY <1>2
    <3>2. i + k = j + k
      BY <1>0, <3>1 DEF StreamInv
    <3> QED
      BY <3>2
  <2> QED
    BY <1>0, <1>2, <2>1 DEF StreamInv
<1>3. CASE UNCHANGED <<in, sentReqs, loopVars, handlerVars>>
  <2>1. UNCHANGED <<in, sentReqs, loop, req, handler, failed>>
    BY <1>3 DEF loopVars, handlerVars
  <2> QED
    BY <1>0, <1>1, <2>1 DEF StreamInv
<1>4. ASSUME NEW r \in Requests, ClientSends(r) PROVE StreamInv'
  <2>1. /\ r \notin sentReqs /\ sentReqs' = sentReqs \cup {r}
        /\ in' = in \o <<Part("header", r), Part("body", r)>>
        /\ UNCHANGED <<loop, req, handler, failed>>
    BY <1>4 DEF ClientSends, loopVars, handlerVars
  <2>2. /\ Len(in) \in Nat /\ Len(in') = Len(in) + 2
        /\ \A i \in 1 .. Len(in) : in'[i] = in[i] /\ in[i].req # r
        /\ in'[Len(in) + 1] = Part("header", r) /\ in'[Len(in) + 2] = Part("body", r)
    <3>1. in \in Seq([part : {"header", "body"}, req : Requests])
          /\ Part("header", r) \in [part : {"header", "body"}, req : Requests]
          /\ Part("body", r) \in [part : {"header", "body"}, req : Requests]
      BY <1>0 DEF TypeOK, Part
    <3> HIDE DEF Part
    <3> QED
      BY <1>0, <2>1, <3>1, PairAppended DEF StreamInv
  <2>3. \A i \in 1 .. Len(in') : \/ i \in 1 .. Len(in)
                                 \/ i = Len(in) + 1 /\ in'[i] = Part("header", r)
                                 \/ i = Len(in) + 2 /\ in'[i] = Part("body", r)
    BY <2>2
  <2>4. /\ Part("header", r).part = "header" /\ Part("header", r).req = r
        /\ Part("body", r).part = "body" /\ Part("body", r).req = r
    BY DEF Part
  <2>5. handler[r] = "none" /\ ~(loop \in {"body", "refuse"} /\ req = r)
    BY <1>0, <2>1 DEF StreamInv
  <2>6. ASSUME NEW i \in 1 .. Len(in')
        PROVE  /\ in'[i].req \in sentReqs'
               /\ in'[i].part = "header" =>
                     /\ handler[in'[i].req] = "none"
                     /\ ~(loop \in {"body", "refuse"} /\ req = in'[i].req)
    <3>1. CASE i \in 1 .. Len(in)
      BY <1>0, <2>1, <2>2, <3>1 DEF StreamInv
    <3>2. CASE in'[i] = Part("header", r) \/ in'[i] = Part("body", r)
      BY <2>1, <2>4, <2>5, <3>2
    <3> QED
      BY <2>3, <3>1, <3>2
  <2>7. ASSUME NEW i \in 1 .. Len(in'), NEW j \in 1 .. Len(in'),
               in'[i].part = "header", in'[j].part = "header", in'[i].req = in'[j].req
        PROVE  i = j
    <3>1. CASE i \in 1 .. Len(in) /\ j \in 1 .. Len(in)
      BY <1>0, <2>2, <2>7, <3>1 DEF StreamInv
    <3>2. CASE i = Len(in) + 1 \/ j = Len(in) + 1
      BY <2>2, <2>3, <2>4, <2>7, <3>2
    <3> QED
      BY <2>3, <2>4, <2>7, <3>1, <3>2
  <2> QED
    BY <1>0, <2>1, <2>6, <2>7 DEF StreamInv
<1>5. ASSUME NEW r \in Requests, ClientSendsHeader(r) PROVE StreamInv'
  BY <1>0, <1>5, HeaderStream DEF ClientSendsHeader, loopVars, handlerVars
<1>6. CASE ReadOption
  <2>1. PICK n \in 0 .. Len(in) : in' = SubSeq(in, n + 1, Len(in))
    BY <1>6 DEF ReadOption
  <2>2. /\ n \in Nat /\ Len(in') \in Nat
        /\ \A i \in 1 .. Len(in') : i + n \in 1 .. Len(in) /\ in'[i] = in[i + n]
    <3>1. in \in Seq([part : {"header", "body"}, req : Requests])
      BY <1>0 DEF TypeOK
    <3>2. Len(in) \in Nat /\ n \in Nat /\ n <= Len(in)
      BY <3>1
    <3>3. /\ Len(in') = Len(in) - n
          /\ \A i \in 1 .. Len(in) - n : in'[i] = in[i + n] /\ i + n \in 1 .. Len(in)
      BY <2>1, <3>1, SuffixShift
    <3> QED
      BY <3>2, <3>3
  <2>3. UNCHANGED <<sentReqs, handler>> /\ loop' = "header"
    BY <1>6 DEF ReadOption, handlerVars
  <2> QED
    BY <1>0, <1>2, <2>2, <2>3 DEF StreamInv
<1>7. CASE RefuseOption \/ ReadHeaderFails \/ Close
  <2>1. UNCHANGED <<in, sentReqs, handler>> /\ loop' \in {"wait", "closed"}
    BY <1>7 DEF RefuseOption, ReadHeaderFails, Close, connVars, handlerVars
  <2> QED
    BY <1>1, <2>1
<1>8. CASE ReadHeader
  <2>1. /\ in # << >> /\ in' = Tail(in) /\ req' = in[1].req /\ in[1].part = "header"
        /\ 1 \in 1 .. Len(in) /\ Len(in') \in Nat
        /\ \A i \in 1 .. Len(in') : i + 1 \in 2 .. Len(in) /\ in'[i] = in[i + 1]
    BY <1>0, <1>8, StreamHead DEF ReadHeader, Undecodable
  <2>2. \A i \in 1 .. Len(in') : i + 1 \in 1 .. Len(in) /\ i + 1 # 1
    BY <2>1
  <2>3. UNCHANGED <<sentReqs, handler>>
    BY <1>8 DEF ReadHeader
  <2>4. req' \in sentReqs /\ req' \in Requests /\ handler[req'] = "none"
    BY <1>0, <2>1 DEF StreamInv, TypeOK
  <2>5. \A i \in 1 .. Len(in') : in'[i].part = "header" => in'[i].req # req'
    BY <1>0, <2>1, <2>2 DEF StreamInv
  <2>6. loop' = "refuse" => failed'[req'] = TRUE
    <3>1. (loop' = "refuse" => req' \in Unknown)
          /\ failed' = [failed EXCEPT ![req'] = req' \in Unknown]
      BY <1>8, Zenon DEF ReadHeader
    <3>2. failed'[req'] = (req' \in Unknown)
      BY <1>0, <2>4, <3>1 DEF TypeOK
    <3> QED
      BY <3>1, <3>2
  <2>7. /\ \A i \in 1 .. Len(in') : in'[i].req \in sentReqs'
        /\ \A i \in 1 .. Len(in') : in'[i].part = "header" => handler[in'[i].req] = "none"
        /\ \A i, j \in 1 .. Len(in') :
              in'[i].part = "header" /\ in'[j].part = "header"
                 /\ in'[i].req = in'[j].req => i = j
    BY <1>2, <2>1, <2>2, <2>3
  <2> QED
    BY <1>0, <2>3, <2>4, <2>5, <2>6, <2>7 DEF StreamInv
<1>9. CASE ReadBody
  <2>1. /\ UNCHANGED <<sentReqs, req>> /\ loop = "body"
        /\ Len(in') \in Nat
        /\ \A i \in 1 .. Len(in') : i + 1 \in 1 .. Len(in) /\ in'[i] = in[i + 1]
    <3>1. /\ Len(in') \in Nat /\ Len(in) \in Nat
          /\ \A i \in 1 .. Len(in') : i + 1 \in 2 .. Len(in) /\ in'[i] = in[i + 1]
      BY <1>0, <1>9, StreamHead DEF ReadBody
    <3> QED
      BY <1>9, <3>1 DEF ReadBody
  <2>2. /\ \A i \in 1 .. Len(in') : in'[i].req \in sentReqs'
        /\ \A i \in 1 .. Len(in') : in'[i].part = "header" =>
              handler[in'[i].req] = "none" /\ in'[i].req # req
        /\ \A i, j \in 1 .. Len(in') :
              in'[i].part = "header" /\ in'[j].part = "header"
                 /\ in'[i].req = in'[j].req => i = j
    BY <1>2, <2>1
  <2>3. req \in sentReqs /\ req \in Requests /\ handler[req] = "none"
    BY <1>0, <2>1 DEF StreamInv, TypeOK
  <2>4. CASE Accept(req)
    <3>1. \A r \in Requests \ {req} : handler'[r] = handler[r]
      BY <1>0, <2>4 DEF TypeOK, Accept
    <3>2. \A i \in 1 .. Len(in') : in'[i].req \in Requests
      BY <1>0, <2>1, <2>2 DEF TypeOK
    <3> QED
      BY <1>0, <2>1, <2>2, <2>3, <2>4, <3>1, <3>2 DEF StreamInv, Accept
  <2>5. CASE Refuse(req)
    <3>1. UNCHANGED handler /\ loop' = "refuse" /\ failed'[req]
      BY <1>0, <2>3, <2>5 DEF TypeOK, Refuse
    <3> QED
      BY <1>0, <2>1, <2>2, <2>3, <3>1 DEF StreamInv
  <2> QED
    BY <1>9, <2>4, <2>5 DEF ReadBody
<1>10. CASE ReadBodyFails
  <2>1. /\ UNCHANGED <<in, sentReqs, req, handler>> /\ loop = "body"
        /\ failed' = [failed EXCEPT ![req] = TRUE]
    BY <1>10 DEF ReadBodyFails, Refuse, connVars
  <2>2. req \in Requests
    BY <1>0, <2>1 DEF StreamInv, TypeOK
  <2>3. failed'[req]
    BY <1>0, <2>1, <2>2 DEF TypeOK
  <2> QED
    BY <1>1, <2>1, <2>3
<1>11. ASSUME NEW r \in Requests, Handle(r) \/ MethodReturns(r) PROVE StreamInv'
  <2>1. UNCHANGED <<in, sentReqs, loop, req>>
    BY <1>11 DEF Handle, Called, HandleTimeout, Sent, MethodReturns, connVars, loopVars
  <2>2. /\ \A q \in Requests : handler'[q] = "none" <=> handler[q] = "none"
        /\ \A q \in Requests : handler[q] = "none" => failed'[q] = failed[q]
    <3>1. CASE Called(r)
      <4>1. PICK err \in BOOLEAN : failed' = [failed EXCEPT ![r] = err]
        BY <3>1 DEF Called
      <4> QED
        BY <1>0, <3>1, <4>1 DEF TypeOK, Called, TakesCalled
    <3>2. CASE HandleTimeout(r)
      BY <1>0, <3>2 DEF TypeOK, HandleTimeout, Expire
    <3>3. CASE Sent(r) \/ MethodReturns(r)
      BY <1>0, <3>3 DEF TypeOK, Sent, MethodReturns
    <3> QED
      BY <1>11, <3>1, <3>2, <3>3 DEF Handle
  <2>3. loop = "refuse" => req \in Requests /\ handler[req] = "none" /\ failed[req]
    BY <1>0 DEF StreamInv, TypeOK
  <2> QED
    BY <1>1, <2>1, <2>2, <2>3
<1>12. ASSUME NEW w \in Writers, WriteBody(w) \/ WriteFails(w) PROVE StreamInv'
  <2>1. Responded(w) /\ Wants(w) /\ UNCHANGED <<in, sentReqs, req, failed>>
    BY <1>0, <1>12, Alone DEF WriteBody, WriteFails, connVars
  <2>2. \A q \in Requests : handler'[q] = "none" <=> handler[q] = "none"
    BY <1>0, <2>1 DEF TypeOK, Responded, Wants
  <2>3. loop' = "header" \/ loop' = loop
    BY <2>1 DEF Responded
  <2> QED
    BY <1>0, <1>1, <2>1, <2>2, <2>3 DEF StreamInv
<1> QED
  BY <1>3, <1>4, <1>5, <1>6, <1>7, <1>8, <1>9, <1>10, <1>11, <1>12 DEF Next, Client,
     PeerLeaves, Loop, Respond, Lock, WriteHeader, vars, connVars, loopVars, handlerVars

------------------------------------------------------------------------------
(* A request is answered once: nothing makes a request whose response has  *)
(* been begun one whose response is still to come.                         *)

\* The request is somewhere between the client and its last writer.
Waiting(r) == \/ r \notin sentReqs
              \/ \E i \in 1 .. Len(in) : in[i] = Part("header", r)
              \/ loop \in {"body", "refuse"} /\ req = r
              \/ handler[r] \in {"select", "timedOut", "waitSent"}

LEMMA UnansweredStep ==
    ASSUME IInv, [Next]_vars, NEW r \in Requests, Unanswered(r)'
    PROVE  Unanswered(r)
<1> USE WriterFacts
<1>0. TypeOK /\ MutexInv /\ HandlerInv /\ StreamInv
  BY DEF IInv
<1>1. Waiting(r)' /\ method'[r] # "sent" /\ \A w \in Writers : w.req = r => phase'[w] # "body"
  BY DEF Unanswered, Waiting
<1>2. ASSUME Waiting(r), method[r] # "sent",
             \A w \in Writers : w.req = r => phase[w] # "body"
      PROVE  Unanswered(r)
  BY <1>2 DEF Unanswered, Waiting
<1>3. ASSUME UNCHANGED <<handler, method, phase>>, sentReqs \subseteq sentReqs',
             \A i \in 1 .. Len(in') : in'[i] = Part("header", r) => Waiting(r),
             loop' \in {"body", "refuse"} /\ req' = r => Waiting(r)
      PROVE  Unanswered(r)
  <2>1. Waiting(r)
    BY <1>1, <1>3 DEF Waiting
  <2> QED
    BY <1>1, <1>2, <1>3, <2>1
<1>4. ASSUME NEW k \in Nat,
             \A i \in 1 .. Len(in') : i + k \in 1 .. Len(in) /\ in'[i] = in[i + k]
      PROVE  \A i \in 1 .. Len(in') : in'[i] = Part("header", r) => Waiting(r)
  BY <1>4 DEF Waiting
<1>5. CASE UNCHANGED <<in, sentReqs, loopVars, handlerVars, phase>>
  BY <1>1, <1>5 DEF Unanswered, Waiting, loopVars, handlerVars
<1>6. ASSUME NEW q \in Requests, ClientSends(q) \/ ClientSendsHeader(q) PROVE Unanswered(r)
  <2>1. ASSUME NEW i \in 1 .. Len(in'), in'[i] = Part("header", r) PROVE Waiting(r)
    <3>1. in \in Seq([part : {"header", "body"}, req : Requests])
          /\ Part("header", q) \in [part : {"header", "body"}, req : Requests]
          /\ Part("body", q) \in [part : {"header", "body"}, req : Requests]
      BY <1>0 DEF TypeOK, Part
    <3>2. \/ i \in 1 .. Len(in) /\ in'[i] = in[i]
          \/ in'[i] = Part("header", q)
          \/ in'[i] = Part("body", q)
      <4> HIDE DEF Part
      <4>1. CASE ClientSends(q)
        <5>1. /\ Len(in) \in Nat /\ Len(in') = Len(in) + 2
              /\ \A j \in 1 .. Len(in) : in'[j] = in[j]
              /\ in'[Len(in) + 1] = Part("header", q) /\ in'[Len(in) + 2] = Part("body", q)
          BY <3>1, <4>1, PairAppended DEF ClientSends
        <5> QED
          BY <5>1
      <4>2. CASE ClientSendsHeader(q)
        <5>1. /\ Len(in) \in Nat /\ Len(in') = Len(in) + 1
              /\ \A j \in 1 .. Len(in) : in'[j] = in[j]
              /\ in'[Len(in) + 1] = Part("header", q)
          BY <3>1, <4>2, AppendLast DEF ClientSendsHeader
        <5> QED
          BY <5>1
      <4> QED
        BY <1>6, <4>1, <4>2
    <3>3. Part("header", q) = Part("header", r) => q = r
      BY DEF Part
    <3>4. Part("body", q) # Part("header", r)
      BY DEF Part
    <3>5. q \notin sentReqs
      BY <1>6 DEF ClientSends, ClientSendsHeader
    <3> QED
      BY <2>1, <3>2, <3>3, <3>4, <3>5 DEF Waiting
  <2>2. /\ UNCHANGED <<loop, req, handler, method, phase>>
        /\ sentReqs \subseteq sentReqs'
    BY <1>6 DEF ClientSends, ClientSendsHeader, loopVars, handlerVars, sendVars
  <2> QED
    BY <1>3, <2>1, <2>2 DEF Waiting
<1>7. CASE ReadOption
  <2>1. PICK n \in 0 .. Len(in) : in' = SubSeq(in, n + 1, Len(in))
    BY <1>7 DEF ReadOption
  <2>2. n \in Nat /\ \A i \in 1 .. Len(in') : i + n \in 1 .. Len(in) /\ in'[i] = in[i + n]
    <3>1. in \in Seq([part : {"header", "body"}, req : Requests])
      BY <1>0 DEF TypeOK
    <3>2. Len(in) \in Nat /\ n \in Nat
      BY <3>1
    <3>3. /\ Len(in') = Len(in) - n
          /\ \A i \in 1 .. Len(in) - n : in'[i] = in[i + n] /\ i + n \in 1 .. Len(in)
      BY <2>1, <3>1, SuffixShift
    <3> QED
      BY <3>2, <3>3
  <2>3. UNCHANGED <<sentReqs, handler, method, phase>> /\ loop' = "header"
    BY <1>7 DEF ReadOption, handlerVars, sendVars
  <2> QED
    BY <1>3, <1>4, <2>2, <2>3
<1>8. CASE ReadHeader
  <2>1. /\ req' = in[1].req /\ in[1] = Part("header", in[1].req) /\ 1 \in 1 .. Len(in)
        /\ \A i \in 1 .. Len(in') : i + 1 \in 1 .. Len(in) /\ in'[i] = in[i + 1]
    <3>1. /\ in # << >> /\ in' = Tail(in) /\ req' = Head(in).req
          /\ Head(in).part # "body"
      BY <1>8 DEF ReadHeader, Undecodable
    <3>2. /\ Head(in) = in[1] /\ 1 \in 1 .. Len(in) /\ Len(in) \in Nat
          /\ in[1].part \in {"header", "body"}
          /\ \A i \in 1 .. Len(in') : i + 1 \in 2 .. Len(in) /\ in'[i] = in[i + 1]
      BY <1>0, <3>1, StreamHead
    <3>3. in[1] \in [part : {"header", "body"}, req : Requests]
      <4>1. in \in Seq([part : {"header", "body"}, req : Requests])
        BY <1>0 DEF TypeOK
      <4> QED
        BY <3>2, <4>1, Element
    <3>4. in[1] = Part("header", in[1].req)
      BY <3>1, <3>2, <3>3 DEF Part
    <3> QED
      BY <3>1, <3>2, <3>4
  <2>2. UNCHANGED <<sentReqs, handler, method, phase>>
    BY <1>8 DEF ReadHeader, sendVars
  <2>3. req' = r => Waiting(r)
    BY <2>1 DEF Waiting
  <2>4. \A i \in 1 .. Len(in') : in'[i] = Part("header", r) => Waiting(r)
    BY <1>4, <2>1
  <2> QED
    BY <1>3, <2>2, <2>3, <2>4
<1>9. CASE ReadBody
  <2>1. /\ \A i \in 1 .. Len(in') : i + 1 \in 1 .. Len(in) /\ in'[i] = in[i + 1]
        /\ UNCHANGED <<sentReqs, req, phase>> /\ loop = "body"
    <3>1. /\ Len(in) \in Nat
          /\ \A i \in 1 .. Len(in') : i + 1 \in 2 .. Len(in) /\ in'[i] = in[i + 1]
      BY <1>0, <1>9, StreamHead DEF ReadBody
    <3> QED
      BY <1>9, <3>1 DEF ReadBody, sendVars
  <2>2. /\ \A i \in 1 .. Len(in') : in'[i] = Part("header", r) => Waiting(r)
        /\ req = r => Waiting(r)
    BY <1>4, <2>1 DEF Waiting
  <2>3. CASE Accept(req)
    <3>1. req \in Requests /\ method[req] = "none"
      BY <1>0, <2>1 DEF StreamInv, TypeOK, HandlerInv
    <3>2. r # req => handler'[r] = handler[r] /\ method'[r] = method[r]
      BY <1>0, <2>3 DEF TypeOK, Accept
    <3>3. loop' = "header"
      BY <2>3 DEF Accept
    <3>4. Waiting(r)
      BY <1>1, <2>1, <2>2, <3>2, <3>3 DEF Waiting
    <3> QED
      BY <1>1, <1>2, <2>1, <3>1, <3>2, <3>4
  <2>4. CASE Refuse(req)
    BY <1>3, <2>1, <2>2, <2>4 DEF Refuse
  <2> QED
    BY <1>9, <2>3, <2>4 DEF ReadBody
<1>10. CASE RefuseOption \/ ReadHeaderFails \/ ReadBodyFails \/ Close
  <2>1. /\ UNCHANGED <<in, sentReqs, req, handler, method, phase>>
        /\ loop' \in {"body", "refuse"} => loop = "body"
    BY <1>10 DEF RefuseOption, ReadHeaderFails, ReadBodyFails, Refuse, Close,
         connVars, handlerVars, sendVars
  <2> QED
    BY <1>3, <2>1 DEF Waiting
<1>11. ASSUME NEW q \in Requests, Handle(q) \/ MethodReturns(q) PROVE Unanswered(r)
  <2>1. UNCHANGED <<in, sentReqs, loop, req, phase>>
    BY <1>11 DEF Handle, Called, HandleTimeout, Sent, MethodReturns, connVars, loopVars,
         sendVars
  <2>2. CASE q = r /\ Sent(q)
    <3>1. handler[r] # "none" /\ handler'[r] = "done"
      BY <1>0, <2>2 DEF TypeOK, Sent
    <3>2. ~Waiting(r)'
      BY <1>0, <2>1, <3>1, HandledGone DEF Waiting
    <3> QED
      BY <1>1, <3>2
  <2>3. CASE q # r \/ ~Sent(q)
    <3>1. /\ handler[r] = handler'[r] \/ handler[r] = "select"
          /\ method[r] = method'[r] \/ method[r] \in {"calling", "called"}
      BY <1>0, <1>11, <2>3 DEF TypeOK, Handle, Called, TakesCalled, HandleTimeout, Sent,
           MethodReturns
    <3> QED
      BY <1>1, <1>2, <2>1, <3>1 DEF Waiting
  <2> QED
    BY <2>2, <2>3
<1>12. ASSUME NEW w \in Writers, Lock(w) \/ WriteHeader(w) PROVE Unanswered(r)
  <2>1. UNCHANGED <<in, sentReqs, loop, req, handler, method>>
    BY <1>12 DEF Lock, WriteHeader, connVars, loopVars, handlerVars
  <2>2. \A v \in Writers : phase[v] = "body" => phase'[v] = "body"
    BY <1>0, <1>12 DEF TypeOK, Lock, WriteHeader
  <2> QED
    BY <1>1, <1>2, <2>1, <2>2 DEF Waiting
<1>13. ASSUME NEW w \in Writers, WriteBody(w) \/ WriteFails(w) PROVE Unanswered(r)
  <2>1. /\ Responded(w) /\ Wants(w) /\ UNCHANGED <<in, sentReqs, req>>
        /\ \A v \in Writers \ {w} : phase[v] = "none"
    BY <1>0, <1>13, Alone DEF WriteBody, WriteFails, connVars
  <2>2. CASE r = w.req
    <3>1. CASE w.who = "loop"
      <4>1. loop = "refuse" /\ req = r /\ loop' = "header" /\ handler' = handler
        BY <2>1, <2>2, <3>1 DEF Wants, Responded
      <4>2. ~Waiting(r)'
        BY <1>0, <2>1, <4>1, RefusedGone DEF Waiting, StreamInv
      <4> QED
        BY <1>1, <4>2
    <3>2. CASE w.who = "handler"
      <4>1. handler[r] = "timedOut" /\ handler'[r] = "done" /\ loop' = loop
        BY <1>0, <2>1, <2>2, <3>2 DEF TypeOK, Wants, Responded
      <4>2. ~Waiting(r)'
        BY <1>0, <2>1, <4>1, HandledGone DEF Waiting
      <4> QED
        BY <1>1, <4>2
    <3>3. CASE w.who = "method"
      <4>1. method' = [method EXCEPT ![r] = "sent"]
        BY <2>1, <2>2, <3>3 DEF Responded
      <4> QED
        BY <1>0, <1>1, <4>1 DEF TypeOK
    <3> QED
      BY <3>1, <3>2, <3>3
  <2>3. CASE r # w.req
    <3>1. /\ handler'[r] = handler[r] /\ method'[r] = method[r]
          /\ loop' \in {"body", "refuse"} => loop' = loop
      BY <1>0, <2>1, <2>3 DEF TypeOK, Responded
    <3>2. \A v \in Writers : v.req = r => phase[v] # "body"
      BY <2>1, <2>3
    <3> QED
      BY <1>1, <1>2, <2>1, <3>1, <3>2 DEF Waiting
  <2> QED
    BY <2>2, <2>3
<1> QED
  BY <1>5, <1>6, <1>7, <1>8, <1>9, <1>10, <1>11, <1>12, <1>13 DEF Next, Client, PeerLeaves,
     Loop, Respond, vars, connVars, loopVars, handlerVars, sendVars

------------------------------------------------------------------------------
(* The responses.                                                          *)

\* What a writer delivers is the last element of the responses.
LEMMA Delivered ==
    ASSUME TypeOK, NEW w \in Writers, NEW p \in {"header", "body"}, Deliver(p, w.req)
    PROVE  /\ Len(out) \in Nat
           /\ hungUp # "no" => UNCHANGED out
           /\ hungUp = "no" =>
                 /\ Len(out') = Len(out) + 1
                 /\ \A i \in 1 .. Len(out) : out'[i] = out[i]
                 /\ out'[Len(out) + 1] =
                       [part |-> p, req |-> w.req, error |-> failed[w.req]]
                 /\ out'[Len(out) + 1].part = p /\ out'[Len(out) + 1].req = w.req
                 /\ out'[Len(out) + 1].error = failed[w.req]
                 /\ \A i \in 1 .. Len(out') : i \in 1 .. Len(out) \/ i = Len(out) + 1
<1>1. /\ out \in Seq([part : {"header", "body"}, req : Requests, error : BOOLEAN])
      /\ [part |-> p, req |-> w.req, error |-> failed[w.req]]
           \in [part : {"header", "body"}, req : Requests, error : BOOLEAN]
  BY WriterFacts DEF TypeOK
<1> QED
  BY <1>1, AppendLast DEF Deliver

\* Only sendResponse writes to the connection.
LEMMA OutStep ==
    ASSUME [Next]_vars, ~UNCHANGED out
    PROVE  \E w \in Writers : WriteHeader(w) \/ WriteBody(w)
  BY DEF Next, Client, ClientSends, ClientSendsHeader, PeerLeaves, Loop, ReadOption,
     RefuseOption, ReadHeader, ReadHeaderFails, ReadBody, ReadBodyFails, Close, Handle, Called,
     HandleTimeout, Sent, MethodReturns, Respond, Lock, WriteFails, vars, connVars, loopVars,
     handlerVars, sendVars

\* Whoever begins a response is the first to do so for its request.
LEMMA FirstWriter ==
    ASSUME IInv, NEW w \in Writers, phase[w] = "header"
    PROVE  Unanswered(w.req)
<1>1. w.req \in Requests /\ w.who \in {"loop", "handler", "method"}
  BY WriterFacts
<1>2. Wants(w) /\ \A v \in Writers \ {w} : phase[v] = "none"
  BY Alone DEF IInv
<1>3. HandlerInv /\ StreamInv
  BY DEF IInv
<1>4. method[w.req] # "sent"
  BY <1>1, <1>2, <1>3 DEF Wants, HandlerInv, StreamInv
<1>5. (loop = "refuse" /\ req = w.req) \/ handler[w.req] \in {"timedOut", "waitSent"}
  BY <1>1, <1>2, <1>3 DEF Wants, HandlerInv
<1> QED
  BY <1>2, <1>4, <1>5 DEF Unanswered

LEMMA FreshStep == IInv /\ [Next]_vars => FreshInv'
<1> SUFFICES ASSUME IInv, [Next]_vars, NEW r \in Requests, Unanswered(r)'
             PROVE  \A i \in 1 .. Len(out') : out'[i].req # r
  BY DEF FreshInv
<1>1. Unanswered(r) /\ \A i \in 1 .. Len(out) : out[i].req # r
  BY UnansweredStep DEF IInv, FreshInv
<1>2. ASSUME NEW w \in Writers, NEW p \in {"header", "body"}, Deliver(p, w.req), w.req # r
      PROVE  \A i \in 1 .. Len(out') : out'[i].req # r
  <2>1. TypeOK
    BY DEF IInv
  <2>2. CASE hungUp # "no"
    BY <1>1, <1>2, <2>1, <2>2, Delivered
  <2>3. CASE hungUp = "no"
    <3>1. /\ \A i \in 1 .. Len(out) : out'[i] = out[i]
          /\ out'[Len(out) + 1].req = w.req
          /\ \A i \in 1 .. Len(out') : i \in 1 .. Len(out) \/ i = Len(out) + 1
      BY <1>2, <2>1, <2>3, Delivered
    <3> QED
      BY <1>1, <1>2, <3>1
  <2> QED
    BY <2>2, <2>3
<1>3. ASSUME NEW w \in Writers, WriteHeader(w) PROVE \A i \in 1 .. Len(out') : out'[i].req # r
  <2>1. phase'[w] = "body"
    BY <1>3 DEF WriteHeader, IInv, TypeOK
  <2>2. w.req # r
    BY <2>1 DEF Unanswered
  <2> QED
    BY <1>2, <1>3, <2>2 DEF WriteHeader
<1>4. ASSUME NEW w \in Writers, WriteBody(w) PROVE \A i \in 1 .. Len(out') : out'[i].req # r
  <2>1. w.req # r
    BY <1>1, <1>4 DEF Unanswered, WriteBody
  <2> QED
    BY <1>2, <1>4, <2>1 DEF WriteBody
<1> QED
  BY <1>1, <1>3, <1>4, OutStep

\* Nobody sets h.Error of a request while its response is written.
LEMMA ErrorKept ==
    ASSUME IInv, [Next]_vars, NEW w \in Writers, phase[w] = "body"
    PROVE  failed'[w.req] = failed[w.req]
<1> USE WriterFacts
<1>0. TypeOK /\ HandlerInv /\ StreamInv
  BY DEF IInv
<1>1. Wants(w)
  BY Alone DEF IInv
<1>2. /\ handler[w.req] = "none" => method[w.req] = "none"
      /\ loop = "refuse" /\ req = w.req => handler[w.req] = "none"
      /\ method[w.req] = "respond" => handler[w.req] = "waitSent"
  BY <1>0 DEF HandlerInv, StreamInv
<1>3. ASSUME NEW q \in Requests, NEW b \in BOOLEAN, failed' = [failed EXCEPT ![q] = b], q # w.req
      PROVE  failed'[w.req] = failed[w.req]
  BY <1>0, <1>3 DEF TypeOK
<1>4. CASE UNCHANGED failed
  BY <1>4
<1>5. CASE ReadHeader
  <2>1. /\ in # << >> /\ req' = Head(in).req /\ Head(in).part # "body" /\ loop = "header"
        /\ failed' = [failed EXCEPT ![req'] = req' \in Unknown]
    BY <1>5, Zenon DEF ReadHeader, Undecodable
  <2>2. req' \in Requests /\ handler[req'] = "none"
    BY <1>0, <2>1, StreamHead DEF StreamInv
  <2>3. req' # w.req
    BY <1>1, <1>2, <2>1, <2>2 DEF Wants
  <2> QED
    BY <1>0, <2>1, <2>3 DEF TypeOK
<1>6. CASE ReadBody \/ ReadBodyFails
  <2>1. req \in Requests /\ handler[req] = "none" /\ loop = "body"
    BY <1>0, <1>6 DEF ReadBody, ReadBodyFails, StreamInv, TypeOK
  <2>2. req # w.req
    BY <1>1, <1>2, <2>1 DEF Wants
  <2> QED
    BY <1>3, <1>4, <1>6, <2>1, <2>2 DEF ReadBody, ReadBodyFails, Accept, Refuse
<1>7. ASSUME NEW q \in Requests, Called(q) \/ HandleTimeout(q)
      PROVE  failed'[w.req] = failed[w.req]
  <2>1. handler[q] = "select"
    BY <1>7 DEF Called, TakesCalled, HandleTimeout
  <2>2. q # w.req
    BY <1>1, <1>2, <2>1 DEF Wants
  <2> QED
    BY <1>3, <1>7, <2>2 DEF Called, HandleTimeout, Expire
<1> QED
  BY <1>4, <1>5, <1>6, <1>7 DEF Next, Client, ClientSends, ClientSendsHeader, PeerLeaves,
     Loop, ReadOption, RefuseOption, ReadHeaderFails, Close, Handle, Sent, MethodReturns,
     Respond, Lock, WriteHeader, WriteBody, WriteFails, vars, handlerVars

\* A connection that is gone does not come back.
LEMMA HungUpStep == ASSUME [Next]_vars, hungUp' = "no" PROVE hungUp = "no"
  BY DEF Next, Client, ClientSends, ClientSendsHeader, PeerLeaves, Loop, ReadOption,
     RefuseOption, ReadHeader, ReadHeaderFails, ReadBody, ReadBodyFails, Close, Handle, Called,
     HandleTimeout, Sent, MethodReturns, Respond, Lock, WriteHeader, WriteBody, WriteFails, vars,
     connVars

LEMMA TailStep == IInv /\ [Next]_vars => TailInv'
<1> SUFFICES ASSUME IInv, [Next]_vars, hungUp' = "no" PROVE TailInv'
  BY DEF TailInv
<1>0. TypeOK /\ MutexInv /\ TailInv /\ hungUp = "no"
  BY HungUpStep DEF IInv
<1>1. ASSUME UNCHANGED out, \A w \in Writers : phase'[w] = "body" <=> phase[w] = "body"
      PROVE  TailInv'
  <2>1. \A w \in Writers : phase[w] = "body" => failed'[w.req] = failed[w.req]
    BY ErrorKept
  <2> QED
    BY <1>0, <1>1, <2>1 DEF TailInv
<1>2. ASSUME NEW w \in Writers, Lock(w) PROVE TailInv'
  <2>1. UNCHANGED out /\ \A v \in Writers : phase'[v] = "body" <=> phase[v] = "body"
    BY <1>0, <1>2 DEF TypeOK, Lock
  <2> QED
    BY <1>1, <2>1
<1>3. ASSUME NEW w \in Writers, WriteHeader(w) PROVE TailInv'
  <2>1. /\ phase'[w] = "body" /\ UNCHANGED failed /\ Deliver("header", w.req)
        /\ \A v \in Writers \ {w} : phase'[v] = "none"
    BY <1>0, <1>3, Alone DEF TypeOK, WriteHeader, handlerVars
  <2>2. /\ Len(out) \in Nat /\ Len(out') = Len(out) + 1
        /\ out'[Len(out) + 1] = [part |-> "header", req |-> w.req, error |-> failed[w.req]]
    BY <1>0, <2>1, Delivered
  <2>3. out' # << >>
    BY <2>2
  <2> QED
    BY <2>1, <2>2, <2>3 DEF TailInv
<1>4. ASSUME NEW w \in Writers, WriteBody(w) PROVE TailInv'
  <2>1. \A v \in Writers : phase'[v] = "none"
    BY <1>0, <1>4, Alone DEF TypeOK, WriteBody, Responded
  <2>2. /\ Len(out) \in Nat /\ Len(out') = Len(out) + 1
        /\ out'[Len(out) + 1] = [part |-> "body", req |-> w.req, error |-> failed[w.req]]
    BY <1>0, <1>4, Delivered DEF WriteBody
  <2> QED
    BY <2>1, <2>2 DEF TailInv
<1>5. ASSUME NEW w \in Writers, WriteFails(w) PROVE TailInv'
  BY <1>5 DEF WriteFails
<1>6. CASE UNCHANGED <<out, phase>>
  BY <1>1, <1>6
<1> QED
  BY <1>2, <1>3, <1>4, <1>5, <1>6 DEF Next, Client, ClientSends, ClientSendsHeader, PeerLeaves,
     Loop, ReadOption, RefuseOption, ReadHeader, ReadHeaderFails, ReadBody, ReadBodyFails, Close,
     Handle, Called, HandleTimeout, Sent, MethodReturns, Respond, vars, sendVars

LEMMA OneResponseStep == IInv /\ [Next]_vars => OneResponse'
<1> SUFFICES ASSUME IInv, [Next]_vars PROVE OneResponse'
  OBVIOUS
<1>0. TypeOK /\ OneResponse
  BY DEF IInv
<1>1. CASE UNCHANGED out
  BY <1>0, <1>1 DEF OneResponse
<1>2. ASSUME NEW w \in Writers, NEW p \in {"header", "body"}, Deliver(p, w.req),
             p = "header" => \A i \in 1 .. Len(out) : out[i].req # w.req
      PROVE  OneResponse'
  <2>1. CASE hungUp # "no"
    BY <1>0, <1>1, <1>2, <2>1, Delivered
  <2>2. CASE hungUp = "no"
    <3>1. /\ Len(out) \in Nat /\ Len(out') = Len(out) + 1
          /\ \A i \in 1 .. Len(out) : out'[i] = out[i]
          /\ out'[Len(out) + 1].part = p /\ out'[Len(out) + 1].req = w.req
      BY <1>0, <1>2, <2>2, Delivered
    <3>2. \A i \in 1 .. Len(out') : i \in 1 .. Len(out) \/ i = Len(out) + 1
      BY <3>1
    <3> SUFFICES ASSUME NEW i \in 1 .. Len(out'), NEW j \in 1 .. Len(out'),
                        out'[i].part = "header", out'[j].part = "header",
                        out'[i].req = out'[j].req
                 PROVE  i = j
      BY DEF OneResponse
    <3>3. CASE i \in 1 .. Len(out) /\ j \in 1 .. Len(out)
      BY <1>0, <3>1, <3>3 DEF OneResponse
    <3>4. CASE i = Len(out) + 1 /\ j \in 1 .. Len(out)
      BY <1>2, <3>1, <3>4
    <3>5. CASE j = Len(out) + 1 /\ i \in 1 .. Len(out)
      BY <1>2, <3>1, <3>5
    <3> QED
      BY <3>2, <3>3, <3>4, <3>5
  <2> QED
    BY <2>1, <2>2
<1>3. ASSUME NEW w \in Writers, WriteHeader(w) PROVE OneResponse'
  <2>1. \A i \in 1 .. Len(out) : out[i].req # w.req
    BY <1>3, FirstWriter, WriterFacts DEF IInv, FreshInv, WriteHeader
  <2> QED
    BY <1>2, <1>3, <2>1 DEF WriteHeader
<1>4. ASSUME NEW w \in Writers, WriteBody(w) PROVE OneResponse'
  BY <1>2, <1>4 DEF WriteBody
<1> QED
  BY <1>1, <1>3, <1>4, OutStep

LEMMA FramedStep == IInv /\ [Next]_vars => Framed'
<1> SUFFICES ASSUME IInv, [Next]_vars PROVE Framed'
  OBVIOUS
<1>0. TypeOK /\ MutexInv /\ TailInv /\ Framed
  BY DEF IInv
<1>1. CASE UNCHANGED out
  BY <1>0, <1>1 DEF Framed
<1>2. ASSUME NEW w \in Writers, NEW p \in {"header", "body"}, Deliver(p, w.req),
             p = "header" /\ hungUp = "no" => (out = << >> \/ out[Len(out)].part = "body"),
             p = "body" /\ hungUp = "no" => /\ out # << >>
                /\ out[Len(out)] = [part |-> "header", req |-> w.req, error |-> failed[w.req]]
      PROVE  Framed'
  <2>1. CASE hungUp # "no"
    BY <1>0, <1>1, <1>2, <2>1, Delivered
  <2>2. CASE hungUp = "no"
    <3> DEFINE n == Len(out)
               e == [part |-> p, req |-> w.req, error |-> failed[w.req]]
    <3>1. /\ n \in Nat /\ Len(out') = n + 1
          /\ \A i \in 1 .. n : out'[i] = out[i]
          /\ out'[n + 1] = e
      BY <1>0, <1>2, <2>2, Delivered
    <3>2. out # << >> => n \in 1 .. n
      BY <1>0 DEF TypeOK
    <3>3. n > 0 => out # << >>
      OBVIOUS
    <3>4. e.part = p /\ (p = "body" => /\ n \in 1 .. n /\ n + 1 > 1
                                       /\ out[n] = [e EXCEPT !.part = "header"])
      BY <1>2, <2>2, <3>1, <3>2
    <3>5. p = "header" /\ n \in 1 .. n => out[n].part = "body"
      BY <1>2, <2>2, <3>1, <3>3
    <3> HIDE DEF e
    <3> SUFFICES ASSUME NEW i \in 1 .. Len(out')
                 PROVE  /\ out'[i].part = "body" =>
                              i > 1 /\ out'[i - 1] = [out'[i] EXCEPT !.part = "header"]
                        /\ out'[i].part = "header" /\ i < Len(out') =>
                              out'[i + 1].part = "body"
      BY DEF Framed
    <3>6. CASE i = n + 1
      <4>1. out'[i].part = "body" => i > 1 /\ out'[i - 1] = [out'[i] EXCEPT !.part = "header"]
        BY <3>1, <3>4, <3>6
      <4> QED
        BY <3>1, <3>6, <4>1
    <3>7. CASE i \in 1 .. n
      <4>1. out'[i].part = "body" => i > 1 /\ out'[i - 1] = [out'[i] EXCEPT !.part = "header"]
        BY <1>0, <3>1, <3>7 DEF Framed
      <4>2. ASSUME out'[i].part = "header" PROVE out'[i + 1].part = "body"
        <5>1. CASE i = n
          <6>1. p = "body"
            BY <1>2, <3>1, <3>5, <3>7, <4>2, <5>1
          <6> QED
            BY <3>1, <3>4, <5>1, <6>1
        <5>2. CASE i # n
          <6>1. i < n /\ i + 1 \in 1 .. n
            BY <3>1, <3>7, <5>2
          <6> QED
            BY <1>0, <3>1, <3>7, <4>2, <6>1 DEF Framed
        <5> QED
          BY <5>1, <5>2
      <4> QED
        BY <4>1, <4>2
    <3> QED
      BY <3>1, <3>6, <3>7
  <2> QED
    BY <2>1, <2>2
<1>3. ASSUME NEW w \in Writers, WriteHeader(w) PROVE Framed'
  <2>1. \A v \in Writers : phase[v] # "body"
    BY <1>0, <1>3, Alone DEF WriteHeader
  <2>2. hungUp = "no" => out = << >> \/ out[Len(out)].part = "body"
    BY <1>0, <2>1 DEF TailInv
  <2> QED
    BY <1>2, <1>3, <2>2 DEF WriteHeader
<1>4. ASSUME NEW w \in Writers, WriteBody(w) PROVE Framed'
  <2>1. hungUp = "no" => /\ out # << >>
           /\ out[Len(out)] = [part |-> "header", req |-> w.req, error |-> failed[w.req]]
    BY <1>0, <1>4 DEF TailInv, WriteBody
  <2> QED
    BY <1>2, <1>4, <2>1 DEF WriteBody
<1> QED
  BY <1>1, <1>3, <1>4, OutStep

LEMMA TruthfulStep == IInv /\ [Next]_vars => Truthful'
<1> SUFFICES ASSUME IInv, [Next]_vars PROVE Truthful'
  OBVIOUS
<1> USE WriterFacts
<1>0. TypeOK /\ HandlerInv /\ StreamInv /\ Truthful
  BY DEF IInv
<1>1. ASSUME NEW r \in Requests, method[r] \in {"respond", "sent", "done"}
      PROVE  method'[r] \in {"respond", "sent", "done"}
  <2>1. CASE UNCHANGED method
    BY <1>1, <2>1
  <2>2. CASE ReadBody
    <3>1. req \in Requests /\ method[req] = "none"
      BY <1>0, <2>2 DEF ReadBody, StreamInv, TypeOK, HandlerInv
    <3> QED
      BY <1>0, <1>1, <2>2, <3>1 DEF TypeOK, ReadBody, Accept, Refuse
  <2>3. ASSUME NEW q \in Requests, Called(q) \/ Sent(q) \/ MethodReturns(q)
        PROVE  method'[r] \in {"respond", "sent", "done"}
    BY <1>0, <1>1, <2>3 DEF TypeOK, Called, Sent, MethodReturns
  <2>4. ASSUME NEW w \in Writers, Responded(w)
        PROVE  method'[r] \in {"respond", "sent", "done"}
    BY <1>0, <1>1, <2>4 DEF TypeOK, Responded
  <2> QED
    BY <2>1, <2>2, <2>3, <2>4 DEF Next, Client, ClientSends, ClientSendsHeader, PeerLeaves,
       Loop, ReadOption, RefuseOption, ReadHeader, ReadHeaderFails, ReadBodyFails, Refuse, Close,
       Handle, HandleTimeout, Respond, Lock, WriteHeader, WriteBody, WriteFails, vars, handlerVars
<1>2. ASSUME NEW i \in 1 .. Len(out) PROVE out[i].req \in Requests
  <2>1. out[i] \in [part : {"header", "body"}, req : Requests, error : BOOLEAN]
    BY <1>0, Element DEF TypeOK
  <2> QED
    BY <2>1
<1>3. \A i \in 1 .. Len(out) : ~out[i].error =>
         method'[out[i].req] \in {"respond", "sent", "done"}
  BY <1>0, <1>1, <1>2 DEF Truthful
<1>4. CASE UNCHANGED out
  BY <1>3, <1>4 DEF Truthful
<1>5. ASSUME NEW w \in Writers, NEW p \in {"header", "body"}, Deliver(p, w.req), Wants(w)
      PROVE  Truthful'
  <2>1. ~failed[w.req] => method[w.req] \in {"respond", "sent", "done"}
    BY <1>0, <1>5 DEF Wants, HandlerInv, StreamInv
  <2>2. ~failed[w.req] => method'[w.req] \in {"respond", "sent", "done"}
    BY <1>1, <2>1
  <2>3. CASE hungUp # "no"
    BY <1>0, <1>4, <1>5, <2>3, Delivered
  <2>4. CASE hungUp = "no"
    <3>1. /\ Len(out) \in Nat /\ Len(out') = Len(out) + 1
          /\ \A i \in 1 .. Len(out) : out'[i] = out[i]
          /\ out'[Len(out) + 1].req = w.req /\ out'[Len(out) + 1].error = failed[w.req]
      BY <1>0, <1>5, <2>4, Delivered
    <3>2. \A i \in 1 .. Len(out') : i \in 1 .. Len(out) \/ i = Len(out) + 1
      BY <3>1
    <3> QED
      BY <1>3, <2>2, <3>1, <3>2 DEF Truthful
  <2> QED
    BY <2>3, <2>4
<1>6. ASSUME NEW w \in Writers, WriteHeader(w) \/ WriteBody(w) PROVE Truthful'
  <2>1. Wants(w)
    BY <1>6, Alone DEF IInv, WriteHeader, WriteBody
  <2> QED
    BY <1>5, <1>6, <2>1 DEF WriteHeader, WriteBody
<1> QED
  BY <1>4, <1>6, OutStep

------------------------------------------------------------------------------
LEMMA InitInv == Init => IInv
<1> SUFFICES ASSUME Init PROVE IInv
  OBVIOUS
<1>1. TypeOK
  <2>1. /\ in \in Seq([part : {"header", "body"}, req : Requests])
        /\ out \in Seq([part : {"header", "body"}, req : Requests, error : BOOLEAN])
    BY DEF Init
  <2> QED
    BY <2>1 DEF Init, TypeOK
<1>2. MutexInv /\ HandlerInv
  BY WriterFacts DEF Init, MutexInv, HandlerInv
<1>3. WgInv
  <2>1. Handling = {}
    BY DEF Init, Handling
  <2> QED
    BY <2>1, FS_EmptySet DEF Init, WgInv
<1>4. StreamInv /\ FreshInv /\ TailInv /\ OneResponse /\ Framed /\ Truthful
  BY DEF Init, StreamInv, FreshInv, TailInv, OneResponse, Framed, Truthful
<1> QED
  BY <1>1, <1>2, <1>3, <1>4 DEF IInv

LEMMA StepInv == IInv /\ [Next]_vars => IInv'
  BY TypeStep, MutexStep, HandlerStep, WgStep, StreamStep, FreshStep, TailStep,
     OneResponseStep, FramedStep, TruthfulStep DEF IInv

\* A client that has written a header without its body and has not closed yet
\* leaves the server its invariant.
LEMMA HeaderStep ==
    ASSUME IInv, NEW r \in Requests, r \notin sentReqs,
           sentReqs' = sentReqs \cup {r}, in' = Append(in, Part("header", r)),
           UNCHANGED <<hungUp, overread, loopVars, handlerVars, sendVars>>
    PROVE  IInv'
<1>0. TypeOK /\ StreamInv /\ FreshInv
  BY DEF IInv
<1>1. UNCHANGED <<hungUp, overread, loop, req, wg, handler, method, failed,
                  sending, phase, out>>
  BY DEF loopVars, handlerVars, sendVars
<1>2. TypeOK'
  <2>1. in \in Seq([part : {"header", "body"}, req : Requests])
        /\ Part("header", r) \in [part : {"header", "body"}, req : Requests]
    BY <1>0 DEF TypeOK, Part
  <2>2. in' \in Seq([part : {"header", "body"}, req : Requests])
    BY <2>1, AppendLast
  <2> QED
    BY <1>0, <1>1, <2>2 DEF TypeOK
<1>3. StreamInv'
  BY <1>0, <1>1, HeaderStream
<1>4. ASSUME NEW q \in Requests, Unanswered(q)' PROVE Unanswered(q)
  <2>1. ASSUME NEW i \in 1 .. Len(in'), in'[i] = Part("header", q)
        PROVE  q \notin sentReqs \/ \E j \in 1 .. Len(in) : in[j] = Part("header", q)
    <3>1. in \in Seq([part : {"header", "body"}, req : Requests])
          /\ Part("header", r) \in [part : {"header", "body"}, req : Requests]
      BY <1>0 DEF TypeOK, Part
    <3> HIDE DEF Part
    <3>2. \/ i \in 1 .. Len(in) /\ in'[i] = in[i]
          \/ in'[i] = Part("header", r)
      BY <3>1, AppendLast
    <3>3. Part("header", q) = Part("header", r) => q = r
      BY DEF Part
    <3> QED
      BY <2>1, <3>2, <3>3
  <2> QED
    BY <1>1, <1>4, <2>1 DEF Unanswered
<1>5. FreshInv'
  BY <1>0, <1>1, <1>4 DEF FreshInv
<1>6. MutexInv' /\ HandlerInv' /\ WgInv' /\ TailInv'
  BY <1>1 DEF IInv, MutexInv, HandlerInv, WgInv, TailInv, Wants, Handling
<1>7. OneResponse' /\ Framed' /\ Truthful'
  BY <1>1 DEF IInv, OneResponse, Framed, Truthful
<1> QED
  BY <1>2, <1>3, <1>5, <1>6, <1>7 DEF IInv

\* Only a handler before its timer receives from called.
LEMMA LateStep == ASSUME IInv, [Next]_vars, NEW r \in Requests, Late(r) PROVE Late(r)'
<1> USE WriterFacts
<1>0. TypeOK /\ MutexInv /\ HandlerInv /\ StreamInv
  BY DEF IInv
<1>1. CASE UNCHANGED <<handler, method>>
  BY <1>1 DEF Late
<1>2. CASE ReadBody
  <2>1. req \in Requests /\ handler[req] = "none"
    BY <1>0, <1>2 DEF TypeOK, StreamInv, ReadBody
  <2>2. req # r
    BY <2>1 DEF Late
  <2> QED
    BY <1>0, <1>1, <1>2, <2>1, <2>2 DEF TypeOK, ReadBody, Accept, Refuse, Late
<1>3. ASSUME NEW q \in Requests, Handle(q) \/ MethodReturns(q) PROVE Late(r)'
  BY <1>0, <1>3 DEF TypeOK, Handle, Called, TakesCalled, HandleTimeout, Sent, MethodReturns, Late
<1>4. ASSUME NEW w \in Writers, WriteBody(w) \/ WriteFails(w) PROVE Late(r)'
  <2>1. Responded(w) /\ Wants(w)
    BY <1>0, <1>4, Alone DEF WriteBody, WriteFails
  <2> QED
    BY <1>0, <2>1 DEF TypeOK, Responded, Wants, Late
<1> QED
  BY <1>1, <1>2, <1>3, <1>4 DEF Next, Client, ClientSends, ClientSendsHeader,
     PeerLeaves, Loop, ReadOption, RefuseOption, ReadHeader, ReadHeaderFails, ReadBodyFails,
     Refuse, Close, Respond, Lock, WriteHeader, vars, handlerVars

LEMMA InvQuiet == IInv => QuietClose
<1> SUFFICES ASSUME IInv, loop = "closed"
             PROVE  /\ \A r \in Requests : handler[r] \in {"none", "done"}
                    /\ sending = NoWriter /\ \A w \in Writers : ~Wants(w)
  BY DEF QuietClose
<1>0. TypeOK /\ MutexInv /\ HandlerInv /\ WgInv
  BY DEF IInv
<1>1. Handling = {}
  <2>1. Cardinality(Handling) = 0
    BY <1>0 DEF WgInv
  <2> QED
    BY <2>1, HandlingFinite, FS_EmptySet
<1>2. \A r \in Requests : handler[r] \in {"none", "done"}
  BY <1>1 DEF Handling
<1>3. \A w \in Writers : ~Wants(w)
  BY <1>0, <1>2, WriterFacts DEF Wants, HandlerInv
<1>4. sending = NoWriter
  BY <1>0, <1>3, WriterFacts DEF MutexInv, TypeOK
<1> QED
  BY <1>2, <1>3, <1>4

\* The inductive invariant: the mutex and its holder, handler and method, the
\* WaitGroup, what is still in the stream and what has been answered.
THEOREM Invariance == Spec => []IInv
<1>1. Init => IInv
  BY InitInv
<1>2. IInv /\ [Next]_vars => IInv'
  BY StepInv
<1> QED
  BY <1>1, <1>2, PTL DEF Spec

\* No request is answered twice, by whichever of its writers (server.go:109-115).
THEOREM SpecOneResponse == Spec => []OneResponse
<1>1. IInv => OneResponse
  BY DEF IInv
<1> QED
  BY <1>1, Invariance, PTL

\* Responses of concurrent handlers are not interleaved (sendResponse).
THEOREM SpecFramed == Spec => []Framed
<1>1. IInv => Framed
  BY DEF IInv
<1> QED
  BY <1>1, Invariance, PTL

\* A response without an error comes from a method that has returned, also
\* when the timer fired (handleRequest).
THEOREM SpecTruthful == Spec => []Truthful
<1>1. IInv => Truthful
  BY DEF IInv
<1> QED
  BY <1>1, Invariance, PTL

\* When serveCodec closes the connection all handlers are through (wg.Wait).
THEOREM SpecQuietClose == Spec => []QuietClose
  BY Invariance, InvQuiet, PTL

\* What a timeout of handleRequest leaves behind: for any number of requests, a
\* method that comes too late stays blocked on called (server.go:208, 226).
THEOREM SpecLateMethodStays == Spec => LateMethodStays
<1>1. IInv /\ [Next]_vars => [\A r \in Requests : Late(r) => Late(r)']_vars
  BY LateStep
<1> QED
  BY <1>1, Invariance, PTL DEF Spec, LateMethodStays
==============================================================================
