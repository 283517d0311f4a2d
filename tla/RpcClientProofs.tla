--------------------------- MODULE RpcClientProofs ---------------------------
(***************************************************************************)
(* Proofs about RpcClient, for any calls, deadlines and channel capacity.  *)
(*                                                                         *)
(* Each part of IInv has a lemma that says that a step keeps it; its proof *)
(* has one step per action that touches the part, after one for all the    *)
(* actions that do not.  The invariant then gives the safety properties    *)
(* and, action by action, the refinement of CallPromise.                   *)
(***************************************************************************)
EXTENDS RpcClient, TLAPS

\* nil and the receive goroutine are not calls.
LEMMA NilCalls == NoCall \notin Calls /\ Receiver \notin Calls /\ NoCall # Receiver
  BY ClientAssumption DEF Calls

\* A call made with Call has a Done channel of its own, one made with Go the
\* channel of the user.
LEMMA ChanOfCall ==
    /\ \A c \in Calls : ChanOf(c) \in Chans /\ (ChanOf(c) = Shared <=> c \in AsyncCalls)
    /\ \A c \in Calls, d \in SyncCalls : ChanOf(c) = d <=> c = d
    /\ SyncCalls \subseteq Chans /\ Shared \in Chans
  BY ClientAssumption DEF Calls, Chans, ChanOf

\* What done() appends to a channel is its last element.
LEMMA AppendLast ==
    ASSUME NEW S, NEW q \in Seq(S), NEW e \in S
    PROVE  /\ Append(q, e) \in Seq(S)
           /\ Len(Append(q, e)) = Len(q) + 1
           /\ Len(q) \in Nat
           /\ \A i \in 1 .. Len(q) + 1 :
                 Append(q, e)[i] = IF i <= Len(q) THEN q[i] ELSE e
  OBVIOUS

\* What a receive takes from a channel is its first element.
LEMMA TailShift ==
    ASSUME NEW S, NEW q \in Seq(S), q # << >>
    PROVE  /\ Tail(q) \in Seq(S)
           /\ Len(q) \in Nat \ {0}
           /\ Head(q) = q[1] /\ q[1] \in S
           /\ Len(Tail(q)) = Len(q) - 1
           /\ \A i \in 1 .. Len(q) - 1 : Tail(q)[i] = q[i + 1]
  OBVIOUS

\* A receive from a channel without repetition leaves one without repetition,
\* and without the call received.
LEMMA TailDistinct ==
    ASSUME NEW S, NEW q \in Seq(S), q # << >>,
           \A i, j \in 1 .. Len(q) : q[i] = q[j] => i = j
    PROVE  /\ \A i, j \in 1 .. Len(Tail(q)) : Tail(q)[i] = Tail(q)[j] => i = j
           /\ \A i \in 1 .. Len(Tail(q)) :
                 /\ Tail(q)[i] # Head(q)
                 /\ \E k \in 1 .. Len(q) : Tail(q)[i] = q[k]
<1> DEFINE t == Tail(q)
<1>1. /\ Len(q) \in Nat \ {0} /\ Len(t) = Len(q) - 1 /\ Head(q) = q[1]
      /\ \A i \in 1 .. Len(q) - 1 : t[i] = q[i + 1]
  BY TailShift
<1> HIDE DEF t
<1>2. \A i \in 1 .. Len(t) : i + 1 \in 1 .. Len(q) /\ t[i] = q[i + 1]
                              /\ i + 1 # 1 /\ 1 \in 1 .. Len(q)
  BY <1>1
<1>3. \A i, j \in 1 .. Len(t) : t[i] = t[j] => i = j
  <2> SUFFICES ASSUME NEW i \in 1 .. Len(t), NEW j \in 1 .. Len(t), t[i] = t[j]
               PROVE  i = j
    OBVIOUS
  <2>1. i + 1 = j + 1
    BY <1>2
  <2> QED
    BY <2>1
<1> QED
  BY <1>1, <1>2, <1>3 DEF t

\* What done() does to the channels.
LEMMA DoneChan ==
    ASSUME ChanType, NEW c \in Calls, Done(c)
    PROVE  /\ ChanType'
           /\ \A ch \in Chans \ {ChanOf(c)} : chan'[ch] = chan[ch]
           /\ chan'[ChanOf(c)] = Append(chan[ChanOf(c)], c)
<1>1. /\ chan' = [chan EXCEPT ![ChanOf(c)] = Append(@, c)]
      /\ Len(chan[ChanOf(c)]) < Cap(ChanOf(c))
  BY DEF Done
<1>2. ChanOf(c) \in Chans
  BY ChanOfCall
<1>3. chan[ChanOf(c)] \in Seq(Calls)
  BY <1>2 DEF ChanType
<1>4. /\ Append(chan[ChanOf(c)], c) \in Seq(Calls)
      /\ Len(Append(chan[ChanOf(c)], c)) = Len(chan[ChanOf(c)]) + 1
      /\ Len(chan[ChanOf(c)]) \in Nat
  BY <1>3, AppendLast
<1>5. Cap(ChanOf(c)) \in Nat
  BY ClientAssumption DEF Cap
<1> QED
  BY <1>1, <1>2, <1>4, <1>5 DEF ChanType

\* What receiving from a channel does to the channels.
LEMMA TakeChan ==
    ASSUME ChanType, NEW ch \in Chans, chan[ch] # << >>,
           chan' = [chan EXCEPT ![ch] = Tail(@)]
    PROVE  /\ ChanType'
           /\ \A x \in Chans \ {ch} : chan'[x] = chan[x]
           /\ chan'[ch] = Tail(chan[ch])
<1>1. chan[ch] \in Seq(Calls)
  BY DEF ChanType
<1>2. /\ Tail(chan[ch]) \in Seq(Calls)
      /\ Len(Tail(chan[ch])) <= Len(chan[ch])
      /\ Len(Tail(chan[ch])) \in Nat /\ Len(chan[ch]) \in Nat
  BY <1>1, TailShift
<1>3. Cap(ch) \in Nat
  BY ClientAssumption DEF Cap
<1> QED
  BY <1>2, <1>3 DEF ChanType

\* The call at the head of a channel.
LEMMA HeadCall ==
    ASSUME ChanType, ChanInv, NEW ch \in Chans, chan[ch] # << >>
    PROVE  /\ Head(chan[ch]) \in Calls
           /\ ChanOf(Head(chan[ch])) = ch
           /\ ndone[Head(chan[ch])] # 0
           /\ ch = Shared => ret[Head(chan[ch])] = "none"
<1>1. chan[ch] \in Seq(Calls)
  BY DEF ChanType
<1>2. Head(chan[ch]) = chan[ch][1] /\ chan[ch][1] \in Calls
      /\ 1 \in 1 .. Len(chan[ch])
  BY <1>1, TailShift
<1> QED
  BY <1>2 DEF ChanInv

\* done() keeps the channels in order when the call was not done before.
LEMMA DoneChanInv ==
    ASSUME ChanType, CallType, ChanInv, NEW c \in Calls, Done(c), ret' = ret,
           ndone[c] = 0, c \in AsyncCalls => ret[c] = "none"
    PROVE  ChanInv'
<1> DEFINE ch == ChanOf(c)
           q  == chan[ch]
<1>1. /\ \A x \in Chans \ {ch} : chan'[x] = chan[x]
      /\ chan'[ch] = Append(q, c)
  BY DoneChan
<1>2. ch \in Chans /\ Shared \in Chans /\ (ch = Shared <=> c \in AsyncCalls)
  BY ChanOfCall
<1>3. q \in Seq(Calls)
  BY <1>2 DEF ChanType
<1>4. /\ Len(chan'[ch]) = Len(q) + 1 /\ Len(q) \in Nat
      /\ \A i \in 1 .. Len(q) + 1 :
            chan'[ch][i] = IF i <= Len(q) THEN q[i] ELSE c
  BY <1>1, <1>3, AppendLast
<1>5. \A x \in Chans : \A i \in 1 .. Len(chan[x]) : chan[x][i] \in Calls
  BY DEF ChanType
<1>6. \A d \in Calls : ndone'[d] = IF d = c THEN ndone[c] + 1 ELSE ndone[d]
  BY DEF Done, CallType
<1>7. ndone[c] + 1 # 0
  OBVIOUS
<1> HIDE DEF ch, q
<1>8. ASSUME NEW x \in Chans, NEW i \in 1 .. Len(chan'[x])
      PROVE  ChanOf(chan'[x][i]) = x /\ ndone'[chan'[x][i]] # 0
  <2>1. CASE x # ch
    BY <2>1, <1>1, <1>5, <1>6, <1>7 DEF ChanInv
  <2>2. CASE x = ch
    <3>1. CASE i <= Len(q)
      <4>1. i \in 1 .. Len(q) /\ chan'[x][i] = q[i]
        BY <2>2, <3>1, <1>4
      <4> QED
        BY <4>1, <2>2, <1>5, <1>6, <1>7 DEF ChanInv, q
    <3>2. CASE ~(i <= Len(q))
      BY <2>2, <3>2, <1>4, <1>6, <1>7 DEF ch
    <3> QED
      BY <3>1, <3>2
  <2> QED
    BY <2>1, <2>2
<1>9. CASE ch # Shared
  BY <1>1, <1>2, <1>8, <1>9 DEF ChanInv
<1>10. CASE ch = Shared
  <2>1. \A i \in 1 .. Len(q) : q[i] # c /\ ret[q[i]] = "none"
    BY <1>10, <1>2 DEF ChanInv, q
  <2>2. \A i \in 1 .. Len(q) + 1 : ret[chan'[Shared][i]] = "none"
    BY <2>1, <1>2, <1>4, <1>10
  <2>3. \A i, j \in 1 .. Len(q) + 1 :
           chan'[Shared][i] = chan'[Shared][j] => i = j
    <3>1. \A i, j \in 1 .. Len(q) : q[i] = q[j] => i = j
      BY <1>10 DEF ChanInv, q
    <3> QED
      BY <3>1, <2>1, <1>4, <1>10
  <2> QED
    BY <2>2, <2>3, <1>4, <1>8, <1>10 DEF ChanInv
<1> QED
  BY <1>9, <1>10

\* Receiving from a channel keeps the channels in order.
LEMMA TakeChanInv ==
    ASSUME ChanType, CallType, ChanInv, NEW ch \in Chans, chan[ch] # << >>,
           chan' = [chan EXCEPT ![ch] = Tail(@)], ndone' = ndone,
           \A d \in Calls : d # Head(chan[ch]) => ret'[d] = ret[d],
           ch # Shared => Head(chan[ch]) \notin AsyncCalls
    PROVE  ChanInv'
<1> DEFINE q == chan[ch]
<1>1. /\ \A x \in Chans \ {ch} : chan'[x] = chan[x]
      /\ chan'[ch] = Tail(q)
  BY TakeChan
<1>2. q \in Seq(Calls) /\ q # << >>
  BY DEF ChanType
<1> HIDE DEF q
<1>3. /\ Len(chan'[ch]) = Len(q) - 1 /\ Len(q) \in Nat \ {0}
      /\ Head(q) = q[1]
      /\ \A i \in 1 .. Len(q) - 1 : chan'[ch][i] = q[i + 1]
  <2>1. /\ Len(Tail(q)) = Len(q) - 1 /\ Len(q) \in Nat \ {0}
        /\ Head(q) = q[1]
        /\ \A i \in 1 .. Len(q) - 1 : Tail(q)[i] = q[i + 1]
    BY <1>2, TailShift
  <2>2. chan'[ch] = Tail(q)
    BY <1>1
  <2> QED
    BY <2>1, <2>2
<1>4. \A i \in 1 .. Len(q) - 1 : i + 1 \in 1 .. Len(q) /\ 1 \in 1 .. Len(q)
                                 /\ i + 1 # 1
  BY <1>3
<1>5. \A x \in Chans : \A i \in 1 .. Len(chan[x]) : chan[x][i] \in Calls
  BY DEF ChanType
<1>6. ASSUME NEW x \in Chans, NEW i \in 1 .. Len(chan'[x])
      PROVE  ChanOf(chan'[x][i]) = x /\ ndone'[chan'[x][i]] # 0
  <2>1. CASE x # ch
    BY <2>1, <1>1 DEF ChanInv
  <2>2. CASE x = ch
    BY <2>2, <1>3, <1>4 DEF ChanInv, q
  <2> QED
    BY <2>1, <2>2
<1>7. CASE ch # Shared
  <2>1. Shared \in Chans /\ \A d \in Calls : ChanOf(d) = Shared => d \in AsyncCalls
    BY ChanOfCall
  <2>2. \A i \in 1 .. Len(chan[Shared]) :
           /\ chan[Shared][i] \in AsyncCalls
           /\ chan[Shared][i] \in Calls
    BY <2>1, <1>5 DEF ChanInv
  <2>3. chan'[Shared] = chan[Shared]
    BY <1>1, <1>7, <2>1
  <2>4. \A i \in 1 .. Len(chan[Shared]) : ret'[chan[Shared][i]] = "none"
    BY <1>7, <2>2 DEF ChanInv
  <2> QED
    BY <2>3, <2>4, <1>6 DEF ChanInv
<1>8. CASE ch = Shared
  <2>1. \A i, j \in 1 .. Len(q) : q[i] = q[j] => i = j
    BY <1>8 DEF ChanInv, q
  <2>2. /\ \A i, j \in 1 .. Len(Tail(q)) : Tail(q)[i] = Tail(q)[j] => i = j
        /\ \A i \in 1 .. Len(Tail(q)) :
              /\ Tail(q)[i] # Head(q)
              /\ \E k \in 1 .. Len(q) : Tail(q)[i] = q[k]
    BY <2>1, <1>2, TailDistinct
  <2>3. \A k \in 1 .. Len(q) : q[k] \in Calls /\ ret[q[k]] = "none"
    BY <1>5, <1>8 DEF ChanInv, q
  <2> DEFINE t == Tail(q)
  <2>4. \A i \in 1 .. Len(t) : ret'[t[i]] = "none"
    BY <2>2, <2>3 DEF q
  <2>5. chan'[Shared] = t /\ \A i, j \in 1 .. Len(t) : t[i] = t[j] => i = j
    BY <1>1, <1>8, <2>2
  <2> HIDE DEF t
  <2>6. /\ \A i \in 1 .. Len(chan'[Shared]) : ret'[chan'[Shared][i]] = "none"
        /\ \A i, j \in 1 .. Len(chan'[Shared]) :
              chan'[Shared][i] = chan'[Shared][j] => i = j
    BY ONLY <2>4, <2>5
  <2>7. \A x \in Chans : \A i \in 1 .. Len(chan'[x]) :
           ChanOf(chan'[x][i]) = x /\ ndone'[chan'[x][i]] # 0
    BY <1>6
  <2> QED
    BY <2>6, <2>7, Zenon DEF ChanInv
<1> QED
  BY <1>7, <1>8

\* The user goroutine has not yet been told of a call that is not done.
LEMMA OpenCall ==
    ASSUME CallType, RetInv, NEW c \in AsyncCalls, ndone[c] = 0
    PROVE  ret[c] = "none"
<1>1. c \in Calls /\ c \notin Deadline
  BY ClientAssumption DEF Calls
<1> QED
  BY <1>1 DEF RetInv, CallType

\* Every step keeps the types of the fields of Client.
LEMMA ClientTypeStep == IInv /\ [Next]_vars => ClientType'
<1> SUFFICES ASSUME IInv, [Next]_vars PROVE ClientType'
  OBVIOUS
<1> USE NilCalls DEF IInv, TypeOK, clientVars, callVars, recvVars
<1>1. CASE UNCHANGED <<seq, pending, closing, shutdown, sending, mu, header>>
  BY <1>1 DEF ClientType
<1>2. ASSUME NEW c \in Calls, RegisterCall(c) PROVE ClientType'
  BY <1>2 DEF RegisterCall, LockSending, NextSeq, Usable, ClientType, InSend
<1>3. ASSUME NEW c \in Calls, RejectCall(c) PROVE ClientType'
  BY <1>3 DEF RejectCall, UnlockSending, ClientType, InSend
<1>4. ASSUME NEW c \in Calls, SetHeader(c) PROVE ClientType'
  BY <1>4 DEF SetHeader, ClientType, CallType, InSend
<1>5. ASSUME NEW c \in Calls, WriteOk(c) PROVE ClientType'
  BY <1>5 DEF WriteOk, UnlockSending, ClientType, InSend
<1>6. ASSUME NEW c \in Calls, FailSend(c) PROVE ClientType'
  BY <1>6 DEF FailSend, RemoveCall, UnlockSending, ClientType, InSend
<1>7. ASSUME NEW c \in Calls, Timeout(c) PROVE ClientType'
  BY <1>7 DEF Timeout, RemoveCall, ClientType, InSend
<1>8. CASE Close
  BY <1>8 DEF Close, ClientType, InSend
<1>9. CASE Dispatch
  BY <1>9 DEF Dispatch, RemoveCall, ClientType, InSend
<1>10. CASE Terminate
  BY <1>10 DEF Terminate, LockSending, ClientType, InSend
<1>11. CASE TerminateEnd
  BY <1>11 DEF TerminateEnd, UnlockSending, ClientType, InSend
<1> QED
  BY <1>1, <1>2, <1>3, <1>4, <1>5, <1>6, <1>7, <1>8, <1>9, <1>10,
          <1>11 DEF Next, Send, Receive, vars,
          Go, WriteBadArgs, CloseOnError, WriteError, Return, Drain,
          ReadHeader, ReadHeaderFails, ReadBody, Notify, TerminateCall,
          ConnLost

\* Every step keeps the types of the fields of Call.
LEMMA CallTypeStep == IInv /\ [Next]_vars => CallType'
<1> SUFFICES ASSUME IInv, [Next]_vars PROVE CallType'
  OBVIOUS
<1> USE NilCalls DEF IInv, TypeOK, clientVars, callVars, recvVars
<1>1. CASE UNCHANGED <<pc, seqno, error, reply, ret, ndone>>
  BY <1>1 DEF CallType
<1>2. ASSUME NEW c \in Calls, Go(c) PROVE CallType'
  BY <1>2 DEF Go, Goto, CallType, InSend, Own
<1>3. ASSUME NEW c \in Calls, RegisterCall(c) PROVE CallType'
  BY <1>3 DEF RegisterCall, Goto, CallType, ClientType, InSend
<1>4. ASSUME NEW c \in Calls, RejectCall(c) PROVE CallType'
  BY <1>4 DEF RejectCall, Goto, Done, CallType, InSend, Own
<1>5. ASSUME NEW c \in Calls, SetHeader(c) PROVE CallType'
  BY <1>5 DEF SetHeader, Goto, CallType, InSend, Own
<1>6. ASSUME NEW c \in Calls, WriteOk(c) PROVE CallType'
  BY <1>6 DEF WriteOk, Goto, CallType, InSend, Own
<1>7. ASSUME NEW c \in Calls, WriteBadArgs(c) PROVE CallType'
  BY <1>7 DEF WriteBadArgs, Goto, CallType, InSend, Own
<1>8. ASSUME NEW c \in Calls, CloseOnError(c) PROVE CallType'
  BY <1>8 DEF CloseOnError, Goto, CallType, InSend, Own
<1>9. ASSUME NEW c \in Calls, WriteError(c) PROVE CallType'
  BY <1>9 DEF WriteError, Goto, CallType, InSend, Own
<1>10. ASSUME NEW c \in Calls, FailSend(c) PROVE CallType'
  BY <1>10 DEF FailSend, Goto, CallType, InSend, Own
<1>11. ASSUME NEW c \in Calls, Return(c) PROVE CallType'
  BY <1>11 DEF Return, Goto, Told, CallType, InSend, Own
<1>12. ASSUME NEW c \in Calls, Timeout(c) PROVE CallType'
  BY <1>12 DEF Timeout, Goto, CallType, InSend, Own
<1>13. CASE Drain
  BY <1>13 DEF Drain, Goto, Told, CallType, InSend, Own
<1>14. CASE ReadBody
  <2>1. rcall # NoCall => rcall \in Calls /\ rhdr.method \in Calls
                          /\ rhdr.args \in Calls
    BY <1>14 DEF ReadBody, RecvType, WireInv
  <2>2. [method |-> rhdr.method, args |-> rhdr.args] \in
           [method : Calls, args : Calls] \/ rcall = NoCall
    BY <2>1
  <2>3. /\ error' \in [Calls -> {"none", "shutdown", "remote", "body", "conn"}]
        /\ reply' \in [Calls -> {NoReply} \cup [method : Calls, args : Calls]]
    BY <1>14, <2>1, <2>2 DEF ReadBody, CallType
  <2>4. UNCHANGED <<pc, seqno, ret, ndone>>
    BY <1>14 DEF ReadBody
  <2> QED
    BY <2>3, <2>4 DEF CallType
<1>15. CASE Notify
  BY <1>15 DEF Notify, Done, CallType, WireInv, TakenInv, InSend, Own
<1>16. CASE TerminateCall
  <2>1. PICK s \in toNotify :
           /\ error' = [error EXCEPT ![pending[s]] = "conn"]
           /\ Done(pending[s])
    BY <1>16 DEF TerminateCall
  <2>2. ndone' = [ndone EXCEPT ![pending[s]] = @ + 1]
    BY <2>1 DEF Done
  <2>3. UNCHANGED <<pc, seqno, reply, ret>>
    BY <1>16 DEF TerminateCall
  <2>4. pending[s] \in Calls
    BY DEF PendingInv, ClientType
  <2> QED
    BY <2>1, <2>2, <2>3, <2>4 DEF CallType
<1> QED
  BY <1>1, <1>2, <1>3, <1>4, <1>5, <1>6, <1>7, <1>8, <1>9, <1>10, <1>11,
          <1>12, <1>13, <1>14, <1>15, <1>16 DEF Next, Send, Receive, vars,
          Close, ReadHeader, ReadHeaderFails, Dispatch, Terminate,
          TerminateEnd, ConnLost

\* No step sends more on a Done channel than it can hold.
LEMMA ChanTypeStep == IInv /\ [Next]_vars => ChanType'
<1> SUFFICES ASSUME IInv, [Next]_vars PROVE ChanType'
  OBVIOUS
<1> USE NilCalls DEF IInv, TypeOK, clientVars, callVars, recvVars
<1>1. CASE UNCHANGED <<chan>>
  BY <1>1 DEF ChanType
<1>2. ASSUME NEW c \in Calls, RejectCall(c) PROVE ChanType'
  BY <1>2, DoneChan DEF RejectCall
<1>3. ASSUME NEW c \in Calls, Return(c) PROVE ChanType'
  <2>1. c \in Chans
    BY <1>3, ChanOfCall DEF Return
  <2> QED
    BY <1>3, <2>1, TakeChan DEF Return
<1>4. CASE Drain
  <2>1. Shared \in Chans
    BY ChanOfCall
  <2> QED
    BY <1>4, <2>1, TakeChan DEF Drain
<1>5. CASE Notify
  <2>1. rcall \in Calls
    BY <1>5 DEF Notify, TakenInv, RecvType
  <2> QED
    BY <1>5, <2>1, DoneChan DEF Notify
<1>6. CASE TerminateCall
  <2>1. PICK s \in toNotify : Done(pending[s])
    BY <1>6 DEF TerminateCall
  <2>2. pending[s] \in Calls
    BY DEF PendingInv, ClientType
  <2> QED
    BY <2>1, <2>2, DoneChan
<1> QED
  BY <1>1, <1>2, <1>3, <1>4, <1>5, <1>6 DEF Next, Send, Receive, vars,
          Go, RegisterCall, SetHeader, WriteOk, WriteBadArgs, CloseOnError,
          WriteError, FailSend, Timeout, Close, ReadHeader, ReadHeaderFails,
          Dispatch, ReadBody, Terminate, TerminateEnd, ConnLost

\* Every step keeps the types of the variables of receive.
LEMMA RecvTypeStep == IInv /\ [Next]_vars => RecvType'
<1> SUFFICES ASSUME IInv, [Next]_vars PROVE RecvType'
  OBVIOUS
<1> USE NilCalls DEF IInv, TypeOK, clientVars, callVars, recvVars
<1>1. CASE UNCHANGED <<rpc, rhdr, rcall, rfail, toNotify>>
  BY <1>1 DEF RecvType
<1>2. CASE ReadHeader
  BY <1>2 DEF ReadHeader, RecvType, ClientType, ConnType
<1>3. CASE ReadHeaderFails
  BY <1>3 DEF ReadHeaderFails, RecvType
<1>4. CASE Dispatch
  BY <1>4 DEF Dispatch, RecvType, ClientType, ConnType
<1>5. CASE ReadBody
  BY <1>5 DEF ReadBody, RecvType
<1>6. CASE Notify
  BY <1>6 DEF Notify, RecvType
<1>7. CASE Terminate
  BY <1>7 DEF Terminate, RecvType, ClientType, ConnType
<1>8. CASE TerminateCall
  BY <1>8 DEF TerminateCall, RecvType
<1>9. CASE TerminateEnd
  BY <1>9 DEF TerminateEnd, RecvType
<1> QED
  BY <1>1, <1>2, <1>3, <1>4, <1>5, <1>6, <1>7, <1>8,
          <1>9 DEF Next, Send, Receive, vars,
          Go, RegisterCall, RejectCall, SetHeader, WriteOk, WriteBadArgs,
          CloseOnError, WriteError, FailSend, Return, Timeout, Drain, Close,
          ConnLost

\* Every step keeps the types of the connection.
LEMMA ConnTypeStep == IInv /\ [Next]_vars => ConnType'
<1> SUFFICES ASSUME IInv, [Next]_vars PROVE ConnType'
  OBVIOUS
<1> USE NilCalls DEF IInv, TypeOK, clientVars, callVars, recvVars
<1>1. CASE UNCHANGED <<connUp, crashed, wire>>
  BY <1>1 DEF ConnType
<1>2. ASSUME NEW c \in Calls, WriteOk(c) PROVE ConnType'
  <2>1. Request(c, TRUE) \in
           [seq : Nat, method : Calls, args : Calls, whole : BOOLEAN]
    BY <1>2 DEF WriteOk, Request, WireInv, CallType
  <2> QED
    BY <1>2, <2>1 DEF WriteOk, ConnType, clientVars
<1>3. ASSUME NEW c \in Calls, WriteBadArgs(c) PROVE ConnType'
  <2>1. Request(c, FALSE) \in
           [seq : Nat, method : Calls, args : Calls, whole : BOOLEAN]
    BY <1>3 DEF WriteBadArgs, Request, WireInv, CallType
  <2> QED
    BY <1>3, <2>1 DEF WriteBadArgs, ConnType, clientVars
<1>4. ASSUME NEW c \in Calls, CloseOnError(c) PROVE ConnType'
  BY <1>4 DEF CloseOnError, ConnType
<1>5. ASSUME NEW c \in Calls, FailSend(c) PROVE ConnType'
  BY <1>5 DEF FailSend, ConnType
<1>6. CASE Close
  BY <1>6 DEF Close, ConnType
<1>7. CASE ReadHeader
  BY <1>7 DEF ReadHeader, ConnType
<1>8. CASE ConnLost
  BY <1>8 DEF ConnLost, ConnType
<1> QED
  BY <1>1, <1>2, <1>3, <1>4, <1>5, <1>6, <1>7,
          <1>8 DEF Next, Send, Receive, vars,
          Go, RegisterCall, RejectCall, SetHeader, WriteError, Return,
          Timeout, Drain, ReadHeaderFails, Dispatch, ReadBody, Notify,
          Terminate, TerminateCall, TerminateEnd

\* registerCall gives every call a number of its own.
LEMMA SeqInvStep == IInv /\ [Next]_vars => SeqInv'
<1> SUFFICES ASSUME IInv, [Next]_vars PROVE SeqInv'
  OBVIOUS
<1> USE NilCalls DEF IInv, TypeOK, clientVars, callVars, recvVars
<1>1. CASE UNCHANGED <<seq, pc, seqno, pending>>
  BY <1>1 DEF SeqInv
<1>2. ASSUME NEW c \in Calls, Go(c) PROVE SeqInv'
  BY <1>2 DEF Go, Goto, SeqInv, InSend
<1>3. ASSUME NEW c \in Calls, RegisterCall(c) PROVE SeqInv'
  BY <1>3 DEF RegisterCall, Goto, LockSending, NextSeq, Usable, ClientType,
     CallType, RecvType, SeqInv, InSend
<1>4. ASSUME NEW c \in Calls, RejectCall(c) PROVE SeqInv'
  BY <1>4 DEF RejectCall, Goto, SeqInv, InSend
<1>5. ASSUME NEW c \in Calls, SetHeader(c) PROVE SeqInv'
  BY <1>5 DEF SetHeader, Goto, SeqInv, InSend
<1>6. ASSUME NEW c \in Calls, WriteOk(c) PROVE SeqInv'
  BY <1>6 DEF WriteOk, Goto, SeqInv, InSend
<1>7. ASSUME NEW c \in Calls, WriteBadArgs(c) PROVE SeqInv'
  BY <1>7 DEF WriteBadArgs, Goto, SeqInv, InSend
<1>8. ASSUME NEW c \in Calls, CloseOnError(c) PROVE SeqInv'
  BY <1>8 DEF CloseOnError, Goto, SeqInv, InSend
<1>9. ASSUME NEW c \in Calls, WriteError(c) PROVE SeqInv'
  BY <1>9 DEF WriteError, Goto, SeqInv, InSend
<1>10. ASSUME NEW c \in Calls, FailSend(c) PROVE SeqInv'
  BY <1>10 DEF FailSend, Goto, RemoveCall, ClientType, CallType, RecvType,
     SeqInv, InSend
<1>11. ASSUME NEW c \in Calls, Return(c) PROVE SeqInv'
  BY <1>11 DEF Return, Goto, SeqInv, InSend
<1>12. ASSUME NEW c \in Calls, Timeout(c) PROVE SeqInv'
  BY <1>12 DEF Timeout, Goto, RemoveCall, SeqInv, InSend
<1>13. CASE Drain
  BY <1>13 DEF Drain, Goto, SeqInv, InSend
<1>14. CASE Dispatch
  BY <1>14 DEF Dispatch, RemoveCall, SeqInv, InSend
<1> QED
  BY <1>1, <1>2, <1>3, <1>4, <1>5, <1>6, <1>7, <1>8, <1>9, <1>10, <1>11,
          <1>12, <1>13, <1>14 DEF Next, Send, Receive, vars,
          Close, ReadHeader, ReadHeaderFails, ReadBody, Notify, Terminate,
          TerminateCall, TerminateEnd, ConnLost

\* client.sending has one holder: a sender or terminateCalls.
LEMMA LockInvStep == IInv /\ [Next]_vars => LockInv'
<1> SUFFICES ASSUME IInv, [Next]_vars PROVE LockInv'
  OBVIOUS
<1> USE NilCalls DEF IInv, TypeOK, clientVars, callVars, recvVars
<1>1. CASE UNCHANGED <<pc, sending, rpc, mu>>
  BY <1>1 DEF LockInv
<1>2. ASSUME NEW c \in Calls, Go(c) PROVE LockInv'
  BY <1>2 DEF Go, Goto, LockInv, InSend, Holding
<1>3. ASSUME NEW c \in Calls, RegisterCall(c) PROVE LockInv'
  BY <1>3 DEF RegisterCall, Goto, LockSending, NextSeq, Usable, ClientType,
     CallType, LockInv, RecvType, InSend, Holding
<1>4. ASSUME NEW c \in Calls, RejectCall(c) PROVE LockInv'
  BY <1>4 DEF RejectCall, Goto, UnlockSending, ClientType, CallType, LockInv,
     RecvType, InSend, Holding
<1>5. ASSUME NEW c \in Calls, SetHeader(c) PROVE LockInv'
  BY <1>5 DEF SetHeader, Goto, LockInv, InSend, Holding
<1>6. ASSUME NEW c \in Calls, WriteOk(c) PROVE LockInv'
  BY <1>6 DEF WriteOk, Goto, UnlockSending, ClientType, CallType, LockInv,
     RecvType, InSend, Holding
<1>7. ASSUME NEW c \in Calls, WriteBadArgs(c) PROVE LockInv'
  BY <1>7 DEF WriteBadArgs, Goto, LockInv, InSend, Holding
<1>8. ASSUME NEW c \in Calls, CloseOnError(c) PROVE LockInv'
  BY <1>8 DEF CloseOnError, Goto, LockInv, InSend, Holding
<1>9. ASSUME NEW c \in Calls, WriteError(c) PROVE LockInv'
  BY <1>9 DEF WriteError, Goto, LockInv, InSend, Holding
<1>10. ASSUME NEW c \in Calls, FailSend(c) PROVE LockInv'
  BY <1>10 DEF FailSend, Goto, UnlockSending, ClientType, CallType, LockInv,
     RecvType, InSend, Holding
<1>11. ASSUME NEW c \in Calls, Return(c) PROVE LockInv'
  BY <1>11 DEF Return, Goto, LockInv, InSend, Holding
<1>12. ASSUME NEW c \in Calls, Timeout(c) PROVE LockInv'
  BY <1>12 DEF Timeout, Goto, LockInv, InSend, Holding
<1>13. CASE Drain
  <2>1. Head(chan[Shared]) \in AsyncCalls
    BY <1>13, HeadCall, ChanOfCall DEF Drain
  <2> QED
    BY <1>13, <2>1 DEF Drain, Goto, LockInv, Holding, InSend, CallType, clientVars, recvVars
<1>14. CASE ReadHeader
  BY <1>14 DEF ReadHeader, LockInv, InSend, Holding
<1>15. CASE ReadHeaderFails
  BY <1>15 DEF ReadHeaderFails, LockInv, InSend, Holding
<1>16. CASE Dispatch
  BY <1>16 DEF Dispatch, LockInv, InSend, Holding
<1>17. CASE ReadBody
  BY <1>17 DEF ReadBody, LockInv, InSend, Holding
<1>18. CASE Notify
  BY <1>18 DEF Notify, LockInv, InSend, Holding
<1>19. CASE Terminate
  BY <1>19 DEF Terminate, LockSending, LockInv, InSend, Holding
<1>20. CASE TerminateEnd
  BY <1>20 DEF TerminateEnd, UnlockSending, LockInv, InSend, Holding
<1> QED
  BY <1>1, <1>2, <1>3, <1>4, <1>5, <1>6, <1>7, <1>8, <1>9, <1>10, <1>11,
          <1>12, <1>13, <1>14, <1>15, <1>16, <1>17, <1>18, <1>19,
          <1>20 DEF Next, Send, Receive, vars,
          Close, TerminateCall, ConnLost

\* Header and body are written by one sender, under client.sending.
LEMMA WireInvStep == IInv /\ [Next]_vars => WireInv'
<1> SUFFICES ASSUME IInv, [Next]_vars PROVE WireInv'
  OBVIOUS
<1> USE NilCalls DEF IInv, TypeOK, clientVars, callVars, recvVars
<1>1. CASE UNCHANGED <<pc, header, seqno, wire, rpc, rhdr>>
  BY <1>1 DEF WireInv
<1>2. ASSUME NEW c \in Calls, Go(c) PROVE WireInv'
  BY <1>2 DEF Go, Goto, WireInv, InSend, Holding
<1>3. ASSUME NEW c \in Calls, RegisterCall(c) PROVE WireInv'
  BY <1>3 DEF RegisterCall, Goto, LockSending, NextSeq, Usable, ClientType,
     CallType, ConnType, RecvType, WireInv, SeqInv, LockInv, InSend, Holding
<1>4. ASSUME NEW c \in Calls, RejectCall(c) PROVE WireInv'
  BY <1>4 DEF RejectCall, Goto, WireInv, InSend, Holding
<1>5. ASSUME NEW c \in Calls, SetHeader(c) PROVE WireInv'
  BY <1>5 DEF SetHeader, Goto, WireInv, SeqInv, LockInv, InSend, Holding
<1>6. ASSUME NEW c \in Calls, WriteOk(c) PROVE WireInv'
  BY <1>6 DEF WriteOk, Goto, Request, WireInv, SeqInv, LockInv, InSend,
     Holding
<1>7. ASSUME NEW c \in Calls, WriteBadArgs(c) PROVE WireInv'
  BY <1>7 DEF WriteBadArgs, Goto, Request, WireInv, SeqInv, LockInv, InSend,
     Holding
<1>8. ASSUME NEW c \in Calls, CloseOnError(c) PROVE WireInv'
  BY <1>8 DEF CloseOnError, Goto, WireInv, InSend, Holding
<1>9. ASSUME NEW c \in Calls, WriteError(c) PROVE WireInv'
  BY <1>9 DEF WriteError, Goto, WireInv, InSend, Holding
<1>10. ASSUME NEW c \in Calls, FailSend(c) PROVE WireInv'
  BY <1>10 DEF FailSend, Goto, ClientType, CallType, ConnType, RecvType,
     WireInv, InSend, Holding
<1>11. ASSUME NEW c \in Calls, Return(c) PROVE WireInv'
  BY <1>11 DEF Return, Goto, WireInv, InSend, Holding
<1>12. ASSUME NEW c \in Calls, Timeout(c) PROVE WireInv'
  BY <1>12 DEF Timeout, Goto, WireInv, InSend, Holding
<1>13. CASE Drain
  BY <1>13 DEF Drain, Goto, WireInv, InSend, Holding
<1>14. CASE ReadHeader
  BY <1>14 DEF ReadHeader, CallType, ConnType, RecvType, WireInv, InSend,
     Holding
<1>15. CASE ReadHeaderFails
  BY <1>15 DEF ReadHeaderFails, WireInv, InSend, Holding
<1>16. CASE Dispatch
  BY <1>16 DEF Dispatch, WireInv, InSend, Holding
<1>17. CASE ReadBody
  BY <1>17 DEF ReadBody, WireInv, InSend, Holding
<1>18. CASE Notify
  BY <1>18 DEF Notify, WireInv, InSend, Holding
<1>19. CASE Terminate
  BY <1>19 DEF Terminate, WireInv, InSend, Holding
<1>20. CASE TerminateEnd
  BY <1>20 DEF TerminateEnd, WireInv, InSend, Holding
<1> QED
  BY <1>1, <1>2, <1>3, <1>4, <1>5, <1>6, <1>7, <1>8, <1>9, <1>10, <1>11,
          <1>12, <1>13, <1>14, <1>15, <1>16, <1>17, <1>18, <1>19,
          <1>20 DEF Next, Send, Receive, vars,
          Close, TerminateCall, ConnLost

\* The call that receive has taken out of pending stays its own.
LEMMA TakenInvStep == IInv /\ [Next]_vars => TakenInv'
<1> SUFFICES ASSUME IInv, [Next]_vars PROVE TakenInv'
  OBVIOUS
<1> USE NilCalls DEF IInv, TypeOK, clientVars, callVars, recvVars
<1>1. CASE UNCHANGED <<rpc, rcall, rhdr, seqno, pending, ndone>>
  BY <1>1 DEF TakenInv
<1>2. ASSUME NEW c \in Calls, RegisterCall(c) PROVE TakenInv'
  BY <1>2 DEF RegisterCall, NextSeq, Usable, ClientType, CallType, RecvType,
     TakenInv, WireInv, SeqInv, LockInv, PendingInv
<1>3. ASSUME NEW c \in Calls, RejectCall(c) PROVE TakenInv'
  BY <1>3 DEF RejectCall, Done, TakenInv, WireInv, SeqInv, LockInv, PendingInv
<1>4. ASSUME NEW c \in Calls, FailSend(c) PROVE TakenInv'
  BY <1>4 DEF FailSend, RemoveCall, TakenInv
<1>5. ASSUME NEW c \in Calls, Timeout(c) PROVE TakenInv'
  BY <1>5 DEF Timeout, RemoveCall, TakenInv
<1>6. CASE ReadHeader
  BY <1>6 DEF ReadHeader, TakenInv
<1>7. CASE ReadHeaderFails
  BY <1>7 DEF ReadHeaderFails, TakenInv
<1>8. CASE Dispatch
  BY <1>8 DEF Dispatch, RemoveCall, ClientType, CallType, RecvType, TakenInv,
     WireInv, SeqInv, LockInv, PendingInv
<1>9. CASE ReadBody
  BY <1>9 DEF ReadBody, TakenInv
<1>10. CASE Notify
  BY <1>10 DEF Notify, TakenInv
<1>11. CASE Terminate
  BY <1>11 DEF Terminate, TakenInv
<1>12. CASE TerminateCall
  BY <1>12 DEF TerminateCall, TakenInv
<1>13. CASE TerminateEnd
  BY <1>13 DEF TerminateEnd, TakenInv
<1> QED
  BY <1>1, <1>2, <1>3, <1>4, <1>5, <1>6, <1>7, <1>8, <1>9, <1>10, <1>11,
          <1>12, <1>13 DEF Next, Send, Receive, vars,
          Go, SetHeader, WriteOk, WriteBadArgs, CloseOnError, WriteError,
          Return, Drain, Close, ConnLost

\* A pending call is not done: who ends it has removed it before, or is
\* terminateCalls.
LEMMA PendingInvStep == IInv /\ [Next]_vars => PendingInv'
<1> SUFFICES ASSUME IInv, [Next]_vars PROVE PendingInv'
  OBVIOUS
<1> USE NilCalls DEF IInv, TypeOK, clientVars, callVars, recvVars
<1>1. CASE UNCHANGED <<rpc, toNotify, pending, ndone>>
  BY <1>1 DEF PendingInv
<1>2. ASSUME NEW c \in Calls, RegisterCall(c) PROVE PendingInv'
  BY <1>2 DEF RegisterCall, NextSeq, Usable, PendingInv, SeqInv, TakenInv,
     OnceInv, LockInv, ShutdownInv
<1>3. ASSUME NEW c \in Calls, RejectCall(c) PROVE PendingInv'
  BY <1>3 DEF RejectCall, Done, PendingInv, SeqInv, TakenInv, OnceInv,
     LockInv, ShutdownInv
<1>4. ASSUME NEW c \in Calls, FailSend(c) PROVE PendingInv'
  BY <1>4 DEF FailSend, RemoveCall, PendingInv, SeqInv, TakenInv, OnceInv,
     LockInv, ShutdownInv
<1>5. ASSUME NEW c \in Calls, Timeout(c) PROVE PendingInv'
  BY <1>5 DEF Timeout, RemoveCall, PendingInv, SeqInv, TakenInv, OnceInv,
     LockInv, ShutdownInv
<1>6. CASE ReadHeader
  BY <1>6 DEF ReadHeader, PendingInv
<1>7. CASE ReadHeaderFails
  BY <1>7 DEF ReadHeaderFails, PendingInv
<1>8. CASE Dispatch
  BY <1>8 DEF Dispatch, RemoveCall, PendingInv
<1>9. CASE ReadBody
  BY <1>9 DEF ReadBody, PendingInv
<1>10. CASE Notify
  BY <1>10 DEF Notify, Done, PendingInv, SeqInv, TakenInv, OnceInv, LockInv,
     ShutdownInv
<1>11. CASE Terminate
  BY <1>11 DEF Terminate, PendingInv
<1>12. CASE TerminateCall
  BY <1>12 DEF TerminateCall, Done, ClientType, CallType, RecvType,
     PendingInv, SeqInv, TakenInv, OnceInv, LockInv, ShutdownInv
<1>13. CASE TerminateEnd
  BY <1>13 DEF TerminateEnd, PendingInv
<1> QED
  BY <1>1, <1>2, <1>3, <1>4, <1>5, <1>6, <1>7, <1>8, <1>9, <1>10, <1>11,
          <1>12, <1>13 DEF Next, Send, Receive, vars,
          Go, SetHeader, WriteOk, WriteBadArgs, CloseOnError, WriteError,
          Return, Drain, Close, ConnLost

\* terminateCalls waits for the sender, and registerCall refuses all others.
LEMMA ShutdownInvStep == IInv /\ [Next]_vars => ShutdownInv'
<1> SUFFICES ASSUME IInv, [Next]_vars PROVE ShutdownInv'
  OBVIOUS
<1> USE NilCalls DEF IInv, TypeOK, clientVars, callVars, recvVars
<1>1. CASE UNCHANGED <<shutdown, rpc, pc>>
  BY <1>1 DEF ShutdownInv
<1>2. ASSUME NEW c \in Calls, Go(c) PROVE ShutdownInv'
  BY <1>2 DEF Go, Goto, ShutdownInv, InSend, Holding
<1>3. ASSUME NEW c \in Calls, RegisterCall(c) PROVE ShutdownInv'
  BY <1>3 DEF RegisterCall, Goto, LockSending, NextSeq, Usable, ClientType,
     CallType, RecvType, ShutdownInv, InSend, Holding
<1>4. ASSUME NEW c \in Calls, RejectCall(c) PROVE ShutdownInv'
  BY <1>4 DEF RejectCall, Goto, ShutdownInv, InSend, Holding
<1>5. ASSUME NEW c \in Calls, SetHeader(c) PROVE ShutdownInv'
  BY <1>5 DEF SetHeader, ShutdownInv, InSend, Holding
<1>6. ASSUME NEW c \in Calls, WriteOk(c) PROVE ShutdownInv'
  BY <1>6 DEF WriteOk, ShutdownInv, InSend, Holding
<1>7. ASSUME NEW c \in Calls, WriteBadArgs(c) PROVE ShutdownInv'
  BY <1>7 DEF WriteBadArgs, ShutdownInv, InSend, Holding
<1>8. ASSUME NEW c \in Calls, CloseOnError(c) PROVE ShutdownInv'
  BY <1>8 DEF CloseOnError, ShutdownInv, InSend, Holding
<1>9. ASSUME NEW c \in Calls, WriteError(c) PROVE ShutdownInv'
  BY <1>9 DEF WriteError, ShutdownInv, InSend, Holding
<1>10. ASSUME NEW c \in Calls, FailSend(c) PROVE ShutdownInv'
  BY <1>10 DEF FailSend, ShutdownInv, InSend, Holding
<1>11. ASSUME NEW c \in Calls, Return(c) PROVE ShutdownInv'
  BY <1>11 DEF Return, Goto, ShutdownInv, InSend, Holding
<1>12. ASSUME NEW c \in Calls, Timeout(c) PROVE ShutdownInv'
  BY <1>12 DEF Timeout, Goto, ShutdownInv, InSend, Holding
<1>13. CASE Drain
  BY <1>13 DEF Drain, Goto, ShutdownInv, InSend, Holding
<1>14. CASE ReadHeader
  BY <1>14 DEF ReadHeader, ShutdownInv, InSend, Holding
<1>15. CASE ReadHeaderFails
  BY <1>15 DEF ReadHeaderFails, ShutdownInv, InSend, Holding
<1>16. CASE Dispatch
  BY <1>16 DEF Dispatch, ShutdownInv, InSend, Holding
<1>17. CASE ReadBody
  BY <1>17 DEF ReadBody, ShutdownInv, InSend, Holding
<1>18. CASE Notify
  BY <1>18 DEF Notify, ShutdownInv, InSend, Holding
<1>19. CASE Terminate
  BY <1>19 DEF Terminate, LockSending, ShutdownInv, LockInv, InSend, Holding
<1>20. CASE TerminateEnd
  BY <1>20 DEF TerminateEnd, ShutdownInv, InSend, Holding
<1> QED
  BY <1>1, <1>2, <1>3, <1>4, <1>5, <1>6, <1>7, <1>8, <1>9, <1>10, <1>11,
          <1>12, <1>13, <1>14, <1>15, <1>16, <1>17, <1>18, <1>19,
          <1>20 DEF Next, Send, Receive, vars,
          Close, TerminateCall, ConnLost

\* Every call of done() finds a call that is not done.
LEMMA OnceInvStep == IInv /\ [Next]_vars => OnceInv'
<1> SUFFICES ASSUME IInv, [Next]_vars PROVE OnceInv'
  OBVIOUS
<1> USE NilCalls DEF IInv, TypeOK, clientVars, callVars, recvVars
<1>1. CASE UNCHANGED <<ndone, pc, error>>
  BY <1>1 DEF OnceInv
<1>2. ASSUME NEW c \in Calls, Go(c) PROVE OnceInv'
  BY <1>2 DEF Go, Goto, OnceInv, InSend
<1>3. ASSUME NEW c \in Calls, RegisterCall(c) PROVE OnceInv'
  BY <1>3 DEF RegisterCall, Goto, LockSending, NextSeq, Usable, ClientType,
     CallType, RecvType, OnceInv, InSend
<1>4. ASSUME NEW c \in Calls, RejectCall(c) PROVE OnceInv'
  BY <1>4 DEF RejectCall, Goto, Done, ClientType, CallType, RecvType, OnceInv,
     InSend
<1>5. ASSUME NEW c \in Calls, SetHeader(c) PROVE OnceInv'
  BY <1>5 DEF SetHeader, Goto, OnceInv, InSend
<1>6. ASSUME NEW c \in Calls, WriteOk(c) PROVE OnceInv'
  BY <1>6 DEF WriteOk, Goto, OnceInv, InSend
<1>7. ASSUME NEW c \in Calls, WriteBadArgs(c) PROVE OnceInv'
  BY <1>7 DEF WriteBadArgs, Goto, OnceInv, InSend
<1>8. ASSUME NEW c \in Calls, CloseOnError(c) PROVE OnceInv'
  BY <1>8 DEF CloseOnError, Goto, OnceInv, InSend
<1>9. ASSUME NEW c \in Calls, WriteError(c) PROVE OnceInv'
  BY <1>9 DEF WriteError, Goto, OnceInv, InSend
<1>10. ASSUME NEW c \in Calls, FailSend(c) PROVE OnceInv'
  BY <1>10 DEF FailSend, Goto, ClientType, CallType, RecvType, OnceInv, InSend
<1>11. ASSUME NEW c \in Calls, Return(c) PROVE OnceInv'
  BY <1>11 DEF Return, Goto, OnceInv, InSend
<1>12. ASSUME NEW c \in Calls, Timeout(c) PROVE OnceInv'
  BY <1>12 DEF Timeout, Goto, OnceInv, InSend
<1>13. CASE Drain
  BY <1>13 DEF Drain, Goto, OnceInv, InSend
<1>14. CASE ReadBody
  BY <1>14 DEF ReadBody, CallType, RecvType, OnceInv, TakenInv, PendingInv,
     SeqInv, WireInv, InSend
<1>15. CASE Notify
  BY <1>15 DEF Notify, Done, OnceInv, TakenInv, PendingInv, SeqInv, WireInv,
     InSend
<1>16. CASE TerminateCall
  BY <1>16 DEF TerminateCall, Done, OnceInv, TakenInv, PendingInv, SeqInv,
     WireInv, InSend
<1> QED
  BY <1>1, <1>2, <1>3, <1>4, <1>5, <1>6, <1>7, <1>8, <1>9, <1>10, <1>11,
          <1>12, <1>13, <1>14, <1>15, <1>16 DEF Next, Send, Receive, vars,
          Close, ReadHeader, ReadHeaderFails, Dispatch, Terminate,
          TerminateEnd, ConnLost

\* receive writes the answer of a call into the reply variable of that call.
LEMMA ReplyInvStep == IInv /\ [Next]_vars => ReplyInv'
<1> SUFFICES ASSUME IInv, [Next]_vars PROVE ReplyInv'
  OBVIOUS
<1> USE NilCalls DEF IInv, TypeOK, clientVars, callVars, recvVars
<1>1. CASE UNCHANGED <<reply, ndone, error, rpc, rcall>>
  BY <1>1 DEF ReplyInv
<1>2. ASSUME NEW c \in Calls, RegisterCall(c) PROVE ReplyInv'
  BY <1>2 DEF RegisterCall, NextSeq, Usable, ClientType, CallType, RecvType,
     ReplyInv, TakenInv, PendingInv, OnceInv, SeqInv, WireInv, Own
<1>3. ASSUME NEW c \in Calls, RejectCall(c) PROVE ReplyInv'
  BY <1>3 DEF RejectCall, Done, ReplyInv, TakenInv, PendingInv, OnceInv,
     SeqInv, WireInv, Own
<1>4. CASE ReadHeader
  BY <1>4 DEF ReadHeader, ReplyInv, Own
<1>5. CASE ReadHeaderFails
  BY <1>5 DEF ReadHeaderFails, ReplyInv, Own
<1>6. CASE Dispatch
  BY <1>6 DEF Dispatch, ReplyInv, Own
<1>7. CASE ReadBody
  BY <1>7 DEF ReadBody, CallType, RecvType, ReplyInv, TakenInv, PendingInv,
     OnceInv, SeqInv, WireInv, Own
<1>8. CASE Notify
  BY <1>8 DEF Notify, Done, ReplyInv, Own
<1>9. CASE Terminate
  BY <1>9 DEF Terminate, ReplyInv, Own
<1>10. CASE TerminateCall
  BY <1>10 DEF TerminateCall, Done, ClientType, CallType, RecvType, ReplyInv,
     Own
<1>11. CASE TerminateEnd
  BY <1>11 DEF TerminateEnd, ReplyInv, Own
<1> QED
  BY <1>1, <1>2, <1>3, <1>4, <1>5, <1>6, <1>7, <1>8, <1>9, <1>10,
          <1>11 DEF Next, Send, Receive, vars,
          Go, SetHeader, WriteOk, WriteBadArgs, CloseOnError, WriteError,
          FailSend, Return, Timeout, Drain, Close, ConnLost

\* The issuer is told what is in the call when it is done.
LEMMA RetInvStep == IInv /\ [Next]_vars => RetInv'
<1> SUFFICES ASSUME IInv, [Next]_vars PROVE RetInv'
  OBVIOUS
<1> USE NilCalls DEF IInv, TypeOK, clientVars, callVars, recvVars
<1>1. CASE UNCHANGED <<ret, pc, ndone, reply>>
  BY <1>1 DEF RetInv
<1>2. ASSUME NEW c \in Calls, Go(c) PROVE RetInv'
  BY <1>2 DEF Go, Goto, ClientType, CallType, RecvType, RetInv, Own, InSend
<1>3. ASSUME NEW c \in Calls, RegisterCall(c) PROVE RetInv'
  BY <1>3 DEF RegisterCall, Goto, LockSending, NextSeq, Usable, ClientType,
     CallType, RecvType, RetInv, Own, InSend
<1>4. ASSUME NEW c \in Calls, RejectCall(c) PROVE RetInv'
  BY <1>4 DEF RejectCall, Goto, Done, ClientType, CallType, RecvType, RetInv,
     Own, InSend
<1>5. ASSUME NEW c \in Calls, SetHeader(c) PROVE RetInv'
  BY <1>5 DEF SetHeader, Goto, ClientType, CallType, RecvType, RetInv, Own,
     InSend
<1>6. ASSUME NEW c \in Calls, WriteOk(c) PROVE RetInv'
  BY <1>6 DEF WriteOk, Goto, ClientType, CallType, RecvType, RetInv, Own,
     InSend
<1>7. ASSUME NEW c \in Calls, WriteBadArgs(c) PROVE RetInv'
  BY <1>7 DEF WriteBadArgs, Goto, ClientType, CallType, RecvType, RetInv, Own,
     InSend
<1>8. ASSUME NEW c \in Calls, CloseOnError(c) PROVE RetInv'
  BY <1>8 DEF CloseOnError, Goto, ClientType, CallType, RecvType, RetInv, Own,
     InSend
<1>9. ASSUME NEW c \in Calls, WriteError(c) PROVE RetInv'
  BY <1>9 DEF WriteError, Goto, ClientType, CallType, RecvType, RetInv, Own,
     InSend
<1>10. ASSUME NEW c \in Calls, FailSend(c) PROVE RetInv'
  BY <1>10 DEF FailSend, Goto, ClientType, CallType, RecvType, RetInv, Own,
     InSend
<1>11. ASSUME NEW c \in Calls, Return(c) PROVE RetInv'
  <2>1. ndone[c] # 0
    BY <1>11, HeadCall, ChanOfCall DEF Return
  <2>2. error[c] = "none" => reply[c] = Own(c)
    BY <2>1 DEF ReplyInv
  <2> QED
    BY <1>11, <2>1, <2>2 DEF Return, Goto, Told, RetInv, CallType
<1>12. ASSUME NEW c \in Calls, Timeout(c) PROVE RetInv'
  BY <1>12 DEF Timeout, Goto, ClientType, CallType, RecvType, RetInv, Own,
     InSend
<1>13. CASE Drain
  <2> DEFINE c == Head(chan[Shared])
  <2>1. c \in Calls /\ ndone[c] # 0
    BY <1>13, HeadCall, ChanOfCall DEF Drain
  <2>2. error[c] = "none" => reply[c] = Own(c)
    BY <2>1 DEF ReplyInv
  <2>3. Told(c) /\ Goto(c, "returned") /\ UNCHANGED <<reply, ndone>>
    BY <1>13 DEF Drain
  <2> HIDE DEF c
  <2> QED
    BY <2>1, <2>2, <2>3 DEF Goto, Told, RetInv, CallType
<1>14. CASE ReadBody
  <2>1. UNCHANGED <<pc, ret, ndone>>
    BY <1>14 DEF ReadBody
  <2>2. \A c \in Calls : reply'[c] = reply[c] \/ reply'[c] = Own(c)
    <3>1. CASE reply' = reply
      BY <3>1
    <3>2. CASE reply' # reply
      <4>1. rcall # NoCall /\ reply' = [reply EXCEPT ![rcall] =
                  [method |-> rhdr.method, args |-> rhdr.args]]
        BY <1>14, <3>2 DEF ReadBody
      <4>2. rhdr.method = rcall /\ rhdr.args = rcall
        BY <1>14, <4>1 DEF ReadBody, TakenInv, WireInv
      <4> QED
        BY <4>1, <4>2 DEF CallType, Own
    <3> QED
      BY <3>1, <3>2
  <2> QED
    BY <2>1, <2>2 DEF RetInv
<1>15. CASE Notify
  <2>1. UNCHANGED <<pc, ret, reply>>
    BY <1>15 DEF Notify
  <2>2. \A c \in Calls : ndone[c] # 0 => ndone'[c] # 0
    BY <1>15 DEF Notify, Done, CallType
  <2> QED
    BY <2>1, <2>2 DEF RetInv
<1>16. CASE TerminateCall
  <2>1. UNCHANGED <<pc, ret, reply>>
    BY <1>16 DEF TerminateCall
  <2>2. \A c \in Calls : ndone[c] # 0 => ndone'[c] # 0
    BY <1>16 DEF TerminateCall, Done, CallType
  <2> QED
    BY <2>1, <2>2 DEF RetInv
<1> QED
  BY <1>1, <1>2, <1>3, <1>4, <1>5, <1>6, <1>7, <1>8, <1>9, <1>10, <1>11,
          <1>12, <1>13, <1>14, <1>15, <1>16 DEF Next, Send, Receive, vars,
          Close, ReadHeader, ReadHeaderFails, Dispatch, Terminate,
          TerminateEnd, ConnLost

\* The Done channels hold calls that are done.
LEMMA ChanInvStep == IInv /\ [Next]_vars => ChanInv'
<1> SUFFICES ASSUME IInv, [Next]_vars PROVE ChanInv'
  OBVIOUS
<1> USE NilCalls DEF IInv, TypeOK, clientVars, callVars, recvVars
<1>1. CASE UNCHANGED <<chan, ndone, ret>>
  BY <1>1 DEF ChanInv
<1>2. ASSUME NEW c \in Calls, RejectCall(c) PROVE ChanInv'
  <2>1. ndone[c] = 0 /\ ret[c] = "none"
    BY <1>2 DEF RejectCall, OnceInv, RetInv
  <2> QED
    BY <1>2, <2>1, DoneChanInv DEF RejectCall
<1>3. ASSUME NEW c \in Calls, Return(c) PROVE ChanInv'
  <2>1. c \in Chans /\ c # Shared /\ c \notin AsyncCalls
    BY <1>3, ChanOfCall, ClientAssumption DEF Return
  <2>2. Head(chan[c]) = c
    BY <1>3, <2>1, HeadCall, ChanOfCall DEF Return
  <2>3. \A d \in Calls : d # c => ret'[d] = ret[d]
    BY <1>3 DEF Return, Told, CallType
  <2> QED
    BY <1>3, <2>1, <2>2, <2>3, TakeChanInv DEF Return
<1>4. ASSUME NEW c \in Calls, Timeout(c) PROVE ChanInv'
  <2>1. \A i \in 1 .. Len(chan[Shared]) : chan[Shared][i] \in Calls
    BY ChanOfCall DEF ChanType
  <2>2. \A i \in 1 .. Len(chan[Shared]) : chan[Shared][i] # c
    BY <1>4, ChanOfCall, ClientAssumption DEF Timeout, ChanInv
  <2>3. \A d \in Calls : d # c => ret'[d] = ret[d]
    BY <1>4 DEF Timeout, CallType
  <2>4. chan' = chan /\ ndone' = ndone
    BY <1>4 DEF Timeout
  <2> QED
    BY <2>1, <2>2, <2>3, <2>4 DEF ChanInv
<1>5. CASE Drain
  <2>1. Shared \in Chans
    BY ChanOfCall
  <2>2. \A d \in Calls : d # Head(chan[Shared]) => ret'[d] = ret[d]
    BY <1>5 DEF Drain, Told, CallType
  <2> QED
    BY <1>5, <2>1, <2>2, TakeChanInv DEF Drain
<1>6. CASE Notify
  <2>1. rcall \in Calls /\ ndone[rcall] = 0
    BY <1>6 DEF Notify, TakenInv, RecvType
  <2> QED
    BY <1>6, <2>1, OpenCall, DoneChanInv DEF Notify
<1>7. CASE TerminateCall
  <2>1. PICK s \in toNotify : Done(pending[s])
    BY <1>7 DEF TerminateCall
  <2>2. pending[s] \in Calls /\ ndone[pending[s]] = 0
    BY <1>7 DEF TerminateCall, PendingInv, ClientType
  <2> QED
    BY <1>7, <2>1, <2>2, OpenCall, DoneChanInv DEF TerminateCall
<1> QED
  BY <1>1, <1>2, <1>3, <1>4, <1>5, <1>6, <1>7 DEF Next, Send, Receive, vars,
          Go, RegisterCall, SetHeader, WriteOk, WriteBadArgs, CloseOnError,
          WriteError, FailSend, Close, ReadHeader, ReadHeaderFails, Dispatch,
          ReadBody, Terminate, TerminateEnd, ConnLost

\* newClientCodec establishes the invariant.
LEMMA InitIInv == Init => IInv
<1> SUFFICES ASSUME Init PROVE IInv
  OBVIOUS
<1> USE NilCalls DEF Init
<1>1. ClientType /\ RecvType /\ ConnType
  <2>1. DOMAIN pending = {}
    OBVIOUS
  <2>2. header \in [seq : Nat, method : Calls \cup {NoCall}]
    OBVIOUS
  <2>3. ClientType
    <3>1. /\ seq = 1 /\ ~closing /\ ~shutdown
          /\ sending = NoCall /\ mu = NoCall
      OBVIOUS
    <3>2. closing \in BOOLEAN /\ shutdown \in BOOLEAN
      OBVIOUS
    <3> HIDE DEF Init
    <3> QED
      BY <2>1, <2>2, <3>1, <3>2 DEF ClientType
  <2>4. RecvType
    BY DEF RecvType
  <2>5. ConnType
    BY DEF ConnType
  <2> QED
    BY <2>3, <2>4, <2>5
<1>2. CallType
  BY DEF CallType, InSend
<1>3. ChanType
  BY ClientAssumption DEF ChanType, Cap
<1>4. SeqInv /\ LockInv /\ WireInv
  BY <1>1, <1>2 DEF SeqInv, LockInv, WireInv, Holding, InSend
<1>5. TakenInv /\ PendingInv /\ ShutdownInv /\ OnceInv
  BY DEF TakenInv, PendingInv, ShutdownInv, OnceInv, Holding, InSend
<1>6. ReplyInv /\ RetInv
  BY DEF ReplyInv, RetInv
<1>7. ChanInv
  BY ChanOfCall DEF ChanInv
<1> QED
  BY <1>1, <1>2, <1>3, <1>4, <1>5, <1>6, <1>7 DEF IInv, TypeOK

LEMMA StepInv == IInv /\ [Next]_vars => IInv'
<1> SUFFICES ASSUME IInv, [Next]_vars PROVE IInv'
  OBVIOUS
<1>1. TypeOK'
  BY ClientTypeStep, CallTypeStep, ChanTypeStep, RecvTypeStep,
     ConnTypeStep DEF TypeOK
<1>2. SeqInv' /\ LockInv' /\ WireInv'
  BY SeqInvStep, LockInvStep, WireInvStep
<1>3. TakenInv' /\ PendingInv' /\ ShutdownInv' /\ OnceInv'
  BY TakenInvStep, PendingInvStep, ShutdownInvStep, OnceInvStep
<1>4. ReplyInv' /\ RetInv' /\ ChanInv'
  BY ReplyInvStep, RetInvStep, ChanInvStep
<1> QED
  BY <1>1, <1>2, <1>3, <1>4 DEF IInv

\* For any calls, deadlines and capacity, every state of the client satisfies the
\* inductive invariant.
THEOREM Invariance == Spec => []IInv
  BY InitIInv, StepInv, PTL DEF Spec

\* done() is called at most once per call (Call.done, client.go:32).
THEOREM OnceDone == Spec => []AtMostOnce
<1>1. IInv => AtMostOnce
  BY DEF IInv, OnceInv, AtMostOnce
<1> QED
  BY Invariance, <1>1, PTL

\* The header that send writes is that of the body that follows it, although
\* all calls share client.header.
THEOREM WireFidelity == Spec => []WireOwn
<1>1. IInv => WireOwn
  BY DEF IInv, WireInv, WireOwn
<1> QED
  BY Invariance, <1>1, PTL

\* When receive has returned, every call in client.pending is done, and no
\* sender is left that could add one (terminateCalls, registerCall).
THEOREM OrphanFreedom == Spec => []NoOrphan
<1>1. IInv => NoOrphan
  <2> SUFFICES ASSUME IInv, rpc = "exited"
               PROVE  /\ \A s \in DOMAIN pending : ndone[pending[s]] = 1
                      /\ \A c \in Calls : pc[c] \notin Holding \ {"reject"}
    BY DEF NoOrphan
  <2>1. ASSUME NEW s \in DOMAIN pending PROVE ndone[pending[s]] = 1
    BY <2>1 DEF IInv, TypeOK, ClientType, CallType, PendingInv, OnceInv
  <2>2. ASSUME NEW c \in Calls PROVE pc[c] \notin Holding \ {"reject"}
    BY <2>2 DEF IInv, ShutdownInv
  <2> QED
    BY <2>1, <2>2
<1> QED
  BY Invariance, <1>1, PTL

------------------------------------------------------------------------------
(* The client implements its promise.                                      *)

\* What the issuers are not told does not move their outcome.
LEMMA OutcomeSame ==
    ASSUME ret' = ret, \A d \in Calls : pc'[d] = "idle" <=> pc[d] = "idle"
    PROVE  outcome' = outcome
  BY DEF outcome

\* What one issuer is told moves its outcome only.
LEMMA OutcomeMoves ==
    ASSUME CallType, NEW c \in Calls, NEW to, outcome'[c] = to,
           \A d \in Calls \ {c} : /\ ret'[d] = ret[d]
                                  /\ pc'[d] = "idle" <=> pc[d] = "idle"
    PROVE  outcome' = [outcome EXCEPT ![c] = to]
  BY DEF outcome

\* An issuer that takes its call from the Done channel has its answer, or an error.
LEMMA TakenReply ==
    ASSUME CallType, RetInv, ReplyInv, NEW c \in Calls, pc[c] # "idle",
           ret[c] = "none", ndone[c] # 0, ret' = [ret EXCEPT ![c] =
               IF error[c] = "none" THEN "ok" ELSE "error"],
           pc' = [pc EXCEPT ![c] = "returned"], reply' = reply
    PROVE  Promise!Next
<1>1. outcome[c] = "open"
  BY DEF outcome, Seen
<1>2. CASE error[c] = "none"
  <2>1. outcome'[c] = "ok"
    BY <1>2 DEF outcome, Seen, CallType
  <2>2. outcome' = [outcome EXCEPT ![c] = "ok"]
    BY <2>1, OutcomeMoves DEF CallType
  <2>3. reply[c] = Own(c)
    BY <1>2 DEF ReplyInv
  <2>4. Promise!Succeed(c)
    BY <1>1, <2>2, <2>3 DEF Promise!Succeed, Promise!Move
  <2> QED
    BY <2>4 DEF Promise!Next
<1>3. CASE error[c] # "none"
  <2>1. outcome'[c] = "failed"
    BY <1>3 DEF outcome, Seen, CallType
  <2>2. outcome' = [outcome EXCEPT ![c] = "failed"]
    BY <2>1, OutcomeMoves DEF CallType
  <2>3. Promise!Fail(c)
    BY <1>1, <2>2 DEF Promise!Fail, Promise!Move
  <2> QED
    BY <2>3 DEF Promise!Next
<1> QED
  BY <1>2, <1>3

\* Every step of the client is a step of CallPromise, or invisible to it.
LEMMA PromiseStep ==
    IInv /\ [Next]_vars => [Promise!Next]_(Promise!promiseVars)
<1> SUFFICES ASSUME IInv, [Next]_vars
             PROVE  Promise!Next \/ UNCHANGED <<outcome, reply>>
  BY DEF Promise!promiseVars
<1> USE DEF IInv, TypeOK, clientVars, callVars, recvVars
<1>1. CASE UNCHANGED <<pc, ret, reply>>
  BY <1>1, OutcomeSame
<1>2. ASSUME NEW c \in Calls, Go(c) PROVE Promise!Issue(c)
  <2>1. outcome[c] = "idle" /\ outcome'[c] = "open"
    BY <1>2 DEF Go, Goto, outcome, Seen, CallType, RetInv
  <2>2. outcome' = [outcome EXCEPT ![c] = "open"]
    BY <1>2, <2>1, OutcomeMoves DEF Go, Goto, CallType
  <2> QED
    BY <1>2, <2>1, <2>2 DEF Go, Promise!Issue, Promise!Move
<1>3. ASSUME NEW c \in Calls, Send(c) PROVE UNCHANGED <<outcome, reply>>
  <2>1. ret' = ret /\ reply' = reply
    BY <1>3 DEF Send, RegisterCall, RejectCall, SetHeader, WriteOk,
       WriteBadArgs, CloseOnError, WriteError, FailSend
  <2>2. pc[c] # "idle" /\ (pc' = pc \/ \E l : l # "idle" /\ pc' = [pc EXCEPT ![c] = l])
    BY <1>3 DEF Send, RegisterCall, RejectCall, SetHeader, WriteOk,
       WriteBadArgs, CloseOnError, WriteError, FailSend, Goto
  <2>3. \A d \in Calls : pc'[d] = "idle" <=> pc[d] = "idle"
    BY <2>2 DEF CallType
  <2> QED
    BY <2>1, <2>3, OutcomeSame
<1>4. ASSUME NEW c \in Calls, Return(c) PROVE Promise!Next
  <2>1. ndone[c] # 0
    BY <1>4, HeadCall, ChanOfCall DEF Return
  <2>2. ret[c] = "none"
    BY <1>4 DEF Return, RetInv
  <2> QED
    BY <1>4, <2>1, <2>2, TakenReply DEF Return, Told, Goto
<1>5. CASE Drain
  <2> DEFINE c == Head(chan[Shared])
  <2>1. c \in Calls /\ ndone[c] # 0 /\ ret[c] = "none"
    BY <1>5, HeadCall, ChanOfCall DEF Drain
  <2>2. pc[c] # "idle"
    BY <2>1 DEF OnceInv
  <2>3. Told(c) /\ Goto(c, "returned") /\ reply' = reply
    BY <1>5 DEF Drain
  <2> HIDE DEF c
  <2> QED
    BY <2>1, <2>2, <2>3, TakenReply DEF Told, Goto
<1>6. ASSUME NEW c \in Calls, Timeout(c) PROVE Promise!Abandon(c)
  <2>1. outcome[c] = "open" /\ outcome'[c] = "abandoned"
    BY <1>6 DEF Timeout, Goto, outcome, Seen, CallType, RetInv
  <2>2. outcome' = [outcome EXCEPT ![c] = "abandoned"]
    BY <1>6, <2>1, OutcomeMoves DEF Timeout, Goto, CallType
  <2> QED
    BY <1>6, <2>1, <2>2 DEF Timeout, Promise!Abandon, Promise!Move
<1>7. CASE ReadBody
  <2>1. UNCHANGED <<pc, ret>>
    BY <1>7 DEF ReadBody
  <2>2. outcome' = outcome
    BY <2>1, OutcomeSame
  <2>3. CASE reply' = reply
    BY <2>2, <2>3
  <2>4. CASE reply' # reply
    <3>1. rcall # NoCall /\ reply' = [reply EXCEPT ![rcall] =
                [method |-> rhdr.method, args |-> rhdr.args]]
      BY <1>7, <2>4 DEF ReadBody
    <3>2. rcall \in Calls /\ rhdr.method = rcall /\ rhdr.args = rcall
      BY <1>7, <3>1 DEF ReadBody, TakenInv, WireInv, RecvType
    <3>3. reply' = [reply EXCEPT ![rcall] = Own(rcall)]
      BY <3>1, <3>2 DEF Own
    <3>4. pc[rcall] # "idle" /\ ret[rcall] \in {"none", "timeout"}
      BY <1>7, <3>1, <3>2 DEF ReadBody, TakenInv, WireInv, SeqInv, RetInv, CallType
    <3>5. outcome[rcall] \in {"open", "abandoned"}
      BY <3>2, <3>4 DEF outcome, Seen
    <3>6. Promise!Answer(rcall)
      BY <2>2, <3>3, <3>5 DEF Promise!Answer
    <3> QED
      BY <3>2, <3>6 DEF Promise!Next
  <2> QED
    BY <2>3, <2>4
<1> QED
  BY <1>1, <1>2, <1>3, <1>4, <1>5, <1>6, <1>7 DEF Next, Receive, vars,
     Promise!Next, Close, ReadHeader, ReadHeaderFails, Dispatch, Notify,
     Terminate, TerminateCall, TerminateEnd, ConnLost

\* The client implements CallPromise: each issuer gets the answer to its own
\* call, an error or a timeout, once.
THEOREM Refinement == Spec => ImplementsPromise
<1>1. Init => Promise!Init
  BY DEF Init, Promise!Init, outcome
<1>2. IInv /\ [Next]_vars => [Promise!Next]_(Promise!promiseVars)
  BY PromiseStep
<1> QED
  BY Invariance, <1>1, <1>2, PTL DEF Spec, ImplementsPromise, Promise!Spec
==============================================================================
