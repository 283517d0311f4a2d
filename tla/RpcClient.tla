------------------------------ MODULE RpcClient ------------------------------
(***************************************************************************)
(* The client of geeRPC (geeRPC/client.go): one Client on one connection,  *)
(* the goroutines that issue calls on it, and its receive goroutine.       *)
(*                                                                         *)
(* A call is issued once.  A synchronous call (Client.Call) runs in a      *)
(* goroutine of its own and waits on a private Done channel of capacity 1; *)
(* an asynchronous one (Client.Go) is issued by a single user goroutine    *)
(* that gives every call the same Done channel and drains it between       *)
(* calls.  The critical sections of client.mu are single steps, except the *)
(* one of terminateCalls, which may block on a full Done channel.          *)
(***************************************************************************)
EXTENDS Naturals, Sequences

CONSTANTS SyncCalls,    \* calls issued with Client.Call
          AsyncCalls,   \* calls issued with Client.Go
          Deadline,     \* the synchronous calls whose context may be done
          DoneCap,      \* capacity of the Done channel shared by AsyncCalls
          Shared,       \* that channel
          NoCall,       \* nil, and the holder of a free lock
          Receiver,     \* the receive goroutine, as holder of a lock
          NoReply       \* a reply variable that was not written

Calls == SyncCalls \cup AsyncCalls
Chans == SyncCalls \cup {Shared}

\* DoneCap is positive: Go panics on an unbuffered channel.
ASSUME ClientAssumption ==
    /\ SyncCalls \cap AsyncCalls = {}
    /\ Deadline \subseteq SyncCalls
    /\ DoneCap \in Nat \ {0}
    /\ Shared \notin SyncCalls
    /\ {NoCall, Receiver} \cap Calls = {}
    /\ NoCall # Receiver
    /\ NoReply \notin [method : Calls, args : Calls]

VARIABLES
    \* fields of Client
    seq, pending, closing, shutdown, sending, mu, header,
    \* per call: where its issuer is, Call.Seq, Call.Error, *Call.Reply, what
    \* the issuer was told, and how often done() was called (history)
    pc, seqno, error, reply, ret, ndone,
    \* the Done channels
    chan,
    \* the receive goroutine: where it is, the header it read, the call it
    \* removed, whether reading the body failed, the calls left to terminate
    rpc, rhdr, rcall, rfail, toNotify,
    \* the connection: usable or not, and the requests the server has not
    \* answered; a nil call was dereferenced
    connUp, wire, crashed

clientVars == <<seq, pending, closing, shutdown, sending, mu, header>>
callVars == <<pc, seqno, error, reply, ret, ndone, chan>>
recvVars == <<rpc, rhdr, rcall, rfail, toNotify>>
vars == <<clientVars, callVars, recvVars, connUp, wire, crashed>>

\* What the server answers to a request: the method named by the header
\* applied to the arguments of the body.
Own(c) == [method |-> c, args |-> c]

ChanOf(c) == IF c \in SyncCalls THEN c ELSE Shared
Cap(ch) == IF ch = Shared THEN DoneCap ELSE 1

\* The program counters at which an issuer is inside send.
InSend == {"send", "reject", "header", "write", "abort", "failed"}
\* ... and holds client.sending.
Holding == InSend \ {"send"}

Init ==
    /\ seq = 1
    /\ pending = [s \in {} |-> NoCall]
    /\ closing = FALSE /\ shutdown = FALSE
    /\ sending = NoCall /\ mu = NoCall
    /\ header = [seq |-> 0, method |-> NoCall]
    /\ pc = [c \in Calls |-> "idle"]
    /\ seqno = [c \in Calls |-> 0]
    /\ error = [c \in Calls |-> "none"]
    /\ reply = [c \in Calls |-> NoReply]
    /\ ret = [c \in Calls |-> "none"]
    /\ ndone = [c \in Calls |-> 0]
    /\ chan = [ch \in Chans |-> << >>]
    /\ rpc = "read"
    /\ rhdr = [seq |-> 0, method |-> NoCall, args |-> NoCall, error |-> "none"]
    /\ rcall = NoCall /\ rfail = FALSE /\ toNotify = {}
    /\ connUp = TRUE /\ wire = {} /\ crashed = FALSE

------------------------------------------------------------------------------
(* Slips that the properties at the end must catch: each is a plausible    *)
(* wrong version of the definition of the code it is named after.          *)

UsableUnlessClosed == ~closing                       \* shutdown not looked at
LockSendingUnused(c) == UNCHANGED sending            \* no Lock
UnlockSendingForgotten == UNCHANGED sending          \* no Unlock
DoneUnblocked(c) ==                                  \* channel never full
    /\ chan' = [chan EXCEPT ![ChanOf(c)] = Append(@, c)]
    /\ ndone' = [ndone EXCEPT ![c] = @ + 1]
NextSeqSame == seq                                   \* no client.seq++
RemoveCallKept(s) == UNCHANGED pending               \* no delete

------------------------------------------------------------------------------
Goto(c, label) == pc' = [pc EXCEPT ![c] = label]

\* IsAvailable, and the test of registerCall.
Usable == ~closing /\ ~shutdown

LockSending(c) == sending = NoCall /\ sending' = c
UnlockSending == sending' = NoCall

\* call.Done <- call: blocks while the channel is full.
Done(c) ==
    /\ Len(chan[ChanOf(c)]) < Cap(ChanOf(c))
    /\ chan' = [chan EXCEPT ![ChanOf(c)] = Append(@, c)]
    /\ ndone' = [ndone EXCEPT ![c] = @ + 1]

\* client.seq++; 64 bits are not exhausted.
NextSeq == seq + 1

\* delete(client.pending, s)
RemoveCall(s) == pending' = [t \in DOMAIN pending \ {s} |-> pending[t]]

------------------------------------------------------------------------------
(* Issuing a call.                                                         *)

\* The user goroutine of the asynchronous calls issues one at a time.
Go(c) ==
    /\ pc[c] = "idle"
    /\ c \in AsyncCalls => \A a \in AsyncCalls : pc[a] \notin InSend
    /\ Goto(c, "send")
    /\ UNCHANGED <<clientVars, seqno, error, reply, ret, ndone, chan,
                   recvVars, connUp, wire, crashed>>

\* send takes client.sending, then registerCall runs under client.mu.
RegisterCall(c) ==
    /\ pc[c] = "send" /\ mu = NoCall
    /\ LockSending(c)
    /\ \/ /\ ~Usable
          /\ error' = [error EXCEPT ![c] = "shutdown"]
          /\ Goto(c, "reject")
          /\ UNCHANGED <<seq, pending, seqno>>
       \/ /\ Usable
          /\ seqno' = [seqno EXCEPT ![c] = seq]
          /\ pending' = [s \in DOMAIN pending \cup {seq} |->
                            IF s = seq THEN c ELSE pending[s]]
          /\ seq' = NextSeq
          /\ Goto(c, "header")
          /\ UNCHANGED error
    /\ UNCHANGED <<closing, shutdown, mu, header, reply, ret, ndone, chan,
                   recvVars, connUp, wire, crashed>>

\* A call that could not be registered is done at once, under client.sending.
RejectCall(c) ==
    /\ pc[c] = "reject"
    /\ Done(c)
    /\ UnlockSending
    /\ Goto(c, "wait")
    /\ UNCHANGED <<seq, pending, closing, shutdown, mu, header, seqno, error,
                   reply, ret, recvVars, connUp, wire, crashed>>

\* The header is a field of the client, shared by all senders.
SetHeader(c) ==
    /\ pc[c] = "header"
    /\ header' = [seq |-> seqno[c], method |-> c]
    /\ Goto(c, "write")
    /\ UNCHANGED <<seq, pending, closing, shutdown, sending, mu, seqno, error,
                   reply, ret, ndone, chan, recvVars, connUp, wire, crashed>>

Request(c, whole) == [seq |-> header.seq, method |-> header.method,
                      args |-> c, whole |-> whole]

\* cc.Write returns nil: the request was flushed, or the connection is gone
\* and the error of the flush was dropped.
WriteOk(c) ==
    /\ pc[c] = "write"
    /\ wire' = IF connUp THEN wire \cup {Request(c, TRUE)} ELSE wire
    /\ UnlockSending
    /\ Goto(c, "wait")
    /\ UNCHANGED <<seq, pending, closing, shutdown, mu, header, seqno, error,
                   reply, ret, ndone, chan, recvVars, connUp, crashed>>

\* cc.Write fails on arguments it cannot encode: the header has been encoded
\* already, and the deferred function flushes it before it closes.
WriteBadArgs(c) ==
    /\ pc[c] = "write" /\ connUp
    /\ wire' = wire \cup {Request(c, FALSE)}
    /\ Goto(c, "abort")
    /\ UNCHANGED <<clientVars, seqno, error, reply, ret, ndone, chan,
                   recvVars, connUp, crashed>>

CloseOnError(c) ==
    /\ pc[c] = "abort"
    /\ connUp' = FALSE
    /\ Goto(c, "failed")
    /\ UNCHANGED <<clientVars, seqno, error, reply, ret, ndone, chan,
                   recvVars, wire, crashed>>

\* cc.Write fails on a connection that is gone.
WriteError(c) ==
    /\ pc[c] = "write" /\ ~connUp
    /\ Goto(c, "failed")
    /\ UNCHANGED <<clientVars, seqno, error, reply, ret, ndone, chan,
                   recvVars, connUp, wire, crashed>>

\* send after a failed Write: the call is removed, and Error and done() are
\* reached only when the removed call is nil, which they dereference.
FailSend(c) ==
    /\ pc[c] = "failed" /\ mu = NoCall
    /\ RemoveCall(seqno[c])
    /\ IF seqno[c] \in DOMAIN pending
       THEN UnlockSending /\ Goto(c, "wait") /\ UNCHANGED crashed
       ELSE crashed' = TRUE /\ UNCHANGED <<sending, pc>>
    /\ UNCHANGED <<seq, closing, shutdown, mu, header, seqno, error, reply,
                   ret, ndone, chan, recvVars, connUp, wire>>

------------------------------------------------------------------------------
(* The end of a call, as its issuer sees it.                               *)

Told(c) == ret' = [ret EXCEPT ![c] = IF error[c] = "none" THEN "ok" ELSE "error"]

\* Call: the select takes the call from its Done channel.
Return(c) ==
    /\ c \in SyncCalls /\ pc[c] = "wait" /\ chan[c] # << >>
    /\ chan' = [chan EXCEPT ![c] = Tail(@)]
    /\ Told(c)
    /\ Goto(c, "returned")
    /\ UNCHANGED <<clientVars, seqno, error, reply, ndone, recvVars, connUp,
                   wire, crashed>>

\* Call: the select takes ctx.Done(); a call never registered has Seq 0.
Timeout(c) ==
    /\ c \in Deadline /\ pc[c] = "wait" /\ mu = NoCall
    /\ RemoveCall(seqno[c])
    /\ ret' = [ret EXCEPT ![c] = "timeout"]
    /\ Goto(c, "returned")
    /\ UNCHANGED <<seq, closing, shutdown, sending, mu, header, seqno, error,
                   reply, ndone, chan, recvVars, connUp, wire, crashed>>

\* The user goroutine takes one call from the shared channel, outside Go.
Drain ==
    /\ chan[Shared] # << >>
    /\ \A a \in AsyncCalls : pc[a] \notin InSend
    /\ LET c == Head(chan[Shared])
       IN Told(c) /\ Goto(c, "returned")
    /\ chan' = [chan EXCEPT ![Shared] = Tail(@)]
    /\ UNCHANGED <<clientVars, seqno, error, reply, ndone, recvVars, connUp,
                   wire, crashed>>

\* Client.Close; a second Close changes nothing.
Close ==
    /\ ~closing /\ mu = NoCall
    /\ closing' = TRUE
    /\ connUp' = FALSE
    /\ UNCHANGED <<seq, pending, shutdown, sending, mu, header, callVars,
                   recvVars, wire, crashed>>

------------------------------------------------------------------------------
(* The receive goroutine.                                                  *)

\* The server answers the requests in any order.  To a header without a body
\* it can only answer that it does not know the method.  Answers that the
\* decoder has buffered can still be read when the connection is gone.
ReadHeader ==
    /\ rpc = "read"
    /\ \E m \in wire, e \in {"none", "remote"} :
          /\ m.whole \/ e = "remote"
          /\ wire' = wire \ {m}
          /\ rhdr' = [seq |-> m.seq, method |-> m.method, args |-> m.args,
                      error |-> e]
    /\ rpc' = "dispatch"
    /\ UNCHANGED <<clientVars, callVars, rcall, rfail, toNotify, connUp, crashed>>

ReadHeaderFails ==
    /\ rpc = "read" /\ ~connUp
    /\ rpc' = "terminate"
    /\ UNCHANGED <<clientVars, callVars, rhdr, rcall, rfail, toNotify, connUp,
                   wire, crashed>>

Dispatch ==
    /\ rpc = "dispatch" /\ mu = NoCall
    /\ rcall' = IF rhdr.seq \in DOMAIN pending THEN pending[rhdr.seq] ELSE NoCall
    /\ RemoveCall(rhdr.seq)
    /\ rpc' = "body"
    /\ UNCHANGED <<seq, closing, shutdown, sending, mu, header, callVars, rhdr,
                   rfail, toNotify, connUp, wire, crashed>>

\* A body nobody waits for and the body of an error are discarded, which only
\* a lost connection makes fail; the body of an answer may also have a type
\* that the reply variable cannot take.
ReadBody ==
    /\ rpc = "body"
    /\ \E fail \in BOOLEAN :
          /\ fail => ~connUp \/ (rcall # NoCall /\ rhdr.error = "none")
          /\ rfail' = fail
          /\ \/ /\ rcall = NoCall
                /\ rpc' = IF fail THEN "terminate" ELSE "read"
                /\ UNCHANGED <<error, reply>>
             \/ /\ rcall # NoCall /\ rhdr.error # "none"
                /\ error' = [error EXCEPT ![rcall] = "remote"]
                /\ rpc' = "notify"
                /\ UNCHANGED reply
             \/ /\ rcall # NoCall /\ rhdr.error = "none" /\ fail
                /\ error' = [error EXCEPT ![rcall] = "body"]
                /\ rpc' = "notify"
                /\ UNCHANGED reply
             \/ /\ rcall # NoCall /\ rhdr.error = "none" /\ ~fail
                /\ reply' = [reply EXCEPT ![rcall] = [method |-> rhdr.method,
                                                      args |-> rhdr.args]]
                /\ rpc' = "notify"
                /\ UNCHANGED error
    /\ UNCHANGED <<clientVars, pc, seqno, ret, ndone, chan, rhdr, rcall,
                   toNotify, connUp, wire, crashed>>

Notify ==
    /\ rpc = "notify"
    /\ Done(rcall)
    /\ rcall' = NoCall
    /\ rpc' = IF rfail THEN "terminate" ELSE "read"
    /\ UNCHANGED <<clientVars, pc, seqno, error, reply, ret, rhdr, rfail,
                   toNotify, connUp, wire, crashed>>

\* terminateCalls: takes client.sending and client.mu and keeps both until
\* every pending call is done.  The calls stay in client.pending.
Terminate ==
    /\ rpc = "terminate" /\ mu = NoCall
    /\ LockSending(Receiver)
    /\ mu' = Receiver
    /\ shutdown' = TRUE
    /\ toNotify' = DOMAIN pending
    /\ rpc' = "notifyAll"
    /\ UNCHANGED <<seq, pending, closing, header, callVars, rhdr, rcall, rfail,
                   connUp, wire, crashed>>

TerminateCall ==
    /\ rpc = "notifyAll"
    /\ \E s \in toNotify :
          /\ error' = [error EXCEPT ![pending[s]] = "conn"]
          /\ Done(pending[s])
          /\ toNotify' = toNotify \ {s}
    /\ UNCHANGED <<clientVars, pc, seqno, reply, ret, rpc, rhdr, rcall, rfail,
                   connUp, wire, crashed>>

TerminateEnd ==
    /\ rpc = "notifyAll" /\ toNotify = {}
    /\ UnlockSending
    /\ mu' = NoCall
    /\ rpc' = "exited"
    /\ UNCHANGED <<seq, pending, closing, shutdown, header, callVars, rhdr,
                   rcall, rfail, toNotify, connUp, wire, crashed>>

\* The server closes the connection, or the network loses it.
ConnLost ==
    /\ connUp
    /\ connUp' = FALSE
    /\ UNCHANGED <<clientVars, callVars, recvVars, wire, crashed>>

------------------------------------------------------------------------------
Send(c) == \/ RegisterCall(c) \/ RejectCall(c) \/ SetHeader(c) \/ WriteOk(c)
           \/ WriteBadArgs(c) \/ CloseOnError(c) \/ WriteError(c) \/ FailSend(c)

Receive == \/ ReadHeader \/ ReadHeaderFails \/ Dispatch \/ ReadBody \/ Notify
           \/ Terminate \/ TerminateCall \/ TerminateEnd

\* A nil dereference ends the process.
Next ==
    /\ ~crashed
    /\ \/ \E c \in Calls : Go(c) \/ Send(c) \/ Return(c) \/ Timeout(c)
       \/ Drain
       \/ Close
       \/ Receive
       \/ ConnLost

Spec == Init /\ [][Next]_vars

\* Every goroutine of the client runs, the user drains the shared channel, a
\* context with a deadline expires, and the server answers every request.
\* Nothing obliges anybody to issue a call, to close the client or to break
\* the connection.
Fairness ==
    /\ \A c \in Calls : /\ WF_vars(~crashed /\ Send(c))
                        /\ WF_vars(~crashed /\ Return(c))
                        /\ WF_vars(~crashed /\ Timeout(c))
    /\ WF_vars(~crashed /\ Drain)
    /\ WF_vars(~crashed /\ Receive)

FairSpec == Spec /\ Fairness
------------------------------------------------------------------------------
(* The inductive invariant.  Its parts say which state belongs together.   *)

ClientType ==
    /\ seq \in Nat \ {0}
    /\ DOMAIN pending \subseteq Nat
    /\ \A s \in DOMAIN pending : pending[s] \in Calls
    /\ closing \in BOOLEAN /\ shutdown \in BOOLEAN
    /\ sending \in Calls \cup {NoCall, Receiver}
    /\ mu \in {NoCall, Receiver}
    /\ header \in [seq : Nat, method : Calls \cup {NoCall}]

CallType ==
    /\ pc \in [Calls -> {"idle", "wait", "returned"} \cup InSend]
    /\ seqno \in [Calls -> Nat]
    /\ error \in [Calls -> {"none", "shutdown", "remote", "body", "conn"}]
    /\ reply \in [Calls -> {NoReply} \cup [method : Calls, args : Calls]]
    /\ ret \in [Calls -> {"none", "ok", "error", "timeout"}]
    /\ ndone \in [Calls -> Nat]

ChanType ==
    /\ chan \in [Chans -> Seq(Calls)]
    /\ \A ch \in Chans : Len(chan[ch]) <= Cap(ch)

RecvType ==
    /\ rpc \in {"read", "dispatch", "body", "notify", "terminate", "notifyAll",
                "exited"}
    /\ rhdr \in [seq : Nat, method : Calls \cup {NoCall},
                 args : Calls \cup {NoCall}, error : {"none", "remote"}]
    /\ rcall \in Calls \cup {NoCall}
    /\ rfail \in BOOLEAN
    /\ toNotify \subseteq Nat

ConnType ==
    /\ connUp \in BOOLEAN /\ crashed \in BOOLEAN
    /\ wire \subseteq [seq : Nat, method : Calls, args : Calls, whole : BOOLEAN]

\* The state has the types of the code, and no Done channel overflows.
TypeOK == ClientType /\ CallType /\ ChanType /\ RecvType /\ ConnType

\* A registered call has a sequence number of its own.
SeqInv ==
    /\ \A c \in Calls : /\ seqno[c] < seq
                        /\ pc[c] \in {"idle", "send", "reject"} => seqno[c] = 0
                        /\ pc[c] \in {"header", "write", "abort", "failed"} =>
                              seqno[c] # 0
    /\ \A c, d \in Calls : seqno[c] = seqno[d] /\ seqno[c] # 0 => c = d
    /\ \A s \in DOMAIN pending : s # 0 /\ seqno[pending[s]] = s

\* client.sending is held by the one sender past its Lock, or together with
\* client.mu by terminateCalls.
LockInv ==
    /\ \A c \in Calls : pc[c] \in Holding <=> sending = c
    /\ rpc = "notifyAll" <=> sending = Receiver
    /\ rpc = "notifyAll" <=> mu = Receiver

\* Header and body belong together: in the sender, on the wire, in receive.
WireInv ==
    /\ \A c \in Calls : pc[c] = "write" =>
          header = [seq |-> seqno[c], method |-> c]
    /\ \A m \in wire : m.method = m.args /\ m.seq = seqno[m.args] /\ m.seq # 0
    /\ rpc \in {"dispatch", "body", "notify"} =>
          /\ rhdr.args \in Calls
          /\ rhdr.method = rhdr.args
          /\ rhdr.seq = seqno[rhdr.args] /\ rhdr.seq # 0

\* The call receive has taken out of client.pending is not done.
TakenInv ==
    /\ rpc = "notify" => rcall # NoCall
    /\ rcall # NoCall => /\ rpc \in {"body", "notify"}
                         /\ rcall = rhdr.args
                         /\ seqno[rcall] \notin DOMAIN pending
                         /\ ndone[rcall] = 0

\* A pending call is not done until terminateCalls comes to it.
PendingInv ==
    /\ toNotify \subseteq DOMAIN pending
    /\ rpc # "notifyAll" => toNotify = {}
    /\ \A s \in DOMAIN pending :
          ndone[pending[s]] = 0 <=>
              /\ rpc # "exited"
              /\ rpc = "notifyAll" => s \in toNotify

\* Once shutdown is set nobody is between registerCall and the end of send.
ShutdownInv ==
    /\ shutdown <=> rpc \in {"notifyAll", "exited"}
    /\ shutdown => \A c \in Calls : pc[c] \notin Holding \ {"reject"}

OnceInv == \A c \in Calls :
    /\ ndone[c] <= 1
    /\ pc[c] \in {"idle", "send", "reject"} => ndone[c] = 0
    /\ pc[c] = "reject" => error[c] = "shutdown"

\* A reply variable holds the answer to its own call or nothing, and a call
\* that is done without an error has its answer.
ReplyInv ==
    /\ \A c \in Calls :
          /\ reply[c] \in {NoReply, Own(c)}
          /\ ndone[c] # 0 /\ error[c] = "none" => reply[c] = Own(c)
    /\ rpc = "notify" /\ error[rcall] = "none" => reply[rcall] = Own(rcall)

RetInv == \A c \in Calls :
    /\ ret[c] # "none" <=> pc[c] = "returned"
    /\ ret[c] \in {"ok", "error"} => ndone[c] # 0
    /\ ret[c] = "ok" => reply[c] = Own(c)
    /\ ret[c] = "timeout" => c \in Deadline

\* The Done channels hold calls that are done, on the channel they were given,
\* and the shared one holds each call once, until its issuer takes it.
ChanInv ==
    /\ \A ch \in Chans : \A i \in 1 .. Len(chan[ch]) :
          /\ ChanOf(chan[ch][i]) = ch
          /\ ndone[chan[ch][i]] # 0
    /\ \A i \in 1 .. Len(chan[Shared]) : ret[chan[Shared][i]] = "none"
    /\ \A i, j \in 1 .. Len(chan[Shared]) :
          chan[Shared][i] = chan[Shared][j] => i = j

IInv == /\ TypeOK
        /\ SeqInv /\ LockInv /\ WireInv
        /\ TakenInv /\ PendingInv /\ ShutdownInv /\ OnceInv
        /\ ReplyInv /\ RetInv /\ ChanInv

------------------------------------------------------------------------------
(* What the client is for.                                                 *)

\* done() is called at most once per call, whoever comes first: the answer,
\* a refused registration or terminateCalls.
AtMostOnce == \A c \in Calls : ndone[c] <= 1

\* The shared header never describes another call than the body it precedes.
WireOwn == \A m \in wire : m.method = m.args /\ m.seq = seqno[m.args]

\* When receive is gone nobody is left who could answer: every call that is
\* still in client.pending has been told, and no call is past registerCall on
\* its way to the connection.
NoOrphan == rpc = "exited" =>
    /\ \A s \in DOMAIN pending : ndone[pending[s]] = 1
    /\ \A c \in Calls : pc[c] \notin Holding \ {"reject"}

\* Each caller sees the promise of CallPromise.
Seen == [none |-> "open", ok |-> "ok", error |-> "failed",
         timeout |-> "abandoned"]
outcome == [c \in Calls |-> IF pc[c] = "idle" THEN "idle" ELSE Seen[ret[c]]]

Promise == INSTANCE CallPromise
ImplementsPromise == Promise!Spec

\* A call that its own failed Write has removed: nobody will call done().
Lost(c) == /\ pc[c] = "wait" /\ ndone[c] = 0 /\ rcall # c
           /\ seqno[c] \notin DOMAIN pending

\* The user goroutine waits in Go for its own Done channel, which is full.
Wedged == Len(chan[Shared]) = DoneCap /\ \E a \in AsyncCalls : pc[a] \in InSend

\* A call ends, unless its Write failed: with its answer, with the end of the
\* connection, or, if it has a deadline, without either.  Only a user of Go
\* who calls it again with a full Done channel can stop all calls for ever.
CallEnds == \A c \in Calls : pc[c] = "send" ~>
    \/ pc[c] = "returned" \/ (c \notin Deadline /\ Lost(c)) \/ crashed
    \/ []Wedged

\* "done() is called when a call ends" (client.go:31).
EveryCallNotified == \A c \in Calls : pc[c] = "wait" ~> (ndone[c] = 1 \/ crashed)

\* "Timeouts: use context.WithTimeout to control" a Call (client.go:205).
DeadlineEndsCall == \A c \in Deadline : pc[c] = "send" ~>
    (pc[c] = "returned" \/ crashed)
==============================================================================
