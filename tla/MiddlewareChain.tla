--------------------------- MODULE MiddlewareChain ---------------------------
(***************************************************************************)
(* One request in gee: Engine.ServeHTTP collects the middlewares of the    *)
(* groups whose prefix the path has, handle appends the route's handler or *)
(* the one that answers 404, and Next calls them all, from inside each     *)
(* other where they call Next themselves.  Requests share nothing.         *)
(***************************************************************************)
EXTENDS Integers, Sequences

CONSTANTS MaxHandlers, MaxNext    \* bounds on a chain and on the calls of Next

ASSUME ChainAssumption == MaxHandlers \in Nat /\ MaxNext \in Nat

VARIABLES n,          \* length of Context.handlers
          recovery,   \* the handlers that are Recovery()
          index,      \* Context.index, which counts from 0
          stack,      \* the calls that run: 0 is the loop of Next, i handler i
          nexts,      \* calls of Next that a handler has made
          started,    \* handlers, in the order of their start: for checking
          escaped     \* whether a panic left ServeHTTP

chainVars == <<n, recovery, index, stack, nexts, started, escaped>>

Handlers == 1..MaxHandlers
Loop == 0

ChainInit ==
    /\ n = 0 /\ recovery = {} /\ index = -1 /\ stack = <<>>
    /\ nexts = [h \in Handlers |-> 0]
    /\ started = <<>> /\ escaped = FALSE

------------------------------------------------------------------------------
(* A slip that the property at the end must catch.                         *)

FromStart == 0           \* a loop of Next with an index of its own

------------------------------------------------------------------------------
Top == stack[Len(stack)]
Push(call) == stack' = Append(stack, call)
Pop == stack' = SubSeq(stack, 1, Len(stack) - 1)

\* The index with which a Next begins, and with which its loop goes on after a
\* handler has returned.
Enter == index + 1
Advance == index + 1

\* ServeHTTP and handle: a chain that ends in a handler, and the first Next.
Serve(handlers, recovers) ==
    /\ n = 0
    /\ n' = handlers /\ recovery' = recovers
    /\ index' = Enter /\ Push(Loop)
    /\ UNCHANGED <<nexts, started, escaped>>

\* A turn of the loop of Next, or its end.
CallHandler ==
    /\ stack # <<>> /\ Top = Loop /\ index < n
    /\ Push(index + 1)
    /\ started' = Append(started, index + 1)
    /\ UNCHANGED <<n, recovery, index, nexts, escaped>>

EndLoop ==
    /\ stack # <<>> /\ Top = Loop /\ index >= n
    /\ Pop
    /\ UNCHANGED <<n, recovery, index, nexts, started, escaped>>

\* A handler calls Next; Recovery does so once.
CallNext ==
    /\ stack # <<>> /\ Top # Loop
    /\ nexts[Top] < (IF Top \in recovery THEN 1 ELSE MaxNext)
    /\ nexts' = [nexts EXCEPT ![Top] = @ + 1]
    /\ index' = Enter /\ Push(Loop)
    /\ UNCHANGED <<n, recovery, started, escaped>>

Return ==
    /\ stack # <<>> /\ Top # Loop
    /\ Top \in recovery => nexts[Top] = 1
    /\ Pop /\ index' = Advance
    /\ UNCHANGED <<n, recovery, nexts, started, escaped>>

\* A handler panics: the stack is unwound to the last Recovery, which answers
\* 500 and returns, or out of ServeHTTP.  A Recovery itself does not panic.
Recovers == {k \in 1..Len(stack) - 1 : stack[k] \in recovery}

Panic ==
    /\ stack # <<>> /\ Top # Loop /\ Top \notin recovery
    /\ IF Recovers = {}
       THEN stack' = <<>> /\ escaped' = TRUE /\ UNCHANGED index
       ELSE /\ stack' = SubSeq(stack, 1, (CHOOSE k \in Recovers :
                                             \A j \in Recovers : j <= k) - 1)
            /\ index' = Advance /\ UNCHANGED escaped
    /\ UNCHANGED <<n, recovery, nexts, started>>

ChainNext ==
    \/ \E handlers \in 1..MaxHandlers, recovers \in SUBSET Handlers :
          Serve(handlers, recovers \cap 1..(handlers - 1))
    \/ CallHandler \/ EndLoop \/ CallNext \/ Return \/ Panic

ChainSpec == ChainInit /\ [][ChainNext]_chainVars

------------------------------------------------------------------------------
ChainTypeOK ==
    /\ n \in 0..MaxHandlers /\ recovery \subseteq Handlers /\ index \in Int
    /\ stack \in Seq(Handlers \cup {Loop})
    /\ nexts \in [Handlers -> Nat]
    /\ started \in Seq(Handlers) /\ escaped \in BOOLEAN

\* However the handlers nest their calls of Next and whatever panics, they
\* start in order, none of them twice; and a chain that has ended has called
\* all of them, those behind one that panicked under a Recovery included,
\* unless the panic has left it.
EachOnce ==
    /\ Len(started) <= n
    /\ \A k \in 1..Len(started) : started[k] = k
    /\ n > 0 /\ stack = <<>> /\ ~escaped => Len(started) = n
=============================================================================
